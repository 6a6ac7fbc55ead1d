# A verification development of libliftoff

libliftoff maps the layers of a compositor to the hardware planes of a KMS
device. This directory models the library in TLA+, model-checks it with TLC
and proves theorems about it with TLAPS. Source references are relative to the
repository (`alloc.c:366` is line 366 of `src/alloc.c`).

## The system

| Component | State | Operations |
|---|---|---|
| Device (`device.c`) | lists of planes and outputs, page flip counter | create, destroy, register all planes, test commit |
| Planes (`plane.c`) | id, type, zpos, possible CRTCs, properties, layer | create (sorted insertion), destroy, append properties to a request |
| Outputs (`output.c`) | layers, composition layer, `layers_changed` | create, destroy, set the composition layer |
| Layers (`layer.c`) | properties with value and previous value, `force_composition`, `changed`, plane, priorities | create, destroy, set a property, mark as composited, visibility, rectangle, priority |
| Allocation (`alloc.c`) | best allocation and score, the stack of `output_choose_layers`, the request | `liftoff_output_apply`: reuse the mapping, or search for a new one |
| List, log (`list.c`, `log.c`) | links; level and handler | insert, remove; print |
| Test kernel (`test/libdrm_mock.c`) | planes and compatible layers | atomic commit |

**How they interact.** The library is called from one thread and calls libdrm;
there are no callbacks except logging. All objects of a device share state: a
plane and its layer point at each other, a layer points at its output, and an
apply of one output goes over the planes and layers of all outputs. The
compositor changes layers at any time between two applies; an apply compares
each property with the value of the last reallocation to decide whether the
mapping still stands. If it does not, the mapping is unset, the planes are
disabled, and the search tries layers on planes one plane at a time, asking
the kernel about each step through one growing request.

**What is hard.**

* The search is recursive and shares an array and a request between its
  activations; it prunes; its stacking checks look at only some pairs and
  rely on the order of the planes.
* A mapping is reused over many applies, with previous values that are older
  than the last apply; each change that matters must be noticed.
* An apply can fail after the old mapping is gone and before a new one is known.
* Several outputs share planes, and their pending changes meet in one request.
* Objects are destroyed in any order while others point at them.

**What makes each component correct.** Search: no layer twice, the request
follows the path, stacking is kept, composition is used exactly when needed,
the result is a best one, the search ends. Apply: nothing displayed that
should not be, nothing visible lost, no stale mapping reused, the assertion of
`apply_current` never fails, other outputs untouched, links consistent wherever it stops. Geometry:
intersection means a shared pixel. Priority: bounded by the period, counting
updates. Planes: sorted for every order of registration, zpos independent of
that order. Test commit: retries only while interrupted. List: links inverse
to each other.

## Modules

| Module | Role |
|---|---|
| `Geometry` | rectangles of layers and their intersection, with the conversion to `int` |
| `AllocConstraints` | the checks of the search on one layer, one plane and one complete allocation, and the answer of the test kernel |
| `BestAllocation` | abstract: improve a justified allocation until none is better |
| `ChooseLayers` | detailed: `output_choose_layers` with its call stack |
| `PlaneOrder` | abstract: a sequence of planes that stays sorted while planes come and go |
| `PlaneList` | detailed: registering and unregistering planes, on the linked list |
| `ApplyRequest` | the atomic request of an apply, property by property: what `plane_apply` appends and takes back, test commits, failures |
| `Liftoff` | the API on one device: every call of the client, and the outcomes of `liftoff_output_apply` |
| `LiftoffHistory` | `Liftoff` with what the last search of each output looked at |
| `AlwaysSearch` | abstract: the API without any record of changes, whose every apply searches |
| `MCChooseLayers`, `MCPlaneList`, `MCApplyRequest`, `MCLiftoff`, `MCLiftoffHistory` | values for the constants |
| `Numbers_proofs`, `Geometry_proofs`, `ChooseLayers_proofs`, `FindsBest_proofs`, `PlaneList_proofs`, `ApplyRequest_proofs`, `Liftoff_proofs`, `Reuse_proofs` | theorems |

`AllocConstraints` and `PlaneList` extend `Geometry`; `BestAllocation` and
`ChooseLayers` extend `AllocConstraints`. `ChooseLayers` instantiates
`BestAllocation` as the property `FindsBestAllocation`, and `PlaneList`
instantiates `PlaneOrder` as the property `ImplementsPlaneOrder`, and `Liftoff`
instantiates `AlwaysSearch` as `EveryApplySearches`. `LiftoffHistory` extends `Liftoff`.

The three large modules look at one apply from three sides, each leaving open
what another one settles. `ChooseLayers` tells which allocation the search
finds, with `plane_apply` as one step. `ApplyRequest` tells what is in the
request at each step, with the choices of the search left open. `Liftoff`
tells when a mapping is reused over many applies and outputs, with the search
represented by what its result satisfies. `PlaneList` provides the order of
planes that `ChooseLayers` assumes.

### Correspondence with the code

*ChooseLayers.* `depth` and `frame` are the C stack: `frame[d].step` is the
`alloc_step` argument, `cursor` the local variable of that name, `next` the
position (`ENTER`, a layer of the loop, `SKIP` for the label, `LEAVE`). `alloc`
is the shared array, `best`, `best_score` and `req` are members of
`alloc_result`. The actions are the branches of the function: `FoundBetter`,
`FoundNothing`, `GiveUp` (pruning), `EnterPlane`, `RejectLayer`,
`TestSucceeds`, `TestFails`, `Error`, `TrySkip`, `Leave`. A `scene` is what the
search only reads. A layer or plane is its place in its list. The properties
of a layer are kept as far as the search tells them apart: zpos, rectangle,
visibility, and which planes have all it needs (`supports`). The kernel is the
one of the repository's tests, plus a bound on enabled planes for the
bandwidth limits that `alloc.c:703-705` and the compositor guide speak of.

*Liftoff.* `plane_layer` and `layer_plane` are the two pointers of a mapping,
`owner` is `layer->output`, and `layer` holds the members of a layer. Each API
call is one action, which is what a single-threaded library allows; an apply
has one action per way it ends:

| Action | Code |
|---|---|
| `Reuse`, `ReuseAborts` | `alloc.c:673-677`: the mapping is kept; its assertion fails |
| `Realloc`, `ReallocAborts` | a search, the new mapping, the layers are clean; the assertion of the last `apply_current` fails |
| `ReallocFails` | an error after the mapping was unset and before a new one |
| `ReallocFailsLate` | an error of the last `apply_current`: new mapping, layers not clean |

The search is represented by `SearchResults`: any mapping that `ChooseLayers`
might return for some kernel and some zpos values. It admits more results than
the code has. One thing is demanded of it, as the compositor guide demands it
of the compositor: if the composition layer can be put on a free primary plane,
composition is always there to fall back on. The kernel's answers to the
tests, other than that, are arbitrary. That the search keeps to `SearchResults`
is `ResultUsable` of `ChooseLayers`, with `BestMapsLayersOnce`. `pending` and `current` are the
priorities, `prev` the previous values. `set_fb_composited` ignores a failure
to set `FB_ID`; running out of memory while setting a property, which leaves
the layer as it was, is left out there.

*PlaneList.* `next` and `prev` are the links, `HEAD` is the list head in the
device, `card` is what the kernel says of each plane. A call is a sequence of
steps: `PlaneCreate` and `RegisterAllPlanes` set `todo`, `CreateStarts` reads a
plane (its zpos is converted to `int`, or guessed from its type), `ScanOn`,
`InsertBefore` and `InsertLast` are the loop of `liftoff_plane_create` that looks
for its place, and `CreateFails` is any of its error returns, after which
`liftoff_device_register_all_planes` stops. `DestroyNext` is an iteration of the
loop in `liftoff_device_destroy`. `order` and `asked` are history: the planes in
the order of their insertion points, and the planes a call was to register.

*ApplyRequest.* `pc` says which loop is running: `reuse` and `reuse_test`
(`reuse_previous_alloc`), `disable` (the planes are disabled), `search`, `try` and
`test` (`output_choose_layers`), `final` (the last `apply_current`). `plane` and
`prop` are the places of the loop over planes and of the one in `plane_apply`;
`cursor`, `outer` and `frame[d].cursor` are the cursors of `plane_apply`,
`apply_current` and each activation of the search. `AppendProp` is one iteration
of `plane_apply`. What the kernel keeps is `hw`: a property that a request does not
mention keeps its committed value. Not every choice that `ApplyRequest` leaves
open is one the code makes, so it has more behaviours than the code. `held` says
which planes have a layer of another output: the loop that disables planes spares
them, the search passes them over, and `apply_current` puts their layers, as the
client has changed them meanwhile, in the request.

The client keeps the rules of the headers: it destroys the layers of an output
before the output, and sets as composition layer only a layer of that output.

## Runs

| Run | Shows | Bounds |
|---|---|---|
| `search` | the invariants of the search, its end, and the refinement of `BestAllocation` | 3 layers, 3 planes; all 512 compatibilities in each of 9 circumstances; every zpos of {unset, 1, 2, 3, 7 (negative as an `int`)} for layers of 3 shapes on 6 plane stacks |
| `registry` | the list, its order, the refinement of `PlaneOrder`, and that every call returns | 3 planes of every type (or none) and zpos of {unset, 1, 7 (negative)} |
| `request` | what is in the request at each test and at the end, and that apply returns | 2 planes of which one has alpha, 2 layers of which one may be another output's, on either plane, alpha of 3 values or unset |
| `reuse` | when a mapping is reused, and the refinement of `AlwaysSearch` | one output, 2 planes, an ordinary and a composition layer, FB_ID of 3 values, alpha of 3 values |
| `links` | links and independence of outputs, with failures | 2 outputs, 2 planes of which one is shared, 2 layers, FB_ID and rotation |
| `priority` | types and priorities | 2 outputs, 1 layer, 2 framebuffers, a period of 3 |
| `undefined_order`, `disabled_layer` | disagreements about stacking, see below | the stacks of `search` |
| `guessed_zpos` | a disagreement about the guess of a zpos, see below | 4 planes without zpos, one of them primary |
| `unregister`, `failed_apply`, `two_outputs` | disagreements about apply, see below | as `reuse`, `links` |

Three layers and planes are the least with which a layer can be out of order
with one plane and in order with another, a branch can be abandoned two levels
up, and pruning can happen above a leaf. Shapes that are
reflections of each other are run once: the checks do not tell left from right.
Three planes are the least with which a plane is inserted between two others
and one in the middle is removed; the insertion compares one pair at a time, so
a longer list adds only iterations. In `request`, two planes and two layers give
branches abandoned after a layer was appended, a plane that rejects a layer
halfway (the one without alpha, before or after the framebuffer was appended),
and a final request that is not the one tested last. Values of alpha matter only as zero,
opaque or other, and those of FB_ID as zero or not and changed or not, so the
values cover all cases of `layer_needs_realloc`; the other properties fall
under its last case, which rotation stands for. The period is 60 in the code;
3 lets several outputs flip in one period and the counter wrap.

`page_flip_counter` and the priorities are bounded by the period, so no other
bound on counters is needed. `MayFail` and `MayDestroyPlanes` say whether an
apply may run out of memory and whether planes are unregistered: the
properties of `reuse` do not survive those (see the disagreements), and
`links` allows both.

Each run of `Liftoff` allows deadlock only where the program has aborted, which
is the step `Stop`; a finished search repeats `Done`, and a
destroyed device `Gone`. So deadlock is checked in
every run.

**Fairness.** All liveness here is that a call returns, on the one thread it runs
on. `ChooseLayers!Spec` has weak fairness of `Search \/ Error`, and
`PlaneList!Spec` of `Step`: a function keeps running until it returns, and nothing
can disable its next step. `ApplyRequest!Spec` has it of `Step`, too;
`TestInterrupted` (the kernel answers `-EINTR` or `-EAGAIN` and
`device_test_commit` asks again) changes nothing and is not part of `Step`, so
there the assumption is also that the kernel does not interrupt a test commit
forever, without which `liftoff_output_apply` would not return (`device.c:105`).
Client calls have no fairness: a client may stop calling at any time.
`Liftoff` has none at all, since each of its calls is one step. `BestAllocation`,
`PlaneOrder` and `AlwaysSearch` have none either, so the refinements are about safety, with
`Termination` and `CallsReturn` next to them.

### Disagreements with the documentation

* `undefined_order`: two intersecting layers of different zpos may get planes
  of the same zpos (the check of `alloc.c:299` compares with the layer allocated
  last only). `StackingDefinedWhenAllOverlap` shows that this needs a layer that
  does not intersect the others, or a zpos that is unset or too large.
* `disabled_layer`: a disabled layer is not ignored, it keeps those under it off
  planes (`alloc.c:176-190`), although `doc/compositor.md:95` says so.
* `unregister`: unregistering a plane does not make the next apply search again,
  so a layer is lost.
* `failed_apply`: an apply that fails leaves an empty mapping which the next one
  may reuse, and return success.
* `two_outputs`: the assertion of `alloc.c:486` fails on a change of another
  output's layer that was not applied yet.
* `guessed_zpos`: without a zpos property, an overlay should be below the primary
  plane exactly when its id is lower (`plane.c:14-15`), but the guess compares with
  the first plane of the list, which is the primary one only if that was registered
  before. `liftoff_device_register_all_planes` registers by id, so an overlay of
  lower id never sees it.

Four more were met and have no run. Primary planes take no part in stacking
checks, so a layer can be on a primary plane while one below it is on an overlay
(deliberate: `alloc.c:130`, `215`, `256`, `314`). A layer updated once is counted
as updated at every page flip until the next reallocation (`layer.c:182`); nothing
reads the priorities yet. The test commits of a search do not have the pending
changes of other outputs' layers, which the final `apply_current` adds to the request
(`alloc.c:484`): the request returned may be one that the kernel has not accepted,
which `FinalConfigurationTested` makes its one exception. And if the very last `apply_current` fails
(`alloc.c:769`), the new mapping is in place while the layers still have the
previous values of an older one: a client that sets a property back to such a value
makes the next apply take the mapping for current, so that a disabled layer stays
on its plane, or the assertion of `alloc.c:486` fails. This is why the theorems about
reuse assume that no apply fails.

## Proofs

The theorems hold for any number of layers, planes and outputs, any scene, any
set of properties and any period. They assume of the constants only what the
modules name as assumptions: sizes are natural numbers, `NULL` and `NoProp` are
no values of their own, and the planes of a scene that are not primary are sorted
(`PlanesSortedAssumption`), which `PlanesSortedHolds` shows of the list the planes
come from. Where a theorem needs more, its statement says so: `~MayFail` is that no
apply fails, `~MayDestroyPlanes` that planes stay registered, `OneOutput` that there is
one output, `PrimaryPlanesApart` that no primary plane can be used on two outputs.
`SetUpSpec` is `Spec` from a state in which all planes are registered and nothing else
has happened. The disagreements above are what happens without these.

*ChooseLayers_proofs.*
`TypeInv` is `TypeOK` with the shape of the stack (`Activations`): the cursors
of live activations are nested and the last one's is the end of the request;
without it, `SubSeq(req, 1, cursor)` need not be a prefix, and nothing could be said of
a rollback. From it, `RequestFollowsPathHolds`: the invariant says that the
request, as far as activation *d*'s cursor, configures just the planes before *d*,
so that a return restores what the caller had. A second inductive invariant says
of the allocation up to each activation that it has no layer twice, that the
`composited` flag is right, and that its layers are in order. It gives
`BestMapsLayersOnceHolds`, `CompositionLayerOnceHolds`, and, with the sorting of
planes, `StackingNotReversedHolds` and `NothingCompositedOnTopHolds`: a layer put
on a plane has nothing above it that is not allocated yet, so every later layer
that intersects it belongs below. The converted zpos values therefore do not
matter: that argument does not use `last_layer_zpos`.

*FindsBest_proofs.* `FindsBestAllocationHolds`: the search implements
`BestAllocation`. One half is that what it records is better by the abstract
specification's reckoning: `FindInv` says that score, `composited` and
`last_layer_zpos` of each activation are what `StepBefore` computes from the
allocation before it (a maximum, whose existence `HasMax` proves by well-founded
induction in *Numbers_proofs*), and that each layer on the path was accepted. The other half is that
nothing better is missed. `NothingMissed` says that any allocation better than the
best so far is still `Pending`: it agrees with the path up to some activation, and
goes on there with a choice that activation has not reached. Each action either
leaves it pending or shows that it is not better: a layer passed over is one that the
allocation could not have there (`PassOver`), a branch given up is one whose score is
bounded by the number of planes left (`ScoreBound`). When the last activation returns,
nothing is pending. The instance has its own copies of the constraints; the lemmas
`Same...` show they are the same operators.

From that refinement, the recorded result always scores what its
allocation counts, is justified and valid (`ResultInv`).
`CompositionAllOrNothingHolds`: a bijection between planes and the layers on them
turns the score into a number of layers, which is the number of layers to display
just when all of them have a plane. `ResultUsableHolds`: nothing better is left when the
search ends (`NothingBetter`), whereas an empty result would be worse than the composition
layer alone, or than nothing at all if nothing else is displayed (`FallBackFound`). With
`BestMapsLayersOnceHolds` this is what `Liftoff` assumes of `SearchResults`.
`StackingDefinedHolds`: if all layers overlap, each
plane's layer is in order with the last plane before it that has one, and thereby with
all before (`InOrderWithLast`); a least counterexample would contradict that.

*PlaneList_proofs.* `Inv` is inductive: `Wired` (types, `ListIntact`, both links of every
node) with the order of the planes so far, the place of the loop (`cur` is in the list,
and all planes before it are in order with the new one) and what was
asked for. `InsertKeepsList` and `RemoveKeepsList` say what the assignments of
`list.c` do to a list that is intact, `InsertKeepsOrder` and `RemoveKeepsOrder` what
they do to one that is sorted. `PlaneListTypeCorrect`, `ListIntactHolds`,
`PlanesSortedHolds` and `SuccessRegistersAllHolds` follow; `ListImplementsPlaneOrder`
maps every step of the list to `Register`, `Unregister` or a stutter of `PlaneOrder`.

*Liftoff_proofs.*
`LinksInv` is `LinksConsistent` with types, and is inductive. `ClearedLinks` and
`MappedLinks` say what unsetting the mapping of an output, and mapping a result
of the search, do to links; both rest on the consistency of the links before.
`LinksConsistentHolds` follows with one step per API call, and
`OtherOutputsUntouchedHolds` from the same lemmas. `PriorityInv` strengthens
`PriorityBounded` with the types and with the fact that a layer that does not exist has no
priority; it needs `LinksInv`, because an update of priorities goes over the
layers of existing outputs, and these have to be all layers.

`MappedLayersDisplayableHolds`, if no apply fails. The
invariant: a layer on a plane has either changed, or its previous values are those of
a layer that could be displayed (`Tracked`, `AsAllocated`). Without previous values in
the invariant, nothing could be said of a change that `layer_needs_realloc` lets pass.

*Reuse_proofs.* `AllocationCurrentHolds`, if no apply fails. `Old(layer)` is the
layer with its previous values; the invariant `Current` says of each output that its
layers have changed, or that what the last search looked at is what a search of the old
layers would look at (`OldInput`). The lemma `OldSameView` does the rest: a layer that
needs no reallocation is, to a search, the same as the old one.
`NoAssertionFailsHolds`, for one output and if no apply fails, is about the assertion of
`apply_current` (`alloc.c:486`) and no other: a plane supports its
layer as it was (`PlanesFit`), and what changes without a reallocation asks nothing new
of a plane (`StillSupports`). With two outputs it does not hold (`two_outputs`).

`NothingLostHolds` and `EveryApplySearchesHolds` are about any number of outputs that
share no primary plane (`PrimaryPlanesApart`), on a device whose planes are set up and
stay. Their invariant is `LossInv`: of each output,
something asks for a new allocation, or, as the layers were when they were marked clean,
its planes could show what they have (`PlacedAsFound`) and, if the composition layer
fits a primary plane (`Fits`), nothing visible lacks both a plane and a displayed
composition layer (`Shown`). `NothingLost` alone is not inductive: it is silent about an output that
has not been applied successfully in the last call, and about the values that the
comparison of a later apply starts from. `ReuseFound` carries all of it from the old
layers to the present ones, which needs the converse of `StillSupports`, too
(`SupportedBefore`): a composition layer that fits now, without a change that asks for a
reallocation, did so before. `PrimaryPlanesApart` is needed because a
primary plane that another output gives up makes composition possible where a reuse does
not look for it. It is a condition on the device: nothing in the library keeps a primary
plane from being usable on several outputs (`possible_crtcs`, `plane.c:68`).
From `LossInv`, each step of `Liftoff` is one of `AlwaysSearch` or a stutter:
`ReuseApplies` shows that the planes an output has are a result that a search for the
present layers could have; `SearchApplies`, that a search is one; `CallsChange`, that
other calls leave the mapping alone but for layers that go. The abstract specification ends the
program only on account of another output's layer, so for one output the refinement
contains `NoAssertionFailsHolds` again.

*ApplyRequest_proofs.* The invariant of `TypeOKHolds` adds to the types the
shape of an apply (`Shape`): which activations of the search are live at which `pc`, and
how far the loop over planes and properties has come. On top of it, `CursorInv` says that the cursors of
`apply_current`, of the live activations and of `plane_apply` are nested and lie between the
client's entries and the end of the request; it gives `ClientEntriesKeptHolds`, since each
rollback truncates to one of these. `RequestIsWhatIsMeantHolds` needs an invariant of
its own (`Meaning`), because the property speaks only of the moments at which the request is
complete: the request, up to the cursor of activation *d*, configures the planes before *d* as the path
has them (`PathsShown`); within a loop over planes, all planes passed are as they should be
(`LoopAt`); within `plane_apply`, what is appended so far are properties the plane has
(`Appended`), so that with the last property the plane is complete, and a rejected layer's
properties are gone with the truncation. `FinalConfigurationTestedHolds` adds
`Tests`: the configurations of the path, as far as it was tested, and of the best
allocation are among the accepted ones, which survives the return of activations because
paths are only extended by what a test accepted. The last `apply_current` then builds a
configuration that agrees with an accepted one but on planes with pending
changes of other outputs. All four hold for any planes, layers, properties and values,
however often an apply fails and is repeated.

*Geometry_proofs.* `IntersectsIffSharePixel`: the top left corner of the
intersection is the shared pixel. The lemmas give the range of the conversion
to `int`.

**Only model-checked.** `Termination`, `CallsReturn` and `ApplyReturns`, which are liveness
under fairness and out of the prover's reach. Every invariant, action property and refinement of the
passing runs is proved. Not proved and not planned: that a recursive computation over lists
returns what a loop does, for which the provers at hand have no induction.

## Not modelled

Logging; examples and tests as programs, which are clients of the library; memory
that is leaked on error paths (`alloc.c:719`, `739-741`, `plane.c:60-100`), which no
state of these models can show; overflow of the sums in `layer_intersects`, which
the documentation's use of coordinates within a CRTC rules out; the lookup of the
CRTC in `liftoff_output_create`, and `DRM_MODE_PAGE_FLIP_EVENT` in test commits; the
length and emptiness of lists, which only logging and assertions of lists read. A
property that a layer does not set keeps the value another layer gave the plane:
`ApplyRequest` has that, and no property judges it. `BestAllocation`, `PlaneOrder`,
`AlwaysSearch` and the definitions of `SharePixel` and `Covers` are references and translate no code.

## Plan

1. `AlwaysSearch` with failures: an abstract apply that may fail and leave its output
   without a mapping, and promises less about the applies after it.
2. `SearchResults` of `Liftoff` as a theorem about the final states of `ChooseLayers`,
   in place of `ResultUsable` and `BestMapsLayersOnce` side by side.
