-------------------------- MODULE ApplyRequest_proofs --------------------------
(***************************************************************************)
(* The proofs that the request of an apply asks for what apply means: for  *)
(* any planes and layers, any properties and values, and wherever memory   *)
(* runs out or the kernel rejects or fails a test.                         *)
(***************************************************************************)
EXTENDS ApplyRequest, Numbers_proofs

-----------------------------------------------------------------------------
(* Configurations, as operators on what a call of apply does not change    *)

Here == [value |-> value, held |-> held, hw |-> hw]

Situation ==
    [value : LayersValues, held : Holdings, hw : [Planes -> [PlaneProps -> Nat]]]

\* The properties of plane p that a commit of r would give it.
Conf(s, r, p) ==
    [name \in PlaneProps |->
        LET entries == {i \in DOMAIN r : r[i].plane = p /\ r[i].name = name}
        IN  IF entries = {} THEN s.hw[p][name] ELSE r[Max(entries)].value]

CrtcFor(s, l) == IF l \in Layers \ Range(s.held) THEN CRTC ELSE OTHER_CRTC

\* What plane_apply wants of a property, for a layer or to disable the plane.
Wanted(s, l, name) ==
    CASE l = NULL -> 0
      [] l # NULL /\ name = "CRTC_ID" -> CrtcFor(s, l)
      [] l # NULL /\ name # "CRTC_ID" -> s.value[l][name]

Jobs(s, l) ==
    IF l = NULL
    THEN << <<"FB_ID", 0>>, <<"CRTC_ID", 0>> >>
    ELSE << <<"CRTC_ID", CrtcFor(s, l)>> >> \o
         [i \in DOMAIN LayerProps[l] |->
             <<LayerProps[l][i], s.value[l][LayerProps[l][i]]>>]

\* What plane p has when it shows layer l, or is off.
Showing(s, p, l) ==
    [name \in PlaneProps |->
        CASE name = "CRTC_ID" -> IF l = NULL THEN 0 ELSE CrtcFor(s, l)
          [] name = "FB_ID"   -> IF l = NULL THEN 0 ELSE s.value[l]["FB_ID"]
          [] name \notin {"CRTC_ID", "FB_ID"} ->
                IF l # NULL /\ name \in Has[p] \ {"zpos"} /\ s.value[l][name] # NoProp
                THEN s.value[l][name] ELSE s.hw[p][name]]

\* The same, unless the plane is another output's.
ShowingOwn(s, p, l) == IF s.held[p] # NULL THEN s.hw[p] ELSE Showing(s, p, l)

\* The properties that plane_apply has appended, before the i-th.
Appended(s, p, l, i) ==
    {Jobs(s, l)[j][1] : j \in {k \in 1 .. Len(Jobs(s, l)) :
                                 /\ k < i
                                 /\ ~NeedlessOn(p, Jobs(s, l)[k][1], Jobs(s, l)[k][2])}}

\* What that makes of a plane that had `base`.
Progress(s, p, l, i, base) ==
    [name \in PlaneProps |->
        IF name \in Appended(s, p, l, i) THEN Wanted(s, l, name) ELSE base[name]]

-----------------------------------------------------------------------------
(* The invariants                                                          *)

Running == pc \in {"search", "try", "test"}

\* Where the loops are.
Shape ==
    /\ Applying => plane \in Planes /\ prop >= 1
    /\ Running =>
          /\ Len(frame) >= 1
          /\ \A d \in 1 .. Len(frame) - 1 : frame[d].next <= NumLayers + 1
    /\ pc \in {"try", "test"} =>
          /\ Len(frame) <= NumPlanes
          /\ frame[Len(frame)].next \in Layers
          /\ held[Len(frame)] = NULL
    /\ pc = "try" => plane = Len(frame)

TypeInv == TypeOK /\ Shape

\* The cursors are where a part of the request ends that is still wanted.
Cursors ==
    /\ pc \in {"reuse", "reuse_test"} => outer = Len(client)
    /\ pc = "final" => outer >= Len(client) /\ outer <= Len(req)
    /\ Running =>
          /\ \A d \in 1 .. Len(frame) :
                Len(client) <= frame[d].cursor /\ frame[d].cursor <= Len(req)
          /\ \A c, d \in 1 .. Len(frame) : c <= d => frame[c].cursor <= frame[d].cursor
    /\ pc = "search" => frame[Len(frame)].cursor = Len(req)
    /\ pc = "try" => cursor = frame[Len(frame)].cursor

CursorInv == Cursors /\ ClientEntriesKept

\* The client's own entries are about no plane.
ClientElsewhere == \A i \in 1 .. Len(client) : client[i].plane = NULL

\* A loop over planes is at plane n, at the i-th property for layer l: the planes
\* before it are done, those after it are as they were.
LoopAt(s, r, n, l, i, done, before) ==
    \A p \in Planes :
        Conf(s, r, p) =
            IF p < n THEN done[p]
            ELSE IF p = n THEN Progress(s, p, l, i, before[p])
            ELSE before[p]

\* What the planes have with the layers m, and what they have if those of other
\* outputs are left alone.
Mapped(s, m) == [p \in Planes |-> Showing(s, p, m[p])]
Own(s, m) == [p \in Planes |-> ShowingOwn(s, p, m[p])]

\* The layers that the activations f have put on planes before the d-th.
PathLayers(f, d) == [p \in Planes |-> IF p < d THEN f[p].layer ELSE NULL]

Looping(done, before) == LoopAt(Here, req, plane, Target, prop, done, before)

\* The cursor of each activation is where the layers above it are shown.
PathsShown(s, r, f) ==
    \A d \in 1 .. Len(f), p \in Planes :
        Conf(s, SubSeq(r, 1, f[d].cursor), p) = Own(s, PathLayers(f, d))[p]

Meaning ==
    /\ ClientElsewhere
    /\ Applying => Appended(Here, plane, Target, prop) \subseteq Has[plane]
    /\ Spared => prop = 1
    /\ pc = "reuse" => Looping(Mapped(Here, mapping), hw)
    /\ pc = "disable" => Looping(Own(Here, NoMapping), hw)
    /\ pc = "final" => Looping(Mapped(Here, mapping), Own(Here, NoMapping))
    /\ pc = "try" =>
          Looping(Own(Here, PathLayers(frame, Len(frame))), Own(Here, NoMapping))
    /\ Running => PathsShown(Here, req, frame)
    /\ pc = "test" => \A p \in Planes :
          Conf(Here, req, p) =
             Own(Here, [PathLayers(frame, Len(frame)) EXCEPT ![Len(frame)] = Top.next])[p]
    /\ pc \in {"reuse_test", "ok"} => \A p \in Planes :
          Conf(Here, req, p) = Mapped(Here, mapping)[p]

\* Nothing is mapped, or the kernel has accepted just that.
Accepted(m) == m = NoMapping \/ Own(Here, m) \in accepted

Tests ==
    /\ Running => \A d \in 1 .. Len(frame) : Accepted(PathLayers(frame, d))
    /\ pc # "client" => Accepted(best)
    /\ pc = "final" => mapping = [p \in Planes |-> IF held[p] # NULL THEN held[p] ELSE best[p]]
    /\ FinalConfigurationTested

-----------------------------------------------------------------------------
(* Parts of sequences                                                      *)

LEMMA PrefixType ==
    ASSUME NEW S, NEW r \in Seq(S), NEW n \in Nat, n <= Len(r)
    PROVE  /\ SubSeq(r, 1, n) \in Seq(S)
           /\ Len(SubSeq(r, 1, n)) = n
           /\ \A i \in 1 .. n : SubSeq(r, 1, n)[i] = r[i]
OBVIOUS

LEMMA PrefixOfPrefix ==
    ASSUME NEW S, NEW r \in Seq(S), NEW n \in Nat, n <= Len(r), NEW m \in Nat, m <= n
    PROVE  SubSeq(SubSeq(r, 1, n), 1, m) = SubSeq(r, 1, m)
OBVIOUS

LEMMA PrefixOfAppend ==
    ASSUME NEW S, NEW r \in Seq(S), NEW e \in S, NEW n \in Nat, n <= Len(r)
    PROVE  SubSeq(Append(r, e), 1, n) = SubSeq(r, 1, n)
OBVIOUS

LEMMA FirstBefore ==
    ASSUME NEW S, NEW u \in S, NEW t \in Seq(S)
    PROVE  /\ Len(<<u>> \o t) = Len(t) + 1 /\ (<<u>> \o t)[1] = u
           /\ \A j \in 2 .. Len(t) + 1 : (<<u>> \o t)[j] = t[j - 1]
<1>1. <<u>> \in Seq(S) /\ Len(<<u>>) = 1 /\ <<u>>[1] = u
  OBVIOUS
<1> QED BY <1>1

LEMMA WholePrefix ==
    ASSUME NEW S, NEW r \in Seq(S)
    PROVE  SubSeq(r, 1, Len(r)) = r
OBVIOUS

-----------------------------------------------------------------------------
(* Configurations                                                          *)

LEMMA ConfIs == \A r, p : PlaneConfig(r, p) = Conf(Here, r, p)
BY DEF PlaneConfig, Conf, Here

LEMMA ShowsIs == \A p, l : Shows(p, l) = Showing(Here, p, l)
BY DEF Shows, Showing, Here, CrtcOf, CrtcFor, OwnLayers

LEMMA WorkIs == \A l : Work(l) = Jobs(Here, l)
BY DEF Work, Jobs, Here, CrtcOf, CrtcFor, OwnLayers

LEMMA HereType == TypeOK => Here \in Situation
BY DEF TypeOK, Here, Situation

LEMMA ValueType ==
    ASSUME NEW s \in Situation, NEW l \in Layers, NEW name \in Names
    PROVE  /\ s.value[l][name] \in Nat \union {NoProp}
           /\ name = "FB_ID" => s.value[l][name] \in Nat \ {0}
           /\ name \notin Range(LayerProps[l]) => s.value[l][name] = NoProp
<1>1. s.value[l][name] \in Values[l][name]
  BY DEF Situation, LayersValues
<1> QED BY <1>1, ApplyRequestAssumption

\* The entries of a property that count.
LEMMA LastEntry ==
    ASSUME NEW r \in Seq(Entry), NEW S, S \subseteq 1 .. Len(r), S # {}
    PROVE  /\ Max(S) \in 1 .. Len(r) /\ Max(S) \in S
           /\ \A i \in S : Max(S) >= i
           /\ r[Max(S)].value \in Nat
<1>1. Len(r) \in Nat
  OBVIOUS
<1>2. Max(S) \in S /\ \A i \in S : Max(S) >= i
  BY <1>1, HasMax
<1>3. Max(S) \in 1 .. Len(r)
  BY <1>2
<1>4. \A i \in 1 .. Len(r) : r[i].value \in Nat
  <2>1. \A e \in Entry : e.value \in Nat
    BY DEF Entry
  <2> QED BY <2>1
<1> QED BY <1>2, <1>3, <1>4

LEMMA ConfType ==
    ASSUME NEW s \in Situation, NEW r \in Seq(Entry), NEW p \in Planes
    PROVE  Conf(s, r, p) \in [PlaneProps -> Nat]
<1> SUFFICES ASSUME NEW name \in PlaneProps PROVE Conf(s, r, p)[name] \in Nat
  BY DEF Conf
<1> DEFINE S == {i \in DOMAIN r : r[i].plane = p /\ r[i].name = name}
<1>1. CASE S = {}
  BY <1>1 DEF Conf, Situation
<1>2. CASE S # {}
  <2>1. Conf(s, r, p)[name] = r[Max(S)].value
    BY <1>2 DEF Conf
  <2>2. S \subseteq 1 .. Len(r)
    OBVIOUS
  <2> HIDE DEF S
  <2>3. r[Max(S)].value \in Nat
    BY <1>2, <2>2, LastEntry
  <2> QED BY <2>1, <2>3
<1> QED BY <1>1, <1>2

\* An entry that is appended counts.
LEMMA ConfAppend ==
    ASSUME NEW s \in Situation, NEW r \in Seq(Entry), NEW e \in Entry, NEW p \in Planes,
           NEW name \in PlaneProps
    PROVE  Conf(s, Append(r, e), p)[name] =
              IF e.plane = p /\ e.name = name THEN e.value ELSE Conf(s, r, p)[name]
<1> DEFINE t == Append(r, e)
           S == {i \in DOMAIN r : r[i].plane = p /\ r[i].name = name}
           T == {i \in DOMAIN t : t[i].plane = p /\ t[i].name = name}
<1>1. /\ DOMAIN r = 1 .. Len(r) /\ DOMAIN t = 1 .. Len(r) + 1 /\ Len(r) \in Nat
      /\ \A i \in 1 .. Len(r) : t[i] = r[i]
      /\ t[Len(r) + 1] = e
  OBVIOUS
<1>2. Conf(s, r, p)[name] = IF S = {} THEN s.hw[p][name] ELSE r[Max(S)].value
  BY DEF Conf
<1>3. Conf(s, t, p)[name] = IF T = {} THEN s.hw[p][name] ELSE t[Max(T)].value
  BY DEF Conf
<1>4. CASE e.plane = p /\ e.name = name
  <2>1. Len(r) + 1 \in T /\ \A i \in T : Len(r) + 1 >= i
    BY <1>1, <1>4
  <2>2. Max(T) = Len(r) + 1
    <3>1. \A i \in T : i \in Int
      BY <1>1
    <3> HIDE DEF T
    <3> QED BY <1>1, <2>1, <3>1 DEF Max
  <2> QED BY <1>1, <1>3, <1>4, <2>1, <2>2
<1>5. CASE ~(e.plane = p /\ e.name = name)
  <2>1. T = S
    BY <1>1, <1>5
  <2>2. S \subseteq 1 .. Len(r)
    BY <1>1
  <2>3. S # {} => Max(S) \in 1 .. Len(r)
    <3> HIDE DEF S
    <3> QED BY <2>2, LastEntry
  <2> HIDE DEF S, T
  <2> QED BY <1>1, <1>2, <1>3, <1>5, <2>1, <2>3
<1> QED BY <1>4, <1>5

LEMMA ConfAppendOther ==
    ASSUME NEW s \in Situation, NEW r \in Seq(Entry), NEW e \in Entry, NEW p \in Planes,
           e.plane # p
    PROVE  Conf(s, Append(r, e), p) = Conf(s, r, p)
<1>1. \A name \in PlaneProps : Conf(s, Append(r, e), p)[name] = Conf(s, r, p)[name]
  BY ConfAppend
<1> QED BY <1>1 DEF Conf

\* Entries of no plane leave the planes alone.
LEMMA ConfElsewhere ==
    ASSUME NEW s \in Situation, NEW r \in Seq(Entry), NEW p \in Planes,
           \A i \in 1 .. Len(r) : r[i].plane = NULL
    PROVE  Conf(s, r, p) = s.hw[p]
<1>1. p # NULL
  BY DEF Planes, NULL
<1>2. \A name \in PlaneProps : Conf(s, r, p)[name] = s.hw[p][name]
  BY <1>1 DEF Conf
<1>3. s.hw[p] \in [PlaneProps -> Nat]
  BY DEF Situation
<1> QED BY <1>2, <1>3 DEF Conf

-----------------------------------------------------------------------------
(* Activations of the search                                               *)

\* The last one goes on with its next layer.
Advanced(f) == [f EXCEPT ![Len(f)].next = @ + 1]

\* The last one puts layer l on its plane and calls another, at cursor c.
Called(f, l, c) ==
    Append([f EXCEPT ![Len(f)].layer = l], [layer |-> NULL, next |-> 1, cursor |-> c])

\* The last one returns to one that goes on.
Returned(f) == [SubSeq(f, 1, Len(f) - 1) EXCEPT ![Len(f) - 1].next = @ + 1]

LEMMA AdvancedIs ==
    ASSUME NEW f \in Seq(Frame), Len(f) >= 1, f[Len(f)].next <= NumLayers + 1
    PROVE  /\ Advanced(f) \in Seq(Frame) /\ Len(Advanced(f)) = Len(f)
           /\ \A d \in 1 .. Len(f) :
                 /\ Advanced(f)[d].layer = f[d].layer
                 /\ Advanced(f)[d].cursor = f[d].cursor
                 /\ d # Len(f) => Advanced(f)[d] = f[d]
           /\ Advanced(f)[Len(f)].next = f[Len(f)].next + 1
<1> DEFINE n == Len(f)
           e == [f[n] EXCEPT !.next = @ + 1]
<1>1. n \in Nat /\ n \in 1 .. n /\ f[n] \in Frame
  OBVIOUS
<1>2. e \in Frame /\ e.layer = f[n].layer /\ e.cursor = f[n].cursor
      /\ e.next = f[n].next + 1
  <2>1. f[n].next + 1 \in 1 .. NumLayers + 2
    <3>1. NumLayers \in Nat
      BY ApplyRequestAssumption
    <3>2. f[n].next \in Nat /\ f[n].next >= 1
      BY <1>1 DEF Frame
    <3> QED BY <3>1, <3>2
  <2> QED BY <1>1, <2>1 DEF Frame
<1>3. Advanced(f) = [f EXCEPT ![n] = e]
  BY DEF Advanced
<1> HIDE DEF e
<1> QED BY <1>1, <1>2, <1>3

\* g is the stack f with l on the plane of its last activation and a further one
\* whose cursor is c.
Pushed(f, l, c, g) ==
    /\ g \in Seq(Frame) /\ Len(g) = Len(f) + 1
    /\ \A d \in 1 .. Len(f) :
          /\ g[d].next = f[d].next
          /\ g[d].cursor = f[d].cursor
          /\ d # Len(f) => g[d] = f[d]
    /\ g[Len(f)].layer = l
    /\ g[Len(f) + 1].cursor = c

LEMMA CalledIs ==
    ASSUME NEW f \in Seq(Frame), Len(f) >= 1, NEW l, l \in Layers \union {NULL}, NEW c \in Nat
    PROVE  Pushed(f, l, c, Called(f, l, c))
<1> DEFINE n == Len(f)
           e == [f[n] EXCEPT !.layer = l]
           b == [layer |-> NULL, next |-> 1, cursor |-> c]
           g == [f EXCEPT ![n] = e]
<1>1. n \in Nat /\ n \in 1 .. n /\ f[n] \in Frame
  OBVIOUS
<1>2. e \in Frame /\ e.layer = l /\ e.cursor = f[n].cursor /\ e.next = f[n].next
  BY <1>1 DEF Frame
<1>3. b \in Frame
  BY ApplyRequestAssumption DEF Frame
<1>4. Called(f, l, c) = Append(g, b)
  BY DEF Called
<1> HIDE DEF e, b
<1>5. /\ g \in Seq(Frame) /\ Len(g) = n /\ g[n] = e
      /\ \A d \in 1 .. n : d # n => g[d] = f[d]
  BY <1>1, <1>2
<1> HIDE DEF g
<1>6. /\ Append(g, b) \in Seq(Frame) /\ Len(Append(g, b)) = n + 1
      /\ \A d \in 1 .. n : Append(g, b)[d] = g[d]
      /\ Append(g, b)[n + 1] = b
  BY <1>3, <1>5
<1>7. \A d \in 1 .. n : g[d].next = f[d].next /\ g[d].cursor = f[d].cursor
  BY <1>2, <1>5
<1>8. b.cursor = c
  BY DEF b
<1> DEFINE r == Append(g, b)
<1> HIDE DEF r
<1>9. Pushed(f, l, c, r)
  BY <1>1, <1>2, <1>5, <1>6, <1>7, <1>8 DEF Pushed, r
<1> QED BY <1>4, <1>9 DEF r

LEMMA ReturnedIs ==
    ASSUME NEW f \in Seq(Frame), Len(f) > 1, f[Len(f) - 1].next <= NumLayers + 1
    PROVE  /\ Returned(f) \in Seq(Frame) /\ Len(Returned(f)) = Len(f) - 1
           /\ \A d \in 1 .. Len(f) - 1 :
                 /\ Returned(f)[d].layer = f[d].layer
                 /\ Returned(f)[d].cursor = f[d].cursor
                 /\ d # Len(f) - 1 => Returned(f)[d] = f[d]
           /\ Returned(f)[Len(f) - 1].next = f[Len(f) - 1].next + 1
<1> DEFINE n == Len(f) - 1
           g == SubSeq(f, 1, n)
<1>1. n \in Nat /\ n <= Len(f) /\ n >= 1
  OBVIOUS
<1>2. g \in Seq(Frame) /\ Len(g) = n /\ \A d \in 1 .. n : g[d] = f[d]
  BY <1>1, PrefixType
<1>3. Returned(f) = Advanced(g)
  BY <1>1, <1>2 DEF Returned, Advanced
<1>4. g[Len(g)].next <= NumLayers + 1
  BY <1>1, <1>2
<1> HIDE DEF g
<1>5. /\ Advanced(g) \in Seq(Frame) /\ Len(Advanced(g)) = n
      /\ \A d \in 1 .. n :
            /\ Advanced(g)[d].layer = g[d].layer
            /\ Advanced(g)[d].cursor = g[d].cursor
            /\ d # n => Advanced(g)[d] = g[d]
      /\ Advanced(g)[n].next = g[n].next + 1
  BY <1>1, <1>2, <1>4, AdvancedIs
<1>6. /\ g[n].next = f[n].next
      /\ \A d \in 1 .. n : g[d] = f[d]
  BY <1>1, <1>2
<1> DEFINE r == Advanced(g)
<1> HIDE DEF r
<1>7. /\ r \in Seq(Frame) /\ Len(r) = n /\ r[n].next = f[n].next + 1
      /\ \A d \in 1 .. n :
            /\ r[d].layer = f[d].layer
            /\ r[d].cursor = f[d].cursor
            /\ d # n => r[d] = f[d]
  BY <1>5, <1>6 DEF r
<1>8. Returned(f) = r
  BY <1>3 DEF r
<1> QED BY <1>7, <1>8

-----------------------------------------------------------------------------
(* The loops and their types                                               *)

\* The values a plane may be given.
LEMMA JobsType ==
    ASSUME NEW s \in Situation, NEW l \in Layers \union {NULL}
    PROVE  /\ Len(Jobs(s, l)) \in Nat
           /\ \A j \in 1 .. Len(Jobs(s, l)) :
                 /\ Jobs(s, l)[j] = <<Jobs(s, l)[j][1], Wanted(s, l, Jobs(s, l)[j][1])>>
                 /\ Jobs(s, l)[j][1] \in PlaneProps
           /\ {Jobs(s, l)[j][1] : j \in 1 .. Len(Jobs(s, l))}
                 = IF l = NULL THEN {"FB_ID", "CRTC_ID"}
                   ELSE {"CRTC_ID"} \union Range(LayerProps[l])
<1>1. CASE l = NULL
  <2>1. Jobs(s, l) = << <<"FB_ID", 0>>, <<"CRTC_ID", 0>> >>
    BY <1>1 DEF Jobs
  <2>2. Len(Jobs(s, l)) = 2 /\ Jobs(s, l)[1] = <<"FB_ID", 0>> /\ Jobs(s, l)[2] = <<"CRTC_ID", 0>>
    BY <2>1
  <2>3. \A j \in 1 .. 2 : j = 1 \/ j = 2
    OBVIOUS
  <2> QED BY <1>1, <2>2, <2>3, ApplyRequestAssumption DEF Wanted, PlaneProps
<1>2. CASE l # NULL
  <2> DEFINE L == LayerProps[l]
             T == [i \in DOMAIN L |-> <<L[i], s.value[l][L[i]]>>]
  <2>1. L \in Seq(Names) /\ Len(L) \in Nat /\ DOMAIN L = 1 .. Len(L) /\ l \in Layers
    BY <1>2, ApplyRequestAssumption
  <2>2. /\ Len(Jobs(s, l)) = Len(L) + 1
        /\ Jobs(s, l)[1] = <<"CRTC_ID", CrtcFor(s, l)>>
        /\ \A j \in 2 .. Len(L) + 1 : Jobs(s, l)[j] = <<L[j - 1], s.value[l][L[j - 1]]>>
    <3> DEFINE u == <<"CRTC_ID", CrtcFor(s, l)>>
               S == {u} \union {T[i] : i \in 1 .. Len(L)}
    <3>1. Jobs(s, l) = <<u>> \o T
      BY <1>2 DEF Jobs
    <3>2. T \in Seq(S) /\ Len(T) = Len(L)
          /\ \A i \in 1 .. Len(L) : T[i] = <<L[i], s.value[l][L[i]]>>
      <4>1. DOMAIN T = 1 .. Len(L) /\ \A i \in 1 .. Len(L) : T[i] = <<L[i], s.value[l][L[i]]>>
        BY <2>1
      <4>2. T \in [1 .. Len(L) -> S]
        <5>1. T = [i \in 1 .. Len(L) |-> T[i]]
          BY <2>1
        <5>2. \A i \in 1 .. Len(L) : T[i] \in S
          OBVIOUS
        <5> HIDE DEF T, S
        <5> QED BY <5>1, <5>2
      <4> HIDE DEF T, S
      <4> QED BY <2>1, <4>1, <4>2
    <3>3. u \in S
      OBVIOUS
    <3> HIDE DEF T, u, S
    <3>4. Len(<<u>> \o T) = Len(T) + 1 /\ (<<u>> \o T)[1] = u
          /\ \A j \in 2 .. Len(T) + 1 : (<<u>> \o T)[j] = T[j - 1]
      BY <3>2, <3>3, FirstBefore
    <3>5. \A j \in 2 .. Len(L) + 1 : j - 1 \in 1 .. Len(L)
      BY <2>1
    <3> QED BY <3>1, <3>2, <3>4, <3>5 DEF u
  <2>3. \A i \in 1 .. Len(L) : L[i] \in Names /\ L[i] # "CRTC_ID"
    BY <2>1, ApplyRequestAssumption
  <2>4. \A j \in 1 .. Len(L) + 1 : j = 1 \/ (j \in 2 .. Len(L) + 1 /\ j - 1 \in 1 .. Len(L))
    BY <2>1
  <2>5. \A j \in 1 .. Len(L) + 1 :
           Jobs(s, l)[j] = <<Jobs(s, l)[j][1], Wanted(s, l, Jobs(s, l)[j][1])>>
           /\ Jobs(s, l)[j][1] \in PlaneProps
    BY <1>2, <2>2, <2>3, <2>4 DEF Wanted, PlaneProps
  <2>6. {Jobs(s, l)[j][1] : j \in 1 .. Len(L) + 1} = {"CRTC_ID"} \union Range(L)
    <3>1. Range(L) = {L[i] : i \in 1 .. Len(L)}
      BY <2>1 DEF Range
    <3>2. Jobs(s, l)[1][1] = "CRTC_ID" /\ 1 \in 1 .. Len(L) + 1
      BY <2>1, <2>2
    <3>3. \A i \in 1 .. Len(L) : i + 1 \in 1 .. Len(L) + 1 /\ Jobs(s, l)[i + 1][1] = L[i]
      <4> TAKE i \in 1 .. Len(L)
      <4>1. i + 1 \in 2 .. Len(L) + 1 /\ (i + 1) - 1 = i
        BY <2>1
      <4> QED BY <2>1, <2>2, <4>1
    <3>4. \A j \in 1 .. Len(L) + 1 : j = 1 \/ \E i \in 1 .. Len(L) : j = i + 1
      BY <2>4
    <3> DEFINE A == {Jobs(s, l)[j][1] : j \in 1 .. Len(L) + 1}
    <3>5. "CRTC_ID" \in A
      BY <3>2
    <3>6. ASSUME NEW i \in 1 .. Len(L) PROVE L[i] \in A
      BY <3>3
    <3>7. ASSUME NEW j \in 1 .. Len(L) + 1
          PROVE  Jobs(s, l)[j][1] \in {"CRTC_ID"} \union {L[i] : i \in 1 .. Len(L)}
      BY <3>2, <3>3, <3>4
    <3> QED BY <3>1, <3>5, <3>6, <3>7
  <2> QED BY <1>2, <2>1, <2>2, <2>5, <2>6
<1> QED BY <1>1, <1>2

LEMMA WantedType ==
    ASSUME NEW s \in Situation, NEW l \in Layers \union {NULL}, NEW name \in PlaneProps
    PROVE  Wanted(s, l, name) \in Nat \union {NoProp}
<1>1. CrtcFor(s, l) \in Nat
  BY DEF CrtcFor, CRTC, OTHER_CRTC
<1>2. l # NULL /\ name # "CRTC_ID" => s.value[l][name] \in Nat \union {NoProp}
  BY ValueType DEF PlaneProps
<1> QED BY <1>1, <1>2 DEF Wanted

LEMMA TargetType ==
    ASSUME TypeInv, Applying
    PROVE  Target \in Layers \union {NULL} /\ plane \in Planes /\ prop \in Nat /\ prop >= 1
<1>1. mapping \in Mapping /\ plane \in Planes /\ prop \in Nat /\ prop >= 1
  BY DEF TypeInv, TypeOK, Shape
<1>2. pc = "try" => Top.next \in Layers
  BY DEF TypeInv, Shape, Top
<1>3. pc \in {"reuse", "final"} => mapping[plane] \in Layers \union {NULL}
  BY <1>1 DEF Mapping
<1> QED BY <1>1, <1>2, <1>3 DEF Target, Applying

\* What plane_apply appends is an entry of the plane.
LEMMA AppendedEntry ==
    ASSUME TypeInv, Applying, Todo, ~Needless
    PROVE  [plane |-> plane, name |-> Name, value |-> Value] \in Entry
<1>1. Here \in Situation
  BY HereType DEF TypeInv
<1>2. Target \in Layers \union {NULL} /\ plane \in Planes /\ prop \in Nat /\ prop >= 1
  BY TargetType
<1> DEFINE J == Jobs(Here, Target)
<1>3. Work(Target) = J
  BY WorkIs
<1>4. prop \in 1 .. Len(J) /\ Name = J[prop][1] /\ Value = J[prop][2]
  BY <1>2, <1>3 DEF Todo, Name, Value
<1>5. Name \in PlaneProps /\ Value = Wanted(Here, Target, Name)
  BY <1>1, <1>2, <1>4, JobsType
<1>6. Value \in Nat
  BY <1>1, <1>2, <1>5, WantedType DEF Needless, NeedlessOn
<1> QED BY <1>2, <1>5, <1>6 DEF Entry

LEMMA TypeInit == Init => TypeInv
<1> SUFFICES ASSUME Init PROVE TypeInv
  OBVIOUS
<1>1. held \in Holdings /\ value \in LayersValues /\ held \in Mapping
  BY ApplyRequestAssumption DEF Init
<1>2. hw \in [Planes -> [PlaneProps -> Nat]]
  <2>1. ASSUME NEW p \in Planes, NEW name \in PlaneProps, held[p] # NULL, name # "CRTC_ID"
        PROVE  value[held[p]][name] \in Nat \union {NoProp}
    <3>1. held[p] \in Layers /\ name \in Names
      BY <1>1, <2>1 DEF Mapping, PlaneProps
    <3>2. value[held[p]][name] \in Values[held[p]][name]
      BY <1>1, <3>1 DEF LayersValues
    <3> QED BY <3>1, <3>2, ApplyRequestAssumption
  <2>2. ASSUME NEW p \in Planes, NEW name \in PlaneProps
        PROVE  FirstShows(p, held[p])[name] \in Nat
    <3>1. CrtcOf(held[p]) \in Nat
      BY DEF CrtcOf, CRTC, OTHER_CRTC
    <3> QED BY <2>1, <3>1 DEF FirstShows
  <2>3. \A p \in Planes : FirstShows(p, held[p]) \in [PlaneProps -> Nat]
    BY <2>2 DEF FirstShows
  <2> QED BY <2>3 DEF Init
<1>3. mapping \in Mapping /\ best \in Mapping /\ NoMapping \in Mapping
  BY <1>1 DEF Init, NoMapping, Mapping
<1>4. plane \in 1 .. NumPlanes + 1
  BY ApplyRequestAssumption DEF Init
<1>5. frame \in Seq(Frame) /\ Len(frame) <= NumPlanes + 1
  BY ApplyRequestAssumption DEF Init
<1> QED BY <1>1, <1>2, <1>3, <1>4, <1>5 DEF Init, TypeInv, TypeOK, Shape, Applying, Running

\* The search goes on in the last activation.
LEMMA NextLayerType ==
    ASSUME TypeInv, Running, Top.next <= NumLayers + 1, NEW r \in Seq(Entry), NextLayer(r),
           UNCHANGED <<value, held, hw, mapping, client, accepted, plane, prop, cursor,
                       outer, best>>
    PROVE  TypeInv'
<1>1. Len(frame) >= 1 /\ frame \in Seq(Frame) /\ Len(frame) \in Nat
  BY DEF TypeInv, TypeOK, Shape
<1>2. frame' = Advanced(frame) /\ req' = r /\ pc' = "search"
  BY DEF NextLayer, Depth, Advanced
<1>3. /\ frame' \in Seq(Frame) /\ Len(frame') = Len(frame)
      /\ \A d \in 1 .. Len(frame) : d # Len(frame) => frame'[d] = frame[d]
  BY <1>1, <1>2, AdvancedIs DEF Top, Depth
<1>4. TypeOK'
  BY <1>2, <1>3 DEF TypeInv, TypeOK
<1>5. \A d \in 1 .. Len(frame) - 1 : frame'[d].next <= NumLayers + 1
  BY <1>1, <1>3 DEF TypeInv, Shape
<1> QED BY <1>1, <1>2, <1>3, <1>4, <1>5 DEF TypeInv, Shape, Applying, Running

\* The last activation calls another.
LEMMA CallType ==
    ASSUME TypeInv, pc \in {"search", "test"}, Depth <= NumPlanes, Top.next <= NumLayers + 1,
           NEW l \in Layers \union {NULL}, Call(l), pc' = "search",
           accepted' \subseteq [Planes -> [PlaneProps -> Nat]],
           UNCHANGED <<value, held, hw, mapping, req, client, plane, prop, cursor, outer, best>>
    PROVE  TypeInv'
<1>1. Len(frame) >= 1 /\ frame \in Seq(Frame) /\ Len(frame) \in Nat /\ Len(req) \in Nat
  BY DEF TypeInv, TypeOK, Shape, Running
<1>2. frame' = Called(frame, l, Len(req))
  BY DEF Call, Depth, Called
<1>3. /\ frame' \in Seq(Frame) /\ Len(frame') = Len(frame) + 1
      /\ \A d \in 1 .. Len(frame) : frame'[d].next = frame[d].next
  <2>1. Pushed(frame, l, Len(req), frame')
    BY <1>1, <1>2, CalledIs
  <2> QED BY <2>1 DEF Pushed
<1>4. NumPlanes \in Nat
  BY ApplyRequestAssumption
<1>5. TypeOK'
  BY <1>1, <1>3, <1>4 DEF TypeInv, TypeOK, Depth
<1>6. \A d \in 1 .. Len(frame) : frame'[d].next <= NumLayers + 1
  <2> TAKE d \in 1 .. Len(frame)
  <2>1. d = Len(frame) \/ d \in 1 .. Len(frame) - 1
    BY <1>1
  <2> QED BY <1>3, <2>1 DEF TypeInv, Shape, Running, Top, Depth
<1> QED BY <1>1, <1>3, <1>5, <1>6 DEF TypeInv, Shape, Applying, Running

\* The last activation returns.
LEMMA ReturnType ==
    ASSUME TypeInv, CursorInv, pc = "search", Return, best' \in Mapping,
           UNCHANGED <<value, held, hw, client, accepted>>
    PROVE  TypeInv'
<1>1. Len(frame) >= 1 /\ frame \in Seq(Frame) /\ Len(frame) \in Nat /\ Len(req) \in Nat
  BY DEF TypeInv, TypeOK, Shape, Running
<1>2. CASE Depth > 1
  <2>1. frame' = Returned(frame) /\ req' = SubSeq(req, 1, frame[Len(frame) - 1].cursor)
        /\ UNCHANGED <<mapping, pc, plane, prop, cursor, outer>>
    BY <1>2 DEF Return, Depth, Returned, SetCursor
  <2>2. Len(frame) > 1 /\ Len(frame) - 1 \in 1 .. Len(frame) - 1 /\ Len(frame) - 1 \in 1 .. Len(frame)
    BY <1>1, <1>2 DEF Depth
  <2>3. frame[Len(frame) - 1].next <= NumLayers + 1
    BY <2>2 DEF TypeInv, Shape, Running
  <2>4. /\ frame' \in Seq(Frame) /\ Len(frame') = Len(frame) - 1
        /\ \A d \in 1 .. Len(frame) - 1 : d # Len(frame) - 1 => frame'[d] = frame[d]
    BY <1>1, <2>1, <2>2, <2>3, ReturnedIs
  <2>5. req' \in Seq(Entry)
    <3>1. frame[Len(frame) - 1] \in Frame
      BY <1>1, <2>2
    <3>2. frame[Len(frame) - 1].cursor \in Nat /\ frame[Len(frame) - 1].cursor <= Len(req)
      BY <2>2, <3>1 DEF Frame, CursorInv, Cursors, Running
    <3>3. req \in Seq(Entry)
      BY DEF TypeInv, TypeOK
    <3> QED BY <2>1, <3>2, <3>3, PrefixType
  <2>6. TypeOK'
    BY <1>1, <2>1, <2>4, <2>5, ApplyRequestAssumption DEF TypeInv, TypeOK
  <2>7. \A d \in 1 .. Len(frame') - 1 : frame'[d].next <= NumLayers + 1
    BY <1>1, <2>4 DEF TypeInv, Shape, Running
  <2> QED BY <2>1, <2>2, <2>4, <2>6, <2>7 DEF TypeInv, Shape, Applying, Running
<1>3. CASE ~(Depth > 1)
  <2>1. /\ frame' = << >> /\ pc' = "final" /\ plane' = 1 /\ prop' = 1
        /\ cursor' = Len(req) /\ outer' = Len(req) /\ UNCHANGED req
        /\ mapping' = [p \in Planes |-> IF held[p] # NULL THEN held[p] ELSE best'[p]]
    BY <1>3 DEF Return, CallPlaneApply
  <2>2. mapping' \in Mapping
    BY <2>1, ApplyRequestAssumption DEF TypeInv, TypeOK, Mapping
  <2>3. frame' \in Seq(Frame) /\ Len(frame') = 0
    BY <2>1
  <2>4. NumPlanes \in Nat /\ NumPlanes >= 1
    BY ApplyRequestAssumption
  <2>5. TypeOK'
    BY <1>1, <2>1, <2>2, <2>3, <2>4 DEF TypeInv, TypeOK
  <2> QED BY <2>1, <2>4, <2>5 DEF TypeInv, Shape, Applying, Running, Planes
<1> QED BY <1>2, <1>3

\* Configurations are values for all properties of all planes.
LEMMA ConfigType == TypeInv => Config(req) \in [Planes -> [PlaneProps -> Nat]]
<1> SUFFICES ASSUME TypeInv PROVE Config(req) \in [Planes -> [PlaneProps -> Nat]]
  OBVIOUS
<1>1. Here \in Situation /\ req \in Seq(Entry)
  BY HereType DEF TypeInv, TypeOK
<1>2. \A p \in Planes : PlaneConfig(req, p) \in [PlaneProps -> Nat]
  BY <1>1, ConfIs, ConfType
<1> QED BY <1>2 DEF Config

LEMMA PathType == TypeInv /\ pc = "search" => OnPath(Depth) \in Mapping
<1> SUFFICES ASSUME TypeInv, pc = "search", NEW p \in Planes, p < Depth
             PROVE  frame[p].layer \in Layers \union {NULL}
  BY DEF OnPath, Mapping
<1>1. p \in 1 .. Len(frame) /\ frame \in Seq(Frame)
  BY DEF Planes, Depth, TypeInv, TypeOK
<1>2. frame[p] \in Frame
  BY <1>1
<1> QED BY <1>2 DEF Frame

LEMMA TypeStep == TypeInv /\ CursorInv /\ [Next]_vars => TypeInv'
<1> SUFFICES ASSUME TypeInv, CursorInv, [Next]_vars PROVE TypeInv'
  OBVIOUS
<1> USE DEF TypeInv, TypeOK
<1>p. /\ NumPlanes \in Nat /\ NumPlanes >= 1 /\ Planes = 1 .. NumPlanes
      /\ NumLayers \in Nat /\ Layers = 1 .. NumLayers /\ NULL = 0
  BY ApplyRequestAssumption DEF Planes, Layers, NULL
<1>c. Len(client) \in Nat /\ Len(req) \in Nat /\ Len(client) <= Len(req)
  BY DEF CursorInv, ClientEntriesKept
<1>t. \A c \in Nat : c <= Len(req) =>
         SetCursor(req, c) \in Seq(Entry) /\ Len(SetCursor(req, c)) \in Nat
  BY PrefixType DEF SetCursor
<1>f. /\ Running => \A d \in 1 .. Len(frame) :
            frame[d].cursor \in Nat /\ frame[d].cursor <= Len(req)
      /\ pc = "try" => cursor <= Len(req)
      /\ pc \in {"reuse", "reuse_test", "final"} => outer <= Len(req)
  <2>1. \A d \in 1 .. Len(frame) : frame[d] \in Frame
    OBVIOUS
  <2>2. pc = "try" => Len(frame) \in 1 .. Len(frame)
    BY DEF Shape, Running
  <2> QED BY <1>c, <2>1, <2>2 DEF CursorInv, Cursors, Running, Frame
<1>h. held \in Mapping /\ NoMapping \in Mapping
  BY ApplyRequestAssumption DEF Mapping, NoMapping
<1>1. CASE AppendProp
  <2>1. req' \in Seq(Entry)
    <3>1. CASE Needless
      BY <1>1, <3>1 DEF AppendProp
    <3>2. CASE ~Needless
      <4> DEFINE e == [plane |-> plane, name |-> Name, value |-> Value]
      <4>1. e \in Entry
        BY <1>1, <3>2, AppendedEntry DEF AppendProp
      <4>2. req' = Append(req, e)
        BY <1>1, <3>2 DEF AppendProp
      <4> HIDE DEF e
      <4> QED BY <4>1, <4>2
    <3> QED BY <3>1, <3>2
  <2> QED BY <1>1, <2>1 DEF AppendProp, Shape, Applying, Running, Top
<1>2. CASE ReuseApplied
  BY <1>2, <1>p, <1>c DEF ReuseApplied, LoopOver, CallPlaneApply, Shape, Applying, Running, Top
<1>3. CASE ReuseFails
  BY <1>3, <1>p, <1>h, <1>t, <1>f
     DEF ReuseFails, StartOver, CallPlaneApply, Shape, Applying, Running, Top
<1>4. CASE ReuseRejected
  BY <1>4, <1>p, <1>h, <1>t, <1>f
     DEF ReuseRejected, StartOver, CallPlaneApply, Shape, Applying, Running, Top
<1>5. CASE PlaneDisabled
  <2> DEFINE b == [layer |-> NULL, next |-> 1, cursor |-> Len(req)]
  <2>1. b \in Frame /\ b.next = 1
    BY <1>p, <1>c DEF Frame
  <2>2. <<b>> \in Seq(Frame) /\ Len(<<b>>) = 1 /\ <<b>>[1] = b
    BY <2>1
  <2> HIDE DEF b
  <2>3. frame' = IF plane = NumPlanes THEN <<b>> ELSE frame
    BY <1>5 DEF PlaneDisabled, b
  <2>4. pc' = (IF plane = NumPlanes THEN "search" ELSE "disable") /\ pc = "disable"
    BY <1>5 DEF PlaneDisabled, LoopOver
  <2>5. TypeOK'
    BY <1>5, <1>p, <1>c, <2>2, <2>3, <2>4 DEF PlaneDisabled, LoopOver, CallPlaneApply, Shape, Applying
  <2>6. Shape'
    BY <1>5, <1>p, <1>c, <2>2, <2>3, <2>4
       DEF PlaneDisabled, LoopOver, CallPlaneApply, Shape, Applying, Running, Top
  <2> QED BY <2>5, <2>6
<1>6. CASE DisableFails
  BY <1>6 DEF DisableFails, locals, Shape, Applying, Running
<1>7. CASE FinalApplied
  BY <1>7, <1>p, <1>c DEF FinalApplied, LoopOver, CallPlaneApply, Shape, Applying, Running, Top
<1>8. CASE FinalFails
  BY <1>8, <1>t, <1>f DEF FinalFails, locals, Shape, Applying, Running
<1>9. CASE Finished
  BY <1>9, PathType, ReturnType DEF Finished
<1>10. CASE Leave
  BY <1>10, ReturnType DEF Leave
<1>11. CASE RuleOut
  <2>1. Running /\ Top.next <= NumLayers + 1 /\ req \in Seq(Entry)
    BY <1>11, <1>p DEF RuleOut, Running
  <2>2. NextLayer(req)
        /\ UNCHANGED <<value, held, hw, mapping, client, accepted, plane, prop, cursor, outer, best>>
    BY <1>11 DEF RuleOut
  <2> HIDE DEF TypeInv, TypeOK
  <2> QED BY <2>1, <2>2, NextLayerType
<1>12. CASE Skip
  <2>1. /\ pc \in {"search", "test"} /\ Depth <= NumPlanes /\ Top.next <= NumLayers + 1
        /\ NULL \in Layers \union {NULL} /\ pc' = "search"
        /\ accepted' \subseteq [Planes -> [PlaneProps -> Nat]]
    BY <1>12, <1>p DEF Skip
  <2>2. Call(NULL)
        /\ UNCHANGED <<value, held, hw, mapping, req, client, plane, prop, cursor, outer, best>>
    BY <1>12 DEF Skip
  <2> HIDE DEF TypeInv, TypeOK
  <2> QED BY <2>1, <2>2, CallType
<1>13. CASE TryLayer
  <2>1. /\ Len(frame) <= NumPlanes /\ Len(frame) >= 1 /\ Len(frame) \in Nat
        /\ held[Len(frame)] = NULL /\ frame[Len(frame)].next \in Layers
    BY <1>13, <1>p DEF TryLayer, Depth, OwnLayers, Shape, Running, Top
  <2>2. /\ pc = "search" /\ pc' = "try" /\ plane' = Len(frame) /\ prop' = 1 /\ cursor' = Len(req)
        /\ UNCHANGED <<value, held, hw, mapping, req, client, accepted, outer, frame, best>>
    BY <1>13 DEF TryLayer, CallPlaneApply, Depth
  <2>3. Len(frame) \in 1 .. NumPlanes + 1 /\ Len(frame) \in Planes
    BY <1>p, <2>1
  <2>4. TypeOK'
    BY <1>c, <2>2, <2>3
  <2> QED BY <2>1, <2>2, <2>3, <2>4 DEF Shape, Applying, Running
<1>14. CASE PlaneRejects
  <2>1. Target # NULL
    BY <1>14, <1>p DEF PlaneRejects, Target, Shape, Top
  <2>2. Undone \in Seq(Entry)
    BY <1>14, <1>t, <1>f, <2>1 DEF PlaneRejects, Undone
  <2>3. Top.next <= NumLayers + 1
    BY <1>14, <1>p DEF PlaneRejects, Shape, Top
  <2> QED BY <1>14, <2>2, <2>3, NextLayerType DEF PlaneRejects, Running
<1>15. CASE TryFails
  <2>1. Undone \in Seq(Entry)
    BY <1>15, <1>t, <1>f DEF TryFails, Undone
  <2> QED BY <1>15, <2>1 DEF TryFails, locals, Shape, Applying, Running
<1>16. CASE Tried
  BY <1>16 DEF Tried, locals, Shape, Applying, Running
<1>17. CASE TestAccepts
  <2>1. accepted' \subseteq [Planes -> [PlaneProps -> Nat]]
    BY <1>17, ConfigType DEF TestAccepts
  <2>2. CASE pc = "test"
    <3>1. Depth <= NumPlanes /\ Top.next \in Layers
      BY <2>2 DEF Shape, Depth, Top
    <3>2. Call(Top.next) /\ pc' = "search"
          /\ UNCHANGED <<value, held, hw, mapping, req, client, plane, prop, cursor, outer, best>>
      BY <1>17, <2>2 DEF TestAccepts
    <3>3. Top.next \in Layers \union {NULL} /\ Top.next <= NumLayers + 1
      BY <1>p, <3>1
    <3> HIDE DEF TypeInv, TypeOK
    <3> QED BY <2>1, <2>2, <3>1, <3>2, <3>3, CallType
  <2>3. CASE pc # "test"
    BY <1>17, <2>1, <2>3 DEF TestAccepts, Shape, Applying, Running
  <2> QED BY <2>2, <2>3
<1>18. CASE TestRejects
  <2>1. RejectedRequest \in Seq(Entry)
    <3>1. Len(frame) \in 1 .. Len(frame)
      BY <1>18 DEF TestRejects, Shape, Running
    <3> QED BY <1>18, <1>t, <1>f, <3>1 DEF TestRejects, Running, RejectedRequest, Top
  <2>2. Top.next <= NumLayers + 1
    BY <1>18, <1>p DEF TestRejects, Shape, Top
  <2> QED BY <1>18, <2>1, <2>2, NextLayerType DEF TestRejects, Running
<1>19. CASE TestFails
  BY <1>19 DEF TestFails, locals, Shape, Applying, Running
<1>20. ASSUME NEW l \in Layers, NEW name \in Names, NEW v \in Values[l][name],
              SetProperty(l, name, v)
       PROVE  TypeInv'
  <2>1. value' \in LayersValues
    <3>1. v \in UNION {Values[i][n] : i \in Layers, n \in Names}
      OBVIOUS
    <3>2. value' = [value EXCEPT ![l][name] = v]
      BY <1>20 DEF SetProperty
    <3>3. value \in [Layers -> PropValues]
          /\ \A i \in Layers, n \in Names : value[i][n] \in Values[i][n]
      BY DEF LayersValues
    <3> DEFINE w == [value[l] EXCEPT ![name] = v]
    <3>4. w \in PropValues /\ \A n \in Names : w[n] = IF n = name THEN v ELSE value[l][n]
      <4>1. value[l] \in PropValues
        BY <3>3
      <4> DEFINE V == UNION {Values[i][n] : i \in Layers, n \in Names}
      <4>2. PropValues = [Names -> V] /\ v \in V
        BY <3>1 DEF PropValues
      <4> HIDE DEF V
      <4> QED BY <4>1, <4>2
    <3>5. value' = [value EXCEPT ![l] = w]
      BY <3>2
    <3> HIDE DEF w
    <3>6. value' \in [Layers -> PropValues]
      BY <3>3, <3>4, <3>5
    <3>7. \A i \in Layers, n \in Names : value'[i][n] \in Values[i][n]
      BY <3>3, <3>4, <3>5
    <3> QED BY <3>6, <3>7 DEF LayersValues
  <2> QED BY <1>20, <2>1 DEF SetProperty, locals, Shape, Applying, Running
<1>21. ASSUME NEW r \in ClientRequests, Apply(r)
       PROVE  TypeInv'
  <2>1. r \in Seq(Entry) /\ Len(r) \in Nat
    BY ApplyRequestAssumption
  <2>2. /\ client' = r /\ req' = r /\ accepted' = {} /\ best' = NoMapping /\ outer' = Len(r)
        /\ plane' = 1 /\ prop' = 1 /\ cursor' = Len(r)
        /\ pc' \in {"disable", "reuse"} /\ mapping' \in {held, mapping}
        /\ UNCHANGED <<value, held, hw, frame>>
    BY <1>21 DEF Apply, StartOver, CallPlaneApply
  <2> QED BY <1>p, <1>h, <2>1, <2>2 DEF Shape, Applying, Running
<1>22. CASE Commit \/ Drop
  <2>1. hw' \in [Planes -> [PlaneProps -> Nat]]
    BY <1>22, ConfigType DEF Commit, Drop
  <2>2. Forget
    BY <1>22 DEF Commit, Drop
  <2> QED BY <1>p, <1>h, <2>1, <2>2 DEF Forget, Shape, Applying, Running
<1>23. CASE UNCHANGED vars
  BY <1>23 DEF vars, locals, Shape, Applying, Running
<1> QED
  BY <1>1, <1>2, <1>3, <1>4, <1>5, <1>6, <1>7, <1>8, <1>9, <1>10, <1>11, <1>12, <1>13, <1>14,
     <1>15, <1>16, <1>17, <1>18, <1>19, <1>20, <1>21, <1>22, <1>23
     DEF Next, Step, ClientActs, TestInterrupted

-----------------------------------------------------------------------------
(* The cursors                                                             *)

LEMMA CursorInit == Init => CursorInv
<1> SUFFICES ASSUME Init PROVE CursorInv
  OBVIOUS
<1>1. req = << >> /\ client = << >> /\ pc = "client"
  BY DEF Init
<1>2. SubSeq(req, 1, Len(client)) = client /\ Len(client) <= Len(req)
  BY <1>1
<1> QED BY <1>1, <1>2 DEF CursorInv, Cursors, ClientEntriesKept, Running

\* The types of the sequences and cursors, and what a prefix of the request keeps.
LEMMA CursorFacts ==
    ASSUME TypeInv, CursorInv
    PROVE  /\ req \in Seq(Entry) /\ client \in Seq(Entry)
           /\ Len(client) \in Nat /\ Len(req) \in Nat /\ Len(client) <= Len(req)
           /\ frame \in Seq(Frame) /\ Len(frame) \in Nat
           /\ \A d \in 1 .. Len(frame) : frame[d].cursor \in Nat
           /\ \A c \in Nat : c <= Len(req) /\ c >= Len(client) =>
                 /\ SubSeq(req, 1, c) \in Seq(Entry) /\ Len(SubSeq(req, 1, c)) = c
                 /\ SubSeq(SubSeq(req, 1, c), 1, Len(client)) = client
           /\ SubSeq(req, 1, Len(client)) = client
<1>1. /\ req \in Seq(Entry) /\ client \in Seq(Entry) /\ Len(client) <= Len(req)
      /\ SubSeq(req, 1, Len(client)) = client /\ frame \in Seq(Frame)
  BY DEF TypeInv, TypeOK, CursorInv, ClientEntriesKept
<1>2. Len(client) \in Nat /\ Len(req) \in Nat /\ Len(frame) \in Nat
  BY <1>1
<1>3. \A d \in 1 .. Len(frame) : frame[d].cursor \in Nat
  <2>1. \A d \in 1 .. Len(frame) : frame[d] \in Frame
    BY <1>1
  <2> QED BY <2>1 DEF Frame
<1>4. ASSUME NEW c \in Nat, c <= Len(req), c >= Len(client)
      PROVE  /\ SubSeq(req, 1, c) \in Seq(Entry) /\ Len(SubSeq(req, 1, c)) = c
             /\ SubSeq(SubSeq(req, 1, c), 1, Len(client)) = client
  BY <1>1, <1>2, <1>4, PrefixType, PrefixOfPrefix
<1> QED BY <1>1, <1>2, <1>3, <1>4

\* The search goes on in the last activation, with the request set back.
LEMMA NextLayerCursors ==
    ASSUME TypeInv, CursorInv, Running, Top.next <= NumLayers + 1, NEW c \in Nat,
           c = Top.cursor, NextLayer(SubSeq(req, 1, c)), UNCHANGED client
    PROVE  CursorInv'
<1>1. /\ Len(frame) >= 1 /\ frame \in Seq(Frame) /\ Len(frame) \in Nat
      /\ Len(frame) \in 1 .. Len(frame)
  BY DEF TypeInv, TypeOK, Shape
<1>2. frame' = Advanced(frame) /\ req' = SubSeq(req, 1, c) /\ pc' = "search"
  BY DEF NextLayer, Depth, Advanced
<1>3. /\ Len(frame') = Len(frame)
      /\ \A d \in 1 .. Len(frame) : frame'[d].cursor = frame[d].cursor
  BY <1>1, <1>2, AdvancedIs DEF Top, Depth
<1>4. c = frame[Len(frame)].cursor /\ c <= Len(req) /\ Len(client) <= c
      /\ \A d \in 1 .. Len(frame) : frame[d].cursor <= c /\ Len(client) <= frame[d].cursor
  BY <1>1 DEF Top, Depth, CursorInv, Cursors
<1>5. Len(req') = c /\ SubSeq(req', 1, Len(client)) = client
  BY <1>2, <1>4, CursorFacts
<1>6. \A a, b \in 1 .. Len(frame) : a <= b => frame[a].cursor <= frame[b].cursor
  BY DEF CursorInv, Cursors
<1> QED BY <1>1, <1>2, <1>3, <1>4, <1>5, <1>6 DEF CursorInv, Cursors, ClientEntriesKept, Running

LEMMA CallCursors ==
    ASSUME TypeInv, CursorInv, pc \in {"search", "test"}, NEW l \in Layers \union {NULL},
           Call(l), pc' = "search", UNCHANGED <<req, client>>
    PROVE  CursorInv'
<1>1. Len(frame) >= 1 /\ frame \in Seq(Frame) /\ Len(frame) \in Nat /\ Len(req) \in Nat
  BY DEF TypeInv, TypeOK, Shape, Running
<1>2. frame' = Called(frame, l, Len(req))
  BY DEF Call, Depth, Called
<1>3. /\ Len(frame') = Len(frame) + 1
      /\ \A d \in 1 .. Len(frame) : frame'[d].cursor = frame[d].cursor
      /\ frame'[Len(frame) + 1].cursor = Len(req)
  <2>1. Pushed(frame, l, Len(req), frame')
    BY <1>1, <1>2, CalledIs
  <2> QED BY <2>1 DEF Pushed
<1>4. \A d \in 1 .. Len(frame) :
         /\ Len(client) <= frame[d].cursor /\ frame[d].cursor <= Len(req)
         /\ \A c \in 1 .. Len(frame) : c <= d => frame[c].cursor <= frame[d].cursor
  BY DEF CursorInv, Cursors, Running
<1>5. \A d \in 1 .. Len(frame) + 1 : d = Len(frame) + 1 \/ d \in 1 .. Len(frame)
  BY <1>1
<1>6. \A d \in 1 .. Len(frame') :
         Len(client) <= frame'[d].cursor /\ frame'[d].cursor <= Len(req)
  <2> TAKE d \in 1 .. Len(frame')
  <2>1. CASE d = Len(frame) + 1
    <3>1. Len(frame) \in 1 .. Len(frame) /\ Len(client) \in Nat
      BY <1>1 DEF TypeInv, TypeOK
    <3>2. frame[Len(frame)] \in Frame
      BY <1>1, <3>1
    <3>3. frame[Len(frame)].cursor \in Nat
      BY <3>2 DEF Frame
    <3> QED BY <1>1, <1>3, <1>4, <2>1, <3>1, <3>3
  <2>2. CASE d # Len(frame) + 1
    BY <1>3, <1>4, <1>5, <2>2
  <2> QED BY <2>1, <2>2
<1>7. \A c, d \in 1 .. Len(frame') : c <= d => frame'[c].cursor <= frame'[d].cursor
  <2> TAKE c, d \in 1 .. Len(frame')
  <2>1. CASE d = Len(frame) + 1
    BY <1>1, <1>3, <1>6, <2>1
  <2>2. CASE d # Len(frame) + 1
    BY <1>1, <1>3, <1>4, <1>5, <2>2
  <2> QED BY <2>1, <2>2
<1>8. frame'[Len(frame')].cursor = Len(req)
  BY <1>3
<1> QED BY <1>6, <1>7, <1>8 DEF CursorInv, Cursors, ClientEntriesKept, Running

LEMMA ReturnCursors ==
    ASSUME TypeInv, CursorInv, pc = "search", Return, UNCHANGED client
    PROVE  CursorInv'
<1>1. /\ Len(frame) >= 1 /\ frame \in Seq(Frame) /\ Len(frame) \in Nat /\ Len(req) \in Nat
      /\ Len(client) \in Nat
  BY DEF TypeInv, TypeOK, Shape, Running
<1>2. CASE Depth > 1
  <2>1. frame' = Returned(frame) /\ req' = SubSeq(req, 1, frame[Len(frame) - 1].cursor)
        /\ UNCHANGED <<mapping, pc, plane, prop, cursor, outer>>
    BY <1>2 DEF Return, Depth, Returned, SetCursor
  <2>2. Len(frame) > 1 /\ Len(frame) - 1 \in 1 .. Len(frame) - 1 /\ Len(frame) - 1 \in 1 .. Len(frame)
    BY <1>1, <1>2 DEF Depth
  <2>3. frame[Len(frame) - 1].next <= NumLayers + 1
    BY <2>2 DEF TypeInv, Shape, Running
  <2>4. /\ Len(frame') = Len(frame) - 1
        /\ \A d \in 1 .. Len(frame) - 1 : frame'[d].cursor = frame[d].cursor
    BY <1>1, <2>1, <2>2, <2>3, ReturnedIs
  <2>5. \A d \in 1 .. Len(frame) - 1 : d \in 1 .. Len(frame)
    BY <1>1
  <2>6. \A d \in 1 .. Len(frame) :
           /\ frame[d].cursor \in Nat
           /\ Len(client) <= frame[d].cursor /\ frame[d].cursor <= Len(req)
           /\ \A c \in 1 .. Len(frame) : c <= d => frame[c].cursor <= frame[d].cursor
    BY CursorFacts DEF CursorInv, Cursors, Running
  <2>7. Len(req') = frame[Len(frame) - 1].cursor /\ SubSeq(req', 1, Len(client)) = client
    BY <2>1, <2>2, <2>6, CursorFacts
  <2>8. \A d \in 1 .. Len(frame) - 1 : d <= Len(frame) - 1
    BY <1>1
  <2> QED BY <1>1, <2>1, <2>2, <2>4, <2>5, <2>6, <2>7, <2>8
          DEF CursorInv, Cursors, ClientEntriesKept, Running
<1>3. CASE ~(Depth > 1)
  BY <1>1, <1>3 DEF Return, CallPlaneApply, CursorInv, Cursors, ClientEntriesKept, Running
<1> QED BY <1>2, <1>3

LEMMA CursorStep == TypeInv /\ CursorInv /\ [Next]_vars => CursorInv'
<1> SUFFICES ASSUME TypeInv, CursorInv, [Next]_vars PROVE CursorInv'
  OBVIOUS
<1>c. /\ req \in Seq(Entry) /\ client \in Seq(Entry)
      /\ Len(client) \in Nat /\ Len(req) \in Nat /\ Len(client) <= Len(req)
      /\ frame \in Seq(Frame) /\ Len(frame) \in Nat
      /\ SubSeq(req, 1, Len(client)) = client /\ SubSeq(req, 1, Len(req)) = req
  BY CursorFacts, WholePrefix
<1>p. /\ plane \in Nat /\ prop \in Nat /\ NumPlanes \in Nat /\ NumPlanes >= 1
      /\ NumLayers \in Nat /\ Layers = 1 .. NumLayers /\ NULL = 0
      /\ (Applying => plane >= 1 /\ prop >= 1)
      /\ cursor \in Nat /\ outer \in Nat
  BY ApplyRequestAssumption DEF TypeInv, TypeOK, Shape, Planes, Layers, NULL
<1>l. Running => Len(frame) \in 1 .. Len(frame) /\ frame[Len(frame)].cursor \in Nat
  BY <1>c, CursorFacts DEF TypeInv, Shape
<1> DEFINE Cut(c) == SubSeq(req, 1, c)
<1>1. CASE AppendProp
  <2>1. Applying /\ prop' = prop + 1 /\ UNCHANGED <<client, pc, cursor, outer, frame>>
    BY <1>1 DEF AppendProp
  <2>2. Len(req') \in Nat /\ Len(req) <= Len(req') /\ SubSeq(req', 1, Len(client)) = client
    <3>1. CASE UNCHANGED req
      BY <1>c, <3>1
    <3>2. CASE ~ UNCHANGED req
      <4> DEFINE e == [plane |-> plane, name |-> Name, value |-> Value]
      <4>1. e \in Entry /\ req' = Append(req, e)
        BY <1>1, <3>2, AppendedEntry DEF AppendProp
      <4> HIDE DEF e
      <4> QED BY <1>c, <4>1, PrefixOfAppend
    <3> QED BY <3>1, <3>2
  <2>3. ClientEntriesKept'
    BY <1>c, <1>p, <2>1, <2>2 DEF ClientEntriesKept
  <2>4. \A d \in 1 .. Len(frame) : frame[d].cursor \in Nat /\
           (Running => Len(client) <= frame[d].cursor /\ frame[d].cursor <= Len(req'))
    <3> TAKE d \in 1 .. Len(frame)
    <3>1. frame[d].cursor \in Nat
      BY CursorFacts
    <3>2. Running => Len(client) <= frame[d].cursor /\ frame[d].cursor <= Len(req)
      BY DEF CursorInv, Cursors
    <3> QED BY <1>c, <2>2, <3>1, <3>2
  <2>5. pc = "final" => outer >= Len(client) /\ outer <= Len(req')
    BY <1>c, <1>p, <2>2 DEF CursorInv, Cursors
  <2>6. pc # "search"
    BY <2>1 DEF Applying
  <2>7. Cursors'
    BY <2>1, <2>4, <2>5, <2>6 DEF CursorInv, Cursors, Running
  <2> QED BY <2>3, <2>7 DEF CursorInv
<1>2. CASE ReuseApplied \/ FinalApplied
  BY <1>2, <1>c, <1>p
     DEF ReuseApplied, FinalApplied, LoopOver, CallPlaneApply, CursorInv, Cursors,
         ClientEntriesKept, Running, Applying
<1>3. CASE ReuseFails \/ ReuseRejected
  <2>1. outer = Len(client) /\ SetCursor(req, outer) = client
    BY <1>3, <1>c DEF ReuseFails, ReuseRejected, CursorInv, Cursors, SetCursor
  <2>2. req' = client /\ pc' = "disable" /\ UNCHANGED client
    BY <1>3, <2>1 DEF ReuseFails, ReuseRejected, StartOver
  <2>3. SubSeq(client, 1, Len(client)) = client
    BY <1>c, WholePrefix
  <2> QED BY <1>c, <2>2, <2>3 DEF CursorInv, Cursors, ClientEntriesKept, Running
<1>4. CASE PlaneDisabled
  <2>1. /\ plane' # 1 /\ UNCHANGED <<req, client>>
        /\ \/ pc' = "disable"
           \/ pc' = "search" /\ frame' = << [layer |-> NULL, next |-> 1, cursor |-> Len(req)] >>
    BY <1>4, <1>p DEF PlaneDisabled, LoopOver, CallPlaneApply, Applying
  <2>2. ClientEntriesKept'
    BY <1>c, <2>1 DEF ClientEntriesKept
  <2>3. CASE pc' = "disable"
    BY <2>2, <2>3 DEF CursorInv, Cursors, Running
  <2>4. CASE pc' = "search" /\ frame' = << [layer |-> NULL, next |-> 1, cursor |-> Len(req)] >>
    <3>1. Len(frame') = 1 /\ frame'[1].cursor = Len(req)
      BY <2>4
    <3>2. \A d \in 1 .. 1 : d = 1
      OBVIOUS
    <3>3. Cursors'
      BY <1>c, <2>1, <2>4, <3>1, <3>2 DEF Cursors, Running
    <3> QED BY <2>2, <3>3 DEF CursorInv
  <2> QED BY <2>1, <2>3, <2>4
<1>5. CASE DisableFails \/ TestFails
  BY <1>5, <1>c DEF DisableFails, TestFails, CursorInv, Cursors, ClientEntriesKept, Running
<1>6. CASE FinalFails
  <2>1. outer >= Len(client) /\ outer <= Len(req) /\ req' = SubSeq(req, 1, outer)
        /\ pc' = "error" /\ UNCHANGED client
    BY <1>6 DEF FinalFails, CursorInv, Cursors, SetCursor
  <2>2. Len(req') = outer /\ SubSeq(req', 1, Len(client)) = client
    BY <1>p, <2>1, CursorFacts
  <2> QED BY <2>1, <2>2 DEF CursorInv, Cursors, ClientEntriesKept, Running
<1>7. CASE Finished \/ Leave
  BY <1>7, ReturnCursors DEF Finished, Leave
<1>8. CASE RuleOut
  <2>1. pc = "search" /\ Top.next <= NumLayers + 1 /\ NextLayer(req) /\ UNCHANGED client
    BY <1>8, <1>p DEF RuleOut
  <2>2. Top.cursor = Len(req)
    BY <2>1 DEF CursorInv, Cursors, Top
  <2> QED BY <1>c, <2>1, <2>2, NextLayerCursors DEF Running
<1>9. CASE Skip
  BY <1>9, CallCursors DEF Skip
<1>10. CASE TryLayer
  <2>1. /\ pc = "search" /\ pc' = "try" /\ cursor' = Len(req) /\ UNCHANGED <<req, client, frame>>
    BY <1>10 DEF TryLayer, CallPlaneApply
  <2> QED BY <2>1 DEF CursorInv, Cursors, ClientEntriesKept, Running
<1>11. CASE PlaneRejects
  <2>1. Target # NULL /\ Top.next <= NumLayers + 1
    BY <1>11, <1>p DEF PlaneRejects, Target, TypeInv, Shape, Top
  <2>2. pc = "try" /\ NextLayer(SubSeq(req, 1, cursor)) /\ UNCHANGED client
    BY <1>11, <2>1 DEF PlaneRejects, Undone, SetCursor
  <2>3. cursor = Top.cursor
    BY <2>2 DEF CursorInv, Cursors, Top
  <2> QED BY <1>p, <2>1, <2>2, <2>3, NextLayerCursors DEF Running
<1>12. CASE TryFails
  <2>1. Target # NULL
    BY <1>12, <1>p DEF TryFails, Target, TypeInv, Shape, Top
  <2>2. pc = "try" /\ pc' = "error" /\ req' = SubSeq(req, 1, cursor) /\ UNCHANGED client
    BY <1>12, <2>1 DEF TryFails, Undone, SetCursor
  <2>3. cursor >= Len(client) /\ cursor <= Len(req)
    BY <1>l, <2>2 DEF CursorInv, Cursors, Running
  <2>4. Len(req') = cursor /\ SubSeq(req', 1, Len(client)) = client
    BY <1>p, <2>2, <2>3, CursorFacts
  <2> QED BY <2>2, <2>3, <2>4 DEF CursorInv, Cursors, ClientEntriesKept, Running
<1>13. CASE Tried
  BY <1>13 DEF Tried, locals, CursorInv, Cursors, ClientEntriesKept, Running
<1>14. CASE TestAccepts
  <2>1. CASE pc = "test"
    <3>1. Call(Top.next) /\ pc' = "search" /\ UNCHANGED <<req, client>> /\ Top.next \in Layers
      BY <1>14, <2>1 DEF TestAccepts, TypeInv, Shape, Top
    <3> QED BY <2>1, <3>1, CallCursors
  <2>2. CASE pc # "test"
    BY <1>14, <2>2 DEF TestAccepts, CursorInv, Cursors, ClientEntriesKept, Running
  <2> QED BY <2>1, <2>2
<1>15. CASE TestRejects
  <2>1. Top.next <= NumLayers + 1 /\ pc = "test"
    BY <1>15, <1>p DEF TestRejects, TypeInv, Shape, Top
  <2>2. NextLayer(SubSeq(req, 1, Top.cursor)) /\ UNCHANGED client
    BY <1>15 DEF TestRejects, RejectedRequest, SetCursor
  <2>3. Top.cursor \in Nat
    BY <1>l, <2>1 DEF Running, Top
  <2> QED BY <2>1, <2>2, <2>3, NextLayerCursors DEF Running
<1>16. ASSUME NEW l \in Layers, NEW name \in Names, NEW v \in Values[l][name],
              SetProperty(l, name, v)
       PROVE  CursorInv'
  BY <1>16 DEF SetProperty, locals, CursorInv, Cursors, ClientEntriesKept, Running
<1>17. ASSUME NEW r \in ClientRequests, Apply(r)
       PROVE  CursorInv'
  <2>1. r \in Seq(Entry) /\ Len(r) \in Nat /\ SubSeq(r, 1, Len(r)) = r
    BY ApplyRequestAssumption, WholePrefix
  <2>2. /\ client' = r /\ req' = r /\ outer' = Len(r) /\ pc' \in {"disable", "reuse"}
    BY <1>17 DEF Apply, StartOver
  <2> QED BY <2>1, <2>2 DEF CursorInv, Cursors, ClientEntriesKept, Running
<1>18. CASE Commit \/ Drop
  <2>1. req' = << >> /\ client' = << >> /\ pc' = "client"
    BY <1>18 DEF Commit, Drop, Forget
  <2>2. SubSeq(req', 1, Len(client')) = client' /\ Len(client') <= Len(req')
    BY <2>1
  <2> QED BY <2>1, <2>2 DEF CursorInv, Cursors, ClientEntriesKept, Running
<1>19. CASE UNCHANGED vars
  BY <1>19 DEF vars, locals, CursorInv, Cursors, ClientEntriesKept, Running
<1> QED
  BY <1>1, <1>2, <1>3, <1>4, <1>5, <1>6, <1>7, <1>8, <1>9, <1>10, <1>11, <1>12, <1>13, <1>14,
     <1>15, <1>16, <1>17, <1>18, <1>19
     DEF Next, Step, ClientActs, TestInterrupted

\* The variables have their types, for any planes, layers, properties, values and
\* requests: the sequences are of entries and activations, with no more of these
\* than there are planes and the end of the search (alloc.c, plane.c).
THEOREM TypeOKHolds == Spec => []TypeOK
<1>1. Init => TypeInv /\ CursorInv
  BY TypeInit, CursorInit
<1>2. TypeInv /\ CursorInv /\ [Next]_vars => (TypeInv /\ CursorInv)'
  BY TypeStep, CursorStep
<1>3. TypeInv /\ CursorInv => TypeOK
  BY DEF TypeInv
<1> QED BY <1>1, <1>2, <1>3, PTL DEF Spec

\* Wherever memory runs out, a plane lacks a property, or the kernel rejects or
\* fails a test: what the client had put in the request is still there, and a reuse
\* that fails leaves nothing behind (the cursors of plane_apply, apply_current,
\* reuse_previous_alloc and output_choose_layers).
THEOREM ClientEntriesKeptHolds == Spec => []ClientEntriesKept
<1>1. Init => TypeInv /\ CursorInv
  BY TypeInit, CursorInit
<1>2. TypeInv /\ CursorInv /\ [Next]_vars => (TypeInv /\ CursorInv)'
  BY TypeStep, CursorStep
<1>3. TypeInv /\ CursorInv => ClientEntriesKept
  BY DEF CursorInv
<1> QED BY <1>1, <1>2, <1>3, PTL DEF Spec

-----------------------------------------------------------------------------
(* What plane_apply makes of a plane                                       *)

LEMMA NothingAppended ==
    ASSUME NEW s \in Situation, NEW p \in Planes, NEW l, l \in Layers \union {NULL}
    PROVE  /\ Appended(s, p, l, 1) = {}
           /\ \A base \in [PlaneProps -> Nat] : Progress(s, p, l, 1, base) = base
<1>1. Len(Jobs(s, l)) \in Nat
  BY JobsType
<1>2. Appended(s, p, l, 1) = {}
  BY <1>1 DEF Appended
<1> QED BY <1>2 DEF Progress

LEMMA AppendedNext ==
    ASSUME NEW s \in Situation, NEW p \in Planes, NEW l, l \in Layers \union {NULL},
           NEW i \in 1 .. Len(Jobs(s, l))
    PROVE  \A name : name \in Appended(s, p, l, i + 1) <=>
              \/ name \in Appended(s, p, l, i)
              \/ /\ ~NeedlessOn(p, Jobs(s, l)[i][1], Jobs(s, l)[i][2])
                 /\ name = Jobs(s, l)[i][1]
<1> DEFINE J == Jobs(s, l)
           N(k) == NeedlessOn(p, J[k][1], J[k][2])
<1>1. Len(J) \in Nat
  BY JobsType
<1>2. Appended(s, p, l, i + 1) = {J[j][1] : j \in {k \in 1 .. Len(J) : k < i + 1 /\ ~N(k)}}
  BY DEF Appended
<1>3. Appended(s, p, l, i) = {J[j][1] : j \in {k \in 1 .. Len(J) : k < i /\ ~N(k)}}
  BY DEF Appended
<1> HIDE DEF J, N
<1>4. \A k \in 1 .. Len(J) : k < i + 1 <=> (k < i \/ k = i)
  BY <1>1
<1>5. CASE N(i)
  <2>1. {k \in 1 .. Len(J) : k < i + 1 /\ ~N(k)} = {k \in 1 .. Len(J) : k < i /\ ~N(k)}
    BY <1>4, <1>5
  <2> QED BY <1>2, <1>3, <1>5, <2>1 DEF N, J
<1>6. CASE ~N(i)
  <2>1. {k \in 1 .. Len(J) : k < i + 1 /\ ~N(k)}
           = {k \in 1 .. Len(J) : k < i /\ ~N(k)} \union {i}
    BY <1>4, <1>6 DEF J
  <2>2. Appended(s, p, l, i + 1) = Appended(s, p, l, i) \union {J[i][1]}
    BY <1>2, <1>3, <2>1
  <2> QED BY <1>6, <2>2 DEF N, J
<1> QED BY <1>5, <1>6

\* A property that is not appended changes nothing, one that is has its effect.
LEMMA ProgressNext ==
    ASSUME NEW s \in Situation, NEW r \in Seq(Entry), NEW p \in Planes,
           NEW l, l \in Layers \union {NULL}, NEW i \in 1 .. Len(Jobs(s, l)),
           NEW base, NEW e \in Entry,
           e.plane = p, e.name = Jobs(s, l)[i][1], e.value = Jobs(s, l)[i][2],
           Conf(s, r, p) = Progress(s, p, l, i, base)
    PROVE  /\ NeedlessOn(p, Jobs(s, l)[i][1], Jobs(s, l)[i][2]) =>
                 Progress(s, p, l, i + 1, base) = Conf(s, r, p)
           /\ ~NeedlessOn(p, Jobs(s, l)[i][1], Jobs(s, l)[i][2]) =>
                 Progress(s, p, l, i + 1, base) = Conf(s, Append(r, e), p)
<1>1. e.value = Wanted(s, l, e.name) /\ e.name \in PlaneProps
  BY JobsType
<1>2. CASE NeedlessOn(p, Jobs(s, l)[i][1], Jobs(s, l)[i][2])
  <2>1. Appended(s, p, l, i + 1) = Appended(s, p, l, i)
    BY <1>2, AppendedNext
  <2> QED BY <1>2, <2>1 DEF Progress
<1>3. CASE ~NeedlessOn(p, Jobs(s, l)[i][1], Jobs(s, l)[i][2])
  <2>1. Appended(s, p, l, i + 1) = Appended(s, p, l, i) \union {e.name}
    <3>1. \A name : name \in Appended(s, p, l, i + 1) <=>
                       name \in Appended(s, p, l, i) \/ name = Jobs(s, l)[i][1]
      BY <1>3, AppendedNext
    <3> QED BY <3>1
  <2>2. \A name \in PlaneProps :
           Conf(s, Append(r, e), p)[name] =
              IF name = e.name THEN e.value ELSE Progress(s, p, l, i, base)[name]
    BY ConfAppend
  <2>3. \A name \in PlaneProps :
           Conf(s, Append(r, e), p)[name] = Progress(s, p, l, i + 1, base)[name]
    BY <1>1, <2>1, <2>2 DEF Progress
  <2> QED BY <1>3, <2>3 DEF Conf, Progress
<1> QED BY <1>2, <1>3

\* When plane_apply is through, the plane shows the layer.
LEMMA ProgressDone ==
    ASSUME NEW s \in Situation, NEW p \in Planes, NEW l, l \in Layers \union {NULL},
           NEW i \in Nat, i > Len(Jobs(s, l)), Appended(s, p, l, i) \subseteq Has[p],
           NEW base \in [PlaneProps -> Nat],
           \A name \in PlaneProps \ {"FB_ID", "CRTC_ID"} : base[name] = s.hw[p][name]
    PROVE  Progress(s, p, l, i, base) = Showing(s, p, l)
<1> DEFINE J == Jobs(s, l)
           N == {J[j][1] : j \in 1 .. Len(J)}
           A == Appended(s, p, l, i)
<1>1. /\ Len(J) \in Nat
      /\ \A j \in 1 .. Len(J) : J[j][2] = Wanted(s, l, J[j][1]) /\ J[j][1] \in PlaneProps
      /\ N = IF l = NULL THEN {"FB_ID", "CRTC_ID"} ELSE {"CRTC_ID"} \union Range(LayerProps[l])
  <2>1. Len(J) \in Nat /\ \A j \in 1 .. Len(J) :
           J[j] = <<J[j][1], Wanted(s, l, J[j][1])>> /\ J[j][1] \in PlaneProps
    BY JobsType
  <2>2. N = IF l = NULL THEN {"FB_ID", "CRTC_ID"} ELSE {"CRTC_ID"} \union Range(LayerProps[l])
    BY JobsType
  <2> HIDE DEF J, N
  <2>3. ASSUME NEW j \in 1 .. Len(J) PROVE J[j][2] = Wanted(s, l, J[j][1])
    <3> DEFINE a == J[j][1]
               b == Wanted(s, l, J[j][1])
    <3>1. J[j] = <<a, b>>
      BY <2>1
    <3> HIDE DEF a, b
    <3>2. J[j][2] = b
      BY <3>1
    <3> QED BY <3>2 DEF b
  <2> QED BY <2>1, <2>2, <2>3
<1>2. A = {name \in N : ~NeedlessOn(p, name, Wanted(s, l, name))}
  <2>1. \A k \in 1 .. Len(J) : k < i
    BY <1>1
  <2>2. A = {J[j][1] : j \in {k \in 1 .. Len(J) : k < i /\ ~NeedlessOn(p, J[k][1], J[k][2])}}
    BY DEF Appended
  <2> HIDE DEF A, J
  <2>3. A = {J[j][1] : j \in {k \in 1 .. Len(J) : ~NeedlessOn(p, J[k][1], Wanted(s, l, J[k][1]))}}
    BY <1>1, <2>1, <2>2
  <2> QED BY <2>3
<1> HIDE DEF J, N, A
<1>3. {"FB_ID", "CRTC_ID"} \subseteq Has[p] /\ NoProp \notin Nat
  BY ApplyRequestAssumption
<1>4. CrtcFor(s, l) \in Nat
  BY DEF CrtcFor, CRTC, OTHER_CRTC
<1>5. "CRTC_ID" \in A
  BY <1>1, <1>2, <1>3, <1>4 DEF NeedlessOn, Wanted
<1>6. "FB_ID" \in A
  <2>1. Wanted(s, l, "FB_ID") \in Nat
    BY ValueType, ApplyRequestAssumption DEF Wanted
  <2>2. "FB_ID" \in N
    BY <1>1, ApplyRequestAssumption
  <2> QED BY <1>2, <1>3, <2>1, <2>2 DEF NeedlessOn
<1>7. ASSUME NEW name \in PlaneProps \ {"FB_ID", "CRTC_ID"}
      PROVE  name \in A <=> l # NULL /\ name \in Has[p] \ {"zpos"} /\ s.value[l][name] # NoProp
  <2>1. CASE l = NULL
    BY <1>1, <1>2, <2>1
  <2>2. CASE l # NULL
    <3>1. Wanted(s, l, name) = s.value[l][name] /\ name \in Names /\ l \in Layers
      BY <2>2 DEF Wanted, PlaneProps
    <3>2. name \in N \/ s.value[l][name] = NoProp
      BY <1>1, <2>2, <3>1, ValueType
    <3>3. A \subseteq Has[p]
      BY DEF A
    <3>4. ASSUME name \in A
          PROVE  name \in Has[p] \ {"zpos"} /\ s.value[l][name] # NoProp
      BY <1>2, <3>1, <3>3, <3>4 DEF NeedlessOn
    <3>5. ASSUME name \in Has[p] \ {"zpos"}, s.value[l][name] # NoProp
          PROVE  name \in A
      BY <1>2, <3>1, <3>2, <3>5 DEF NeedlessOn
    <3> QED BY <2>2, <3>4, <3>5
  <2> QED BY <2>1, <2>2
<1>8. \A name \in PlaneProps :
         Progress(s, p, l, i, base)[name] = IF name \in A THEN Wanted(s, l, name) ELSE base[name]
  BY DEF Progress, A
<1>9. ASSUME NEW name \in PlaneProps
      PROVE  Progress(s, p, l, i, base)[name] = Showing(s, p, l)[name]
  <2>1. CASE name = "CRTC_ID"
    BY <1>5, <1>8, <2>1 DEF Showing, Wanted
  <2>2. CASE name = "FB_ID"
    BY <1>6, <1>8, <2>2 DEF Showing, Wanted
  <2>3. CASE name \notin {"FB_ID", "CRTC_ID"}
    <3>1. Showing(s, p, l)[name] =
             IF l # NULL /\ name \in Has[p] \ {"zpos"} /\ s.value[l][name] # NoProp
             THEN s.value[l][name] ELSE s.hw[p][name]
      BY <2>3 DEF Showing
    <3>2. base[name] = s.hw[p][name]
      BY <2>3
    <3>3. l # NULL => Wanted(s, l, name) = s.value[l][name]
      BY <2>3 DEF Wanted
    <3> QED BY <1>7, <1>8, <2>3, <3>1, <3>2, <3>3
  <2> QED BY <2>1, <2>2, <2>3
<1> QED BY <1>9 DEF Progress, Showing

-----------------------------------------------------------------------------
(* Loops over planes                                                       *)

LEMMA ShowingType ==
    ASSUME NEW s \in Situation, NEW p \in Planes, NEW l, l \in Layers \union {NULL}
    PROVE  /\ Showing(s, p, l) \in [PlaneProps -> Nat]
           /\ ShowingOwn(s, p, l) \in [PlaneProps -> Nat]
           /\ \A name \in PlaneProps \ {"FB_ID", "CRTC_ID"} :
                 ShowingOwn(s, p, NULL)[name] = s.hw[p][name]
<1>1. s.hw[p] \in [PlaneProps -> Nat] /\ CrtcFor(s, l) \in Nat
  BY DEF Situation, CrtcFor, CRTC, OTHER_CRTC
<1>2. \A name \in PlaneProps : l # NULL /\ name # "CRTC_ID" =>
         s.value[l][name] \in Nat \union {NoProp} /\ (name = "FB_ID" => s.value[l][name] \in Nat)
  BY ValueType DEF PlaneProps
<1>3. \A name \in PlaneProps : Showing(s, p, l)[name] \in Nat
  BY <1>1, <1>2 DEF Showing
<1>4. Showing(s, p, l) \in [PlaneProps -> Nat]
  BY <1>3 DEF Showing
<1>5. \A name \in PlaneProps \ {"FB_ID", "CRTC_ID"} : ShowingOwn(s, p, NULL)[name] = s.hw[p][name]
  BY DEF ShowingOwn, Showing
<1> QED BY <1>1, <1>4, <1>5 DEF ShowingOwn

\* A loop starts with the planes as they are.
LEMMA LoopStarts ==
    ASSUME NEW s \in Situation, NEW r, NEW l, l \in Layers \union {NULL}, NEW done,
           NEW before \in [Planes -> [PlaneProps -> Nat]],
           \A p \in Planes : Conf(s, r, p) = before[p]
    PROVE  LoopAt(s, r, 1, l, 1, done, before)
<1> SUFFICES ASSUME NEW p \in Planes
             PROVE  Conf(s, r, p) =
                       IF p < 1 THEN done[p]
                       ELSE IF p = 1 THEN Progress(s, p, l, 1, before[p]) ELSE before[p]
  BY DEF LoopAt
<1>1. ~(p < 1)
  BY ApplyRequestAssumption DEF Planes
<1>2. before[p] \in [PlaneProps -> Nat]
  OBVIOUS
<1>3. Progress(s, p, l, 1, before[p]) = before[p]
  BY <1>2, NothingAppended
<1> QED BY <1>1, <1>3

LEMMA LoopAppends ==
    ASSUME NEW s \in Situation, NEW r \in Seq(Entry), NEW n \in Planes,
           NEW l, l \in Layers \union {NULL}, NEW i \in 1 .. Len(Jobs(s, l)), NEW done,
           NEW before \in [Planes -> [PlaneProps -> Nat]], NEW e \in Entry,
           e.plane = n, e.name = Jobs(s, l)[i][1], e.value = Jobs(s, l)[i][2],
           LoopAt(s, r, n, l, i, done, before)
    PROVE  IF NeedlessOn(n, Jobs(s, l)[i][1], Jobs(s, l)[i][2])
           THEN LoopAt(s, r, n, l, i + 1, done, before)
           ELSE LoopAt(s, Append(r, e), n, l, i + 1, done, before)
<1>1. Conf(s, r, n) = Progress(s, n, l, i, before[n]) /\ before[n] \in [PlaneProps -> Nat]
  BY ApplyRequestAssumption DEF LoopAt, Planes
<1> DEFINE base == before[n]
           Needs == ~NeedlessOn(n, Jobs(s, l)[i][1], Jobs(s, l)[i][2])
<1>2. Conf(s, r, n) = Progress(s, n, l, i, base)
  BY <1>1
<1> HIDE DEF base
<1>3. /\ ~Needs => Progress(s, n, l, i + 1, base) = Conf(s, r, n)
      /\ Needs => Progress(s, n, l, i + 1, base) = Conf(s, Append(r, e), n)
  BY <1>2, ProgressNext
<1>4. \A p \in Planes : p # n => Conf(s, Append(r, e), p) = Conf(s, r, p)
  BY ConfAppendOther
<1> HIDE DEF Needs
<1>5. ASSUME ~Needs PROVE LoopAt(s, r, n, l, i + 1, done, before)
  <2> SUFFICES ASSUME NEW p \in Planes
               PROVE  Conf(s, r, p) =
                         IF p < n THEN done[p]
                         ELSE IF p = n THEN Progress(s, p, l, i + 1, before[p]) ELSE before[p]
    BY DEF LoopAt
  <2> QED BY <1>3, <1>5 DEF LoopAt, base
<1>6. ASSUME Needs PROVE LoopAt(s, Append(r, e), n, l, i + 1, done, before)
  <2> SUFFICES ASSUME NEW p \in Planes
               PROVE  Conf(s, Append(r, e), p) =
                         IF p < n THEN done[p]
                         ELSE IF p = n THEN Progress(s, p, l, i + 1, before[p]) ELSE before[p]
    BY DEF LoopAt
  <2>1. CASE p = n
    <3>1. ~(p < n)
      BY <2>1, ApplyRequestAssumption DEF Planes
    <3> QED BY <1>3, <1>6, <2>1, <3>1 DEF base
  <2>2. CASE p # n
    BY <1>4, <2>2 DEF LoopAt
  <2> QED BY <2>1, <2>2
<1> QED BY <1>5, <1>6 DEF Needs

\* When the plane is as it should be, the loop goes on with the next one, or ends.
LEMMA LoopGoesOn ==
    ASSUME NEW s \in Situation, NEW r, NEW n \in Planes, NEW l, NEW m, m \in Layers \union {NULL},
           NEW i, NEW done, NEW before \in [Planes -> [PlaneProps -> Nat]],
           LoopAt(s, r, n, l, i, done, before), Progress(s, n, l, i, before[n]) = done[n]
    PROVE  LoopAt(s, r, n + 1, m, 1, done, before)
<1>1. NumPlanes \in Nat /\ Planes = 1 .. NumPlanes
  BY ApplyRequestAssumption DEF Planes
<1>2. ASSUME NEW p \in Planes
      PROVE  Conf(s, r, p) = IF p < n + 1 THEN done[p] ELSE before[p]
  BY <1>1 DEF LoopAt
<1>3. \A p \in Planes : Progress(s, p, m, 1, before[p]) = before[p]
  BY NothingAppended
<1> QED BY <1>1, <1>2, <1>3 DEF LoopAt

LEMMA LoopEnds ==
    ASSUME NEW s \in Situation, NEW r, NEW l, NEW i, NEW done, NEW before,
           LoopAt(s, r, NumPlanes, l, i, done, before),
           Progress(s, NumPlanes, l, i, before[NumPlanes]) = done[NumPlanes]
    PROVE  \A p \in Planes : Conf(s, r, p) = done[p]
<1>1. NumPlanes \in Nat /\ Planes = 1 .. NumPlanes
  BY ApplyRequestAssumption DEF Planes
<1> QED BY <1>1 DEF LoopAt

LEMMA OwnIs ==
    ASSUME NEW s \in Situation, NEW m
    PROVE  \A p \in Planes : /\ Own(s, m)[p] = ShowingOwn(s, p, m[p])
                            /\ Mapped(s, m)[p] = Showing(s, p, m[p])
BY DEF Own, Mapped

LEMMA OwnType ==
    ASSUME NEW s \in Situation, NEW m \in Mapping
    PROVE  /\ Own(s, m) \in [Planes -> [PlaneProps -> Nat]]
           /\ Mapped(s, m) \in [Planes -> [PlaneProps -> Nat]]
<1>1. \A p \in Planes : m[p] \in Layers \union {NULL}
  BY DEF Mapping
<1>2. \A p \in Planes : ShowingOwn(s, p, m[p]) \in [PlaneProps -> Nat]
                        /\ Showing(s, p, m[p]) \in [PlaneProps -> Nat]
  BY <1>1, ShowingType
<1> QED BY <1>2 DEF Own, Mapped

-----------------------------------------------------------------------------
(* The paths of the search                                                 *)

\* Only the layers of the activations before the d-th count.
LEMMA SamePath ==
    ASSUME NEW f, NEW g, NEW d \in Nat,
           \A p \in Planes : p < d => g[p].layer = f[p].layer
    PROVE  PathLayers(g, d) = PathLayers(f, d)
BY DEF PathLayers

LEMMA FirstPath == \A f : PathLayers(f, 1) = NoMapping
<1> SUFFICES ASSUME NEW p \in Planes PROVE ~(p < 1)
  BY DEF PathLayers, NoMapping
<1> QED BY ApplyRequestAssumption DEF Planes

\* The layers on the path of the last activation of f, and l on its plane.
PathWith(f, l) ==
    [q \in Planes |-> IF q < Len(f) THEN f[q].layer ELSE IF q = Len(f) THEN l ELSE NULL]

LEMMA CalledPaths ==
    ASSUME NEW f \in Seq(Frame), Len(f) >= 1, NEW l, l \in Layers \union {NULL}, NEW c \in Nat
    PROVE  /\ PathLayers(Called(f, l, c), Len(f) + 1) = PathWith(f, l)
           /\ \A d \in 1 .. Len(f) : PathLayers(Called(f, l, c), d) = PathLayers(f, d)
<1> DEFINE g == Called(f, l, c)
<1>1. /\ \A d \in 1 .. Len(f) : d # Len(f) => g[d] = f[d]
      /\ g[Len(f)].layer = l
  <2>1. Pushed(f, l, c, g)
    BY CalledIs
  <2> HIDE DEF g
  <2> QED BY <2>1 DEF Pushed
<1>2. \A q \in Planes : q \in Nat /\ q >= 1
  BY ApplyRequestAssumption DEF Planes
<1>3. Len(f) \in Nat
  OBVIOUS
<1> HIDE DEF g
<1>4. ASSUME NEW q \in Planes
      PROVE  (IF q < Len(f) + 1 THEN g[q].layer ELSE NULL) =
             (IF q < Len(f) THEN f[q].layer ELSE IF q = Len(f) THEN l ELSE NULL)
  <2>1. CASE q < Len(f)
    BY <1>1, <1>2, <1>3, <2>1
  <2>2. CASE q = Len(f)
    BY <1>1, <1>2, <1>3, <2>2
  <2>3. CASE q > Len(f)
    BY <1>2, <1>3, <2>3
  <2> QED BY <1>2, <1>3, <2>1, <2>2, <2>3
<1>5. PathLayers(g, Len(f) + 1) = PathWith(f, l)
  BY <1>4 DEF PathLayers, PathWith
<1>6. ASSUME NEW d \in 1 .. Len(f) PROVE PathLayers(g, d) = PathLayers(f, d)
  <2>1. \A q \in Planes : q < d => q \in 1 .. Len(f) /\ q # Len(f)
    BY <1>2, <1>3
  <2>2. d \in Nat
    OBVIOUS
  <2> QED BY <1>1, <2>1, <2>2, SamePath
<1> QED BY <1>5, <1>6 DEF g

LEMMA PathWithNone == \A f : PathWith(f, NULL) = PathLayers(f, Len(f))
BY DEF PathWith, PathLayers

LEMMA PathTried ==
    ASSUME NEW f, Len(f) \in Planes, NEW l
    PROVE  [PathLayers(f, Len(f)) EXCEPT ![Len(f)] = l] = PathWith(f, l)
<1> DEFINE n == Len(f)
           P == PathLayers(f, n)
           Q == [P EXCEPT ![n] = l]
<1>1. P = [q \in Planes |-> IF q < n THEN f[q].layer ELSE NULL]
  BY DEF PathLayers
<1>2. ~(n < n)
  BY ApplyRequestAssumption DEF Planes
<1>3. \A q \in Planes : Q[q] = IF q < n THEN f[q].layer ELSE IF q = n THEN l ELSE NULL
  BY <1>1, <1>2
<1>4. DOMAIN P = Planes
  BY <1>1
<1> HIDE DEF P
<1>5. Q = [q \in Planes |-> Q[q]]
  BY <1>4
<1> HIDE DEF Q
<1>6. Q = PathWith(f, l)
  BY <1>3, <1>5 DEF PathWith
<1> QED BY <1>6 DEF P, Q

\* Activations that are left, in a request that was set back to the last of them.
LEMMA PathsLeft ==
    ASSUME NEW s \in Situation, NEW r \in Seq(Entry), NEW f \in Seq(Frame), NEW g \in Seq(Frame),
           NEW c \in Nat, c <= Len(r), Len(g) <= Len(f),
           \A d \in 1 .. Len(g) : /\ g[d].layer = f[d].layer /\ g[d].cursor = f[d].cursor
                                  /\ f[d].cursor <= c,
           PathsShown(s, r, f)
    PROVE  PathsShown(s, SubSeq(r, 1, c), g)
<1> SUFFICES ASSUME NEW d \in 1 .. Len(g), NEW p \in Planes
             PROVE  Conf(s, SubSeq(SubSeq(r, 1, c), 1, g[d].cursor), p)
                       = Own(s, PathLayers(g, d))[p]
  BY DEF PathsShown
<1>1. g[d] \in Frame /\ Len(g) \in Nat /\ Len(f) \in Nat /\ d \in Nat
  OBVIOUS
<1>2. g[d].cursor \in Nat /\ g[d].cursor = f[d].cursor /\ g[d].cursor <= c
  BY <1>1 DEF Frame
<1>3. SubSeq(SubSeq(r, 1, c), 1, g[d].cursor) = SubSeq(r, 1, f[d].cursor)
  BY <1>2, PrefixOfPrefix
<1>4. PathLayers(g, d) = PathLayers(f, d)
  <2>1. \A q \in Planes : q < d => q \in 1 .. Len(g)
    BY <1>1, ApplyRequestAssumption DEF Planes
  <2> QED BY <1>1, <2>1, SamePath
<1>5. d \in 1 .. Len(f)
  BY <1>1
<1> QED BY <1>3, <1>4, <1>5 DEF PathsShown

\* An activation that is added, when the request shows its path.
LEMMA PathsAdded ==
    ASSUME NEW s \in Situation, NEW r \in Seq(Entry), NEW f \in Seq(Frame), NEW g \in Seq(Frame),
           Len(g) = Len(f) + 1, g[Len(g)].cursor = Len(r),
           \A d \in 1 .. Len(f) : /\ g[d].cursor = f[d].cursor
                                  /\ d # Len(f) => g[d].layer = f[d].layer,
           PathsShown(s, r, f),
           \A p \in Planes : Conf(s, r, p) = Own(s, PathLayers(g, Len(g)))[p]
    PROVE  PathsShown(s, r, g)
<1> SUFFICES ASSUME NEW d \in 1 .. Len(g), NEW p \in Planes
             PROVE  Conf(s, SubSeq(r, 1, g[d].cursor), p) = Own(s, PathLayers(g, d))[p]
  BY DEF PathsShown
<1>1. Len(f) \in Nat /\ d \in Nat
  OBVIOUS
<1>2. CASE d = Len(g)
  BY <1>2, WholePrefix
<1>3. CASE d # Len(g)
  <2>1. d \in 1 .. Len(f)
    BY <1>1, <1>3
  <2>2. \A q \in Planes : q < d => q \in 1 .. Len(f) /\ q # Len(f)
    BY <1>1, <2>1, ApplyRequestAssumption DEF Planes
  <2>3. PathLayers(g, d) = PathLayers(f, d)
    BY <1>1, <2>2, SamePath
  <2> QED BY <2>1, <2>3 DEF PathsShown
<1> QED BY <1>2, <1>3

\* An entry that is appended is past all cursors.
LEMMA PathsKept ==
    ASSUME NEW s \in Situation, NEW r \in Seq(Entry), NEW f \in Seq(Frame), NEW e \in Entry,
           \A d \in 1 .. Len(f) : f[d].cursor <= Len(r),
           PathsShown(s, r, f)
    PROVE  PathsShown(s, Append(r, e), f)
<1> SUFFICES ASSUME NEW d \in 1 .. Len(f)
             PROVE  SubSeq(Append(r, e), 1, f[d].cursor) = SubSeq(r, 1, f[d].cursor)
  BY DEF PathsShown
<1>1. f[d] \in Frame
  OBVIOUS
<1>2. f[d].cursor \in Nat
  BY <1>1 DEF Frame
<1> QED BY <1>2, PrefixOfAppend

-----------------------------------------------------------------------------
(* The request is what is meant                                            *)

LEMMA HereKept == UNCHANGED <<value, held, hw>> => Here' = Here
BY DEF Here

LEMMA MeaningFacts ==
    ASSUME TypeInv
    PROVE  /\ Here \in Situation /\ req \in Seq(Entry) /\ frame \in Seq(Frame)
           /\ NoMapping \in Mapping /\ mapping \in Mapping
           /\ Here.held = held /\ Here.hw = hw /\ Here.value = value
           /\ hw \in [Planes -> [PlaneProps -> Nat]]
           /\ Own(Here, NoMapping) \in [Planes -> [PlaneProps -> Nat]]
<1>1. /\ Here \in Situation /\ req \in Seq(Entry) /\ frame \in Seq(Frame)
      /\ mapping \in Mapping /\ hw \in [Planes -> [PlaneProps -> Nat]]
  BY HereType DEF TypeInv, TypeOK
<1>2. NoMapping \in Mapping
  BY DEF NoMapping, Mapping
<1>3. Own(Here, NoMapping) \in [Planes -> [PlaneProps -> Nat]]
  BY <1>1, <1>2, OwnType
<1> QED BY <1>1, <1>2, <1>3 DEF Here

LEMMA MeaningInit == Init => Meaning
<1> SUFFICES ASSUME Init PROVE Meaning
  OBVIOUS
<1>1. pc = "client" /\ client = << >>
  BY DEF Init
<1>2. ClientElsewhere
  BY <1>1 DEF ClientElsewhere
<1> QED BY <1>1, <1>2 DEF Meaning, Applying, Running, Spared

\* plane_apply goes on.
LEMMA LoopingNext ==
    ASSUME TypeInv, AppendProp, NEW done, NEW before \in [Planes -> [PlaneProps -> Nat]],
           Looping(done, before)
    PROVE  LoopAt(Here, req', plane, Target, prop + 1, done, before)
<1>1. Here \in Situation /\ req \in Seq(Entry)
  BY MeaningFacts
<1>2. Target \in Layers \union {NULL} /\ plane \in Planes /\ prop \in Nat /\ prop >= 1
  BY TargetType DEF AppendProp
<1> DEFINE J == Jobs(Here, Target)
           e == [plane |-> plane, name |-> Name, value |-> Value]
<1>3. Work(Target) = J
  BY WorkIs
<1>4. prop \in 1 .. Len(J) /\ Name = J[prop][1] /\ Value = J[prop][2]
  BY <1>2, <1>3, JobsType DEF AppendProp, Todo, Name, Value
<1>5. LoopAt(Here, req, plane, Target, prop, done, before)
  BY DEF Looping
<1>6. CASE Needless
  <2>1. NeedlessOn(plane, J[prop][1], J[prop][2])
    BY <1>4, <1>6 DEF Needless
  <2>2. Name \in PlaneProps
    BY <1>1, <1>2, <1>4, JobsType
  <2>3. req' = req
    BY <1>6 DEF AppendProp
  <2>4. Appended(Here, plane, Target, prop + 1) = Appended(Here, plane, Target, prop)
    BY <1>1, <1>2, <1>4, <2>1, AppendedNext
  <2> QED BY <1>5, <2>3, <2>4 DEF LoopAt, Progress
<1>7. CASE ~Needless
  <2>1. e \in Entry /\ req' = Append(req, e)
    BY <1>7, AppendedEntry DEF AppendProp
  <2>2. e.plane = plane /\ e.name = J[prop][1] /\ e.value = J[prop][2]
    BY <1>4
  <2>3. ~NeedlessOn(plane, J[prop][1], J[prop][2])
    BY <1>4, <1>7 DEF Needless
  <2> HIDE DEF e
  <2>4. LoopAt(Here, Append(req, e), plane, Target, prop + 1, done, before)
    BY <1>1, <1>2, <1>4, <1>5, <2>1, <2>2, <2>3, LoopAppends
  <2> QED BY <2>1, <2>4
<1> QED BY <1>6, <1>7

LEMMA AppendedOnly ==
    ASSUME TypeInv, AppendProp, Appended(Here, plane, Target, prop) \subseteq Has[plane]
    PROVE  Appended(Here, plane, Target, prop + 1) \subseteq Has[plane]
<1>1. Here \in Situation
  BY MeaningFacts
<1>2. Target \in Layers \union {NULL} /\ plane \in Planes /\ prop \in Nat /\ prop >= 1
  BY TargetType DEF AppendProp
<1> DEFINE J == Jobs(Here, Target)
<1>3. Work(Target) = J
  BY WorkIs
<1>4. prop \in 1 .. Len(J) /\ Name = J[prop][1] /\ Value = J[prop][2]
  BY <1>2, <1>3, JobsType DEF AppendProp, Todo, Name, Value
<1>5. Needless \/ Name \in Has[plane]
  BY DEF AppendProp
<1>6. \A name : name \in Appended(Here, plane, Target, prop + 1) <=>
                   \/ name \in Appended(Here, plane, Target, prop)
                   \/ ~NeedlessOn(plane, J[prop][1], J[prop][2]) /\ name = J[prop][1]
  BY <1>1, <1>2, <1>4, AppendedNext
<1> QED BY <1>4, <1>5, <1>6 DEF Needless

\* plane_apply returns.
LEMMA PlaneDone ==
    ASSUME TypeInv, Meaning, Applying, Returns, ~Spared,
           NEW base \in [PlaneProps -> Nat],
           \A name \in PlaneProps \ {"FB_ID", "CRTC_ID"} : base[name] = hw[plane][name]
    PROVE  Progress(Here, plane, Target, prop, base) = Showing(Here, plane, Target)
<1>1. Here \in Situation /\ Here.hw = hw
  BY MeaningFacts
<1>2. Target \in Layers \union {NULL} /\ plane \in Planes /\ prop \in Nat
  BY TargetType
<1>3. prop > Len(Jobs(Here, Target))
  BY <1>1, <1>2, WorkIs, JobsType DEF Returns, Todo
<1>4. Appended(Here, plane, Target, prop) \subseteq Has[plane]
  BY DEF Meaning
<1> QED BY <1>1, <1>2, <1>3, <1>4, ProgressDone

LEMMA MeaningAppend ==
    ASSUME TypeInv, CursorInv, Meaning, AppendProp
    PROVE  Meaning'
<1>1. /\ Here \in Situation /\ req \in Seq(Entry) /\ frame \in Seq(Frame)
      /\ hw \in [Planes -> [PlaneProps -> Nat]]
      /\ Own(Here, NoMapping) \in [Planes -> [PlaneProps -> Nat]]
  BY MeaningFacts
<1>2. /\ Applying /\ prop' = prop + 1 /\ ~Spared
      /\ UNCHANGED <<value, held, hw, mapping, client, pc, plane, cursor, frame>>
  BY DEF AppendProp, Todo
<1>3. Here' = Here /\ Target' = Target
  BY <1>2, HereKept DEF Target, Top
<1>4. /\ pc = "reuse" => LoopAt(Here, req', plane, Target, prop + 1, Mapped(Here, mapping), hw)
      /\ pc = "disable" => LoopAt(Here, req', plane, Target, prop + 1, Own(Here, NoMapping), hw)
      /\ pc = "final" => LoopAt(Here, req', plane, Target, prop + 1, Mapped(Here, mapping),
                               Own(Here, NoMapping))
      /\ pc = "try" => LoopAt(Here, req', plane, Target, prop + 1,
                             Own(Here, PathLayers(frame, Len(frame))), Own(Here, NoMapping))
  BY <1>1, LoopingNext DEF Meaning
<1>5. Appended(Here, plane, Target, prop + 1) \subseteq Has[plane]
  BY <1>2, AppendedOnly DEF Meaning
<1>6. pc = "try" => PathsShown(Here, req', frame)
  <2> SUFFICES ASSUME pc = "try" PROVE PathsShown(Here, req', frame)
    OBVIOUS
  <2>1. PathsShown(Here, req, frame) /\ \A d \in 1 .. Len(frame) : frame[d].cursor <= Len(req)
    BY DEF Meaning, CursorInv, Cursors, Running
  <2>2. CASE req' = req
    BY <2>1, <2>2
  <2>3. CASE req' # req
    <3> DEFINE e == [plane |-> plane, name |-> Name, value |-> Value]
    <3>1. e \in Entry /\ req' = Append(req, e)
      BY <1>2, <2>3, AppendedEntry DEF AppendProp
    <3> HIDE DEF e
    <3> QED BY <1>1, <2>1, <3>1, PathsKept
  <2> QED BY <2>2, <2>3
<1>7. ClientElsewhere'
  BY <1>2 DEF Meaning, ClientElsewhere
<1>8. ~Spared'
  BY <1>2 DEF Spared
<1> QED
  BY <1>2, <1>3, <1>4, <1>5, <1>6, <1>7, <1>8 DEF Meaning, Looping, Applying, Running

\* The request is as at the start, and the planes are disabled.
LEMMA MeaningStartOver ==
    ASSUME TypeInv, NEW r \in Seq(Entry), \A i \in 1 .. Len(r) : r[i].plane = NULL,
           StartOver(r), client' = r, UNCHANGED <<value, held, hw>>
    PROVE  Meaning'
<1>1. /\ Here \in Situation /\ hw \in [Planes -> [PlaneProps -> Nat]]
      /\ Here.hw = hw /\ Here' = Here
  BY MeaningFacts, HereKept
<1>2. req' = r /\ pc' = "disable" /\ plane' = 1 /\ prop' = 1
  BY DEF StartOver, CallPlaneApply
<1>3. Target' = NULL
  BY <1>2 DEF Target
<1>4. \A p \in Planes : Conf(Here, r, p) = hw[p]
  BY <1>1, ConfElsewhere
<1>5. LoopAt(Here, r, 1, NULL, 1, Own(Here, NoMapping), hw)
  BY <1>1, <1>4, LoopStarts
<1>6. Appended(Here, 1, NULL, 1) = {}
  BY <1>1, NothingAppended, ApplyRequestAssumption DEF Planes
<1>7. ClientElsewhere'
  BY DEF ClientElsewhere
<1> QED
  BY <1>1, <1>2, <1>3, <1>5, <1>6, <1>7 DEF Meaning, Looping, Applying, Running, Spared

\* In the search, the request shows the path.
LEMMA SearchShown ==
    ASSUME TypeInv, CursorInv, Meaning, pc = "search"
    PROVE  \A p \in Planes : Conf(Here, req, p) = Own(Here, PathLayers(frame, Len(frame)))[p]
<1>1. Len(frame) \in 1 .. Len(frame) /\ frame[Len(frame)].cursor = Len(req)
  BY MeaningFacts DEF TypeInv, Shape, Running, CursorInv, Cursors
<1>2. SubSeq(req, 1, Len(req)) = req
  BY MeaningFacts, WholePrefix
<1>3. PathsShown(Here, req, frame)
  BY DEF Meaning, Running
<1> QED BY <1>1, <1>2, <1>3 DEF PathsShown

LEMMA MeaningNextLayer ==
    ASSUME TypeInv, CursorInv, Meaning, Running, Top.next <= NumLayers + 1, NEW c \in Nat,
           c = Top.cursor, NextLayer(SubSeq(req, 1, c)), UNCHANGED <<value, held, hw, client>>
    PROVE  Meaning'
<1>1. /\ Here \in Situation /\ req \in Seq(Entry) /\ frame \in Seq(Frame) /\ Here' = Here
      /\ Len(frame) >= 1 /\ Len(frame) \in Nat /\ Len(frame) \in 1 .. Len(frame)
  BY MeaningFacts, HereKept DEF TypeInv, Shape
<1>2. frame' = Advanced(frame) /\ req' = SubSeq(req, 1, c) /\ pc' = "search"
  BY DEF NextLayer, Depth, Advanced
<1>3. /\ frame' \in Seq(Frame) /\ Len(frame') = Len(frame)
      /\ \A d \in 1 .. Len(frame) :
            frame'[d].cursor = frame[d].cursor /\ frame'[d].layer = frame[d].layer
  BY <1>1, <1>2, AdvancedIs DEF Top, Depth
<1>4. c = frame[Len(frame)].cursor /\ c <= Len(req)
      /\ \A d \in 1 .. Len(frame) : frame[d].cursor <= c
  BY <1>1 DEF Top, Depth, CursorInv, Cursors
<1>5. PathsShown(Here, req, frame)
  BY DEF Meaning
<1>6. PathsShown(Here, SubSeq(req, 1, c), frame')
  <2>1. \A d \in 1 .. Len(frame') :
           /\ frame'[d].layer = frame[d].layer /\ frame'[d].cursor = frame[d].cursor
           /\ frame[d].cursor <= c
    BY <1>3, <1>4
  <2>2. Len(frame') <= Len(frame)
    BY <1>1, <1>3
  <2> QED BY <1>1, <1>3, <1>4, <1>5, <2>1, <2>2, PathsLeft
<1>7. ClientElsewhere'
  BY DEF Meaning, ClientElsewhere
<1> QED BY <1>1, <1>2, <1>6, <1>7 DEF Meaning, Applying, Running, Spared

LEMMA MeaningCall ==
    ASSUME TypeInv, Meaning, pc \in {"search", "test"},
           NEW l, l \in Layers \union {NULL}, Call(l), pc' = "search",
           UNCHANGED <<value, held, hw, req, client>>,
           \A p \in Planes : Conf(Here, req, p) = Own(Here, PathWith(frame, l))[p]
    PROVE  Meaning'
<1>1. /\ Here \in Situation /\ req \in Seq(Entry) /\ frame \in Seq(Frame) /\ Here' = Here
      /\ Len(frame) >= 1 /\ Len(frame) \in Nat /\ Len(req) \in Nat
  BY MeaningFacts, HereKept DEF TypeInv, Shape, Running
<1>2. frame' = Called(frame, l, Len(req))
  BY DEF Call, Depth, Called
<1>3. /\ frame' \in Seq(Frame) /\ Len(frame') = Len(frame) + 1
      /\ \A d \in 1 .. Len(frame) :
            frame'[d].cursor = frame[d].cursor /\ (d # Len(frame) => frame'[d] = frame[d])
      /\ frame'[Len(frame) + 1].cursor = Len(req)
  <2>1. Pushed(frame, l, Len(req), frame')
    BY <1>1, <1>2, CalledIs
  <2> QED BY <2>1 DEF Pushed
<1>4. PathLayers(frame', Len(frame')) = PathWith(frame, l)
  BY <1>1, <1>2, <1>3, CalledPaths
<1>5. PathsShown(Here, req, frame)
  BY DEF Meaning, Running
<1>6. PathsShown(Here, req, frame')
  BY <1>1, <1>3, <1>4, <1>5, PathsAdded
<1>7. ClientElsewhere'
  BY DEF Meaning, ClientElsewhere
<1> QED BY <1>1, <1>6, <1>7 DEF Meaning, Applying, Running, Spared

LEMMA MeaningReturn ==
    ASSUME TypeInv, CursorInv, Meaning, pc = "search", Return, best' \in Mapping,
           UNCHANGED <<value, held, hw, client>>
    PROVE  Meaning'
<1>1. /\ Here \in Situation /\ req \in Seq(Entry) /\ frame \in Seq(Frame) /\ Here' = Here
      /\ Len(frame) >= 1 /\ Len(frame) \in Nat /\ Len(req) \in Nat
      /\ Own(Here, NoMapping) \in [Planes -> [PlaneProps -> Nat]]
  BY MeaningFacts, HereKept DEF TypeInv, Shape, Running
<1>2. ClientElsewhere'
  BY DEF Meaning, ClientElsewhere
<1>3. CASE Depth > 1
  <2>1. frame' = Returned(frame) /\ req' = SubSeq(req, 1, frame[Len(frame) - 1].cursor)
        /\ UNCHANGED <<mapping, pc, plane, prop, cursor, outer>>
    BY <1>3 DEF Return, Depth, Returned, SetCursor
  <2>2. Len(frame) > 1 /\ Len(frame) - 1 \in 1 .. Len(frame) - 1 /\ Len(frame) - 1 \in 1 .. Len(frame)
    BY <1>1, <1>3 DEF Depth
  <2>3. frame[Len(frame) - 1].next <= NumLayers + 1
    BY <2>2 DEF TypeInv, Shape, Running
  <2>4. /\ frame' \in Seq(Frame) /\ Len(frame') = Len(frame) - 1
        /\ \A d \in 1 .. Len(frame) - 1 :
              frame'[d].cursor = frame[d].cursor /\ frame'[d].layer = frame[d].layer
    BY <1>1, <2>1, <2>2, <2>3, ReturnedIs
  <2> DEFINE c == frame[Len(frame) - 1].cursor
  <2>5. c \in Nat
    BY <2>2, CursorFacts
  <2>6. \A d \in 1 .. Len(frame) - 1 : d \in 1 .. Len(frame) /\ d <= Len(frame) - 1
    BY <1>1
  <2>7. c <= Len(req) /\ \A d \in 1 .. Len(frame) - 1 : frame[d].cursor <= c
    BY <2>2, <2>6 DEF CursorInv, Cursors, Running
  <2>8. PathsShown(Here, req, frame)
    BY DEF Meaning, Running
  <2> HIDE DEF c
  <2>9. PathsShown(Here, SubSeq(req, 1, c), frame')
    <3>1. \A d \in 1 .. Len(frame') :
             /\ frame'[d].layer = frame[d].layer /\ frame'[d].cursor = frame[d].cursor
             /\ frame[d].cursor <= c
      BY <2>4, <2>7
    <3>2. Len(frame') <= Len(frame)
      BY <1>1, <2>4
    <3> QED BY <1>1, <2>4, <2>5, <2>7, <2>8, <3>1, <3>2, PathsLeft
  <2> QED BY <1>1, <1>2, <2>1, <2>9 DEF Meaning, Applying, Running, Spared, c
<1>4. CASE ~(Depth > 1)
  <2>1. /\ frame' = << >> /\ pc' = "final" /\ plane' = 1 /\ prop' = 1
        /\ UNCHANGED req
        /\ mapping' = [p \in Planes |-> IF held[p] # NULL THEN held[p] ELSE best'[p]]
    BY <1>4 DEF Return, CallPlaneApply
  <2>2. 1 \in Planes
    BY ApplyRequestAssumption DEF Planes
  <2>3. mapping'[1] \in Layers \union {NULL} /\ Target' = mapping'[1]
    <3>1. held \in Mapping
      BY ApplyRequestAssumption DEF TypeInv, TypeOK
    <3> QED BY <2>1, <2>2, <3>1 DEF Mapping, Target
  <2>4. Len(frame) = 1
    <3>1. Len(frame) \in Nat /\ Len(frame) >= 1 /\ ~(Len(frame) > 1)
      BY <1>1, <1>4 DEF Depth
    <3>2. \A n \in Nat : n >= 1 /\ ~(n > 1) => n = 1
      OBVIOUS
    <3> QED BY <3>1, <3>2
  <2>5. \A p \in Planes : Conf(Here, req, p) = Own(Here, NoMapping)[p]
    BY <2>4, SearchShown, FirstPath
  <2>6. LoopAt(Here, req, 1, mapping'[1], 1, Mapped(Here, mapping'), Own(Here, NoMapping))
    BY <1>1, <2>3, <2>5, LoopStarts
  <2>7. Appended(Here, 1, mapping'[1], 1) = {}
    BY <1>1, <2>2, <2>3, NothingAppended
  <2> QED BY <1>1, <1>2, <2>1, <2>3, <2>6, <2>7
          DEF Meaning, Looping, Applying, Running, Spared
<1> QED BY <1>3, <1>4

\* A plane of a loop is as it should be.
LEMMA MappedDone ==
    ASSUME TypeInv, Meaning, Returns, pc \in {"reuse", "final"}
    PROVE  /\ \A p \in Planes : Mapped(Here, mapping)[p] = Showing(Here, p, mapping[p])
           /\ pc = "reuse" => Progress(Here, plane, Target, prop, hw[plane])
                                = Mapped(Here, mapping)[plane]
           /\ pc = "final" => Progress(Here, plane, Target, prop, Own(Here, NoMapping)[plane])
                                = Mapped(Here, mapping)[plane]
<1>1. /\ Here \in Situation /\ Here.hw = hw /\ Here.held = held
      /\ hw \in [Planes -> [PlaneProps -> Nat]]
      /\ Own(Here, NoMapping) \in [Planes -> [PlaneProps -> Nat]]
  BY MeaningFacts
<1>2. plane \in Planes /\ Target = mapping[plane] /\ Applying /\ ~Spared
  BY TargetType DEF Target, Applying, Spared
<1>3. \A p \in Planes : Mapped(Here, mapping)[p] = Showing(Here, p, mapping[p])
  BY DEF Mapped
<1>4. Own(Here, NoMapping)[plane] = ShowingOwn(Here, plane, NULL)
  BY <1>2 DEF Own, NoMapping
<1>5. \A name \in PlaneProps \ {"FB_ID", "CRTC_ID"} :
         Own(Here, NoMapping)[plane][name] = hw[plane][name]
  <2>1. NULL \in Layers \union {NULL}
    OBVIOUS
  <2> QED BY <1>1, <1>2, <1>4, <2>1, ShowingType
<1>6. hw[plane] \in [PlaneProps -> Nat] /\ Own(Here, NoMapping)[plane] \in [PlaneProps -> Nat]
  BY <1>1, <1>2
<1>7. Progress(Here, plane, Target, prop, hw[plane]) = Showing(Here, plane, Target)
  BY <1>2, <1>6, PlaneDone
<1>8. Progress(Here, plane, Target, prop, Own(Here, NoMapping)[plane]) = Showing(Here, plane, Target)
  BY <1>2, <1>5, <1>6, PlaneDone
<1> QED BY <1>2, <1>3, <1>7, <1>8

LEMMA DisabledDone ==
    ASSUME TypeInv, Meaning, Returns, pc = "disable"
    PROVE  Progress(Here, plane, Target, prop, hw[plane]) = Own(Here, NoMapping)[plane]
<1>1. /\ Here \in Situation /\ Here.hw = hw /\ Here.held = held
      /\ hw \in [Planes -> [PlaneProps -> Nat]]
  BY MeaningFacts
<1>2. plane \in Planes /\ Target = NULL /\ Applying
  BY TargetType DEF Target, Applying
<1>3. Own(Here, NoMapping)[plane] = ShowingOwn(Here, plane, NULL)
  BY <1>2 DEF Own, NoMapping
<1>4. hw[plane] \in [PlaneProps -> Nat]
  BY <1>1, <1>2
<1>5. CASE Spared
  <2>1. prop = 1 /\ held[plane] # NULL
    BY <1>5 DEF Meaning, Spared
  <2>2. Progress(Here, plane, NULL, 1, hw[plane]) = hw[plane]
    BY <1>1, <1>2, <1>4, NothingAppended
  <2> QED BY <1>1, <1>2, <1>3, <2>1, <2>2 DEF ShowingOwn
<1>6. CASE ~Spared
  <2>1. Progress(Here, plane, Target, prop, hw[plane]) = Showing(Here, plane, Target)
    BY <1>2, <1>4, <1>6, PlaneDone
  <2> QED BY <1>1, <1>2, <1>3, <1>6, <2>1 DEF ShowingOwn, Spared
<1> QED BY <1>5, <1>6

LEMMA TriedDone ==
    ASSUME TypeInv, CursorInv, Meaning, pc = "try", Returns
    PROVE  \A p \in Planes : Conf(Here, req, p) =
              Own(Here, [PathLayers(frame, Len(frame)) EXCEPT ![Len(frame)] = Top.next])[p]
<1>1. /\ Here \in Situation /\ Here.hw = hw /\ Here.held = held
      /\ Own(Here, NoMapping) \in [Planes -> [PlaneProps -> Nat]]
  BY MeaningFacts
<1>2. /\ plane \in Planes /\ Target = Top.next /\ Applying /\ ~Spared
      /\ plane = Len(frame) /\ held[plane] = NULL
  BY TargetType DEF Target, Applying, Spared, TypeInv, Shape
<1>3. NumPlanes \in Nat /\ Planes = 1 .. NumPlanes
  BY ApplyRequestAssumption DEF Planes
<1> DEFINE path == PathLayers(frame, plane)
           tried == [path EXCEPT ![plane] = Top.next]
<1>4. /\ path \in [Planes -> {path[p] : p \in Planes}]
      /\ \A p \in Planes : p >= plane => path[p] = NULL
  BY <1>2, <1>3 DEF PathLayers
<1> HIDE DEF path
<1>5. \A p \in Planes : tried[p] = IF p = plane THEN Top.next ELSE path[p]
  BY <1>4
<1>6. Own(Here, NoMapping)[plane] = ShowingOwn(Here, plane, NULL)
  BY <1>2 DEF Own, NoMapping
<1>7. Progress(Here, plane, Target, prop, Own(Here, NoMapping)[plane]) = Showing(Here, plane, Target)
  <2>1. \A name \in PlaneProps \ {"FB_ID", "CRTC_ID"} :
           Own(Here, NoMapping)[plane][name] = hw[plane][name]
    <3>1. NULL \in Layers \union {NULL}
      OBVIOUS
    <3> QED BY <1>1, <1>2, <1>6, <3>1, ShowingType
  <2>2. Own(Here, NoMapping)[plane] \in [PlaneProps -> Nat]
    BY <1>1, <1>2
  <2> QED BY <1>2, <2>1, <2>2, PlaneDone
<1>8. LoopAt(Here, req, plane, Target, prop, Own(Here, path), Own(Here, NoMapping))
  BY <1>2 DEF Meaning, Looping, path
<1> SUFFICES ASSUME NEW p \in Planes
             PROVE  Conf(Here, req, p) = ShowingOwn(Here, p, tried[p])
  BY <1>2 DEF Own, path
<1>9. CASE p < plane
  <2>1. Conf(Here, req, p) = ShowingOwn(Here, p, path[p])
    BY <1>8, <1>9 DEF LoopAt, Own
  <2>2. tried[p] = path[p]
    BY <1>2, <1>3, <1>5, <1>9
  <2> QED BY <2>1, <2>2
<1>10. CASE p = plane
  <2>1. Conf(Here, req, p) = Progress(Here, p, Target, prop, Own(Here, NoMapping)[p])
    BY <1>2, <1>3, <1>8, <1>10 DEF LoopAt
  <2>2. tried[p] = Target
    BY <1>2, <1>5, <1>10
  <2> QED BY <1>1, <1>2, <1>7, <1>10, <2>1, <2>2 DEF ShowingOwn
<1>11. CASE p > plane
  <2>1. Conf(Here, req, p) = ShowingOwn(Here, p, NULL)
    BY <1>2, <1>3, <1>8, <1>11 DEF LoopAt, Own, NoMapping
  <2>2. tried[p] = NULL
    BY <1>2, <1>3, <1>4, <1>5, <1>11
  <2> QED BY <2>1, <2>2
<1> QED BY <1>2, <1>3, <1>9, <1>10, <1>11

LEMMA MeaningStep == TypeInv /\ CursorInv /\ Meaning /\ [Next]_vars => Meaning'
<1> SUFFICES ASSUME TypeInv, CursorInv, Meaning, [Next]_vars PROVE Meaning'
  OBVIOUS
<1>t. TypeInv'
  BY TypeStep
<1>m. /\ Here \in Situation /\ req \in Seq(Entry) /\ frame \in Seq(Frame)
      /\ NoMapping \in Mapping /\ mapping \in Mapping
      /\ Here.held = held /\ Here.hw = hw /\ Here.value = value
      /\ hw \in [Planes -> [PlaneProps -> Nat]]
      /\ Own(Here, NoMapping) \in [Planes -> [PlaneProps -> Nat]]
  BY MeaningFacts
<1>p. /\ NumPlanes \in Nat /\ NumPlanes >= 1 /\ Planes = 1 .. NumPlanes /\ plane \in Nat
      /\ NumLayers \in Nat /\ Layers = 1 .. NumLayers /\ NULL = 0
      /\ cursor \in Nat /\ (Applying => plane \in Planes)
  BY ApplyRequestAssumption DEF TypeInv, TypeOK, Shape, Planes, Layers, NULL
<1>l. Running => Len(frame) \in 1 .. Len(frame) /\ frame[Len(frame)].cursor \in Nat
  BY <1>m, CursorFacts DEF TypeInv, Shape
<1>c. client' = client => ClientElsewhere'
  BY DEF Meaning, ClientElsewhere
<1>1. CASE AppendProp
  BY <1>1, MeaningAppend
<1>2. CASE ReuseApplied \/ FinalApplied
  <2> DEFINE before == IF pc = "reuse" THEN hw ELSE Own(Here, NoMapping)
  <2>1. /\ pc \in {"reuse", "final"} /\ Applying /\ Returns /\ plane' = plane + 1 /\ prop' = 1
        /\ pc' = IF plane # NumPlanes THEN pc ELSE IF pc = "reuse" THEN "reuse_test" ELSE "ok"
        /\ UNCHANGED <<value, held, hw, mapping, req, client>>
    BY <1>2 DEF ReuseApplied, FinalApplied, LoopOver, CallPlaneApply, Applying
  <2>2. Here' = Here
    BY <2>1, HereKept
  <2>3. /\ before \in [Planes -> [PlaneProps -> Nat]]
        /\ LoopAt(Here, req, plane, Target, prop, Mapped(Here, mapping), before)
        /\ Progress(Here, plane, Target, prop, before[plane]) = Mapped(Here, mapping)[plane]
    BY <1>m, <2>1, MappedDone DEF Meaning, Looping
  <2>4. plane \in Planes
    BY <1>p, <2>1
  <2>5. CASE plane # NumPlanes
    <3>1. plane + 1 \in Planes
      BY <1>p, <2>4, <2>5
    <3>2. Target' = mapping[plane + 1] /\ pc' = pc
      BY <2>1, <2>5 DEF Target
    <3>3. mapping[plane + 1] \in Layers \union {NULL}
      BY <1>m, <3>1 DEF Mapping
    <3> DEFINE m == mapping[plane + 1]
    <3> HIDE DEF m, before
    <3>4. LoopAt(Here, req, plane + 1, m, 1, Mapped(Here, mapping), before)
      BY <1>m, <2>3, <2>4, <3>3, LoopGoesOn DEF m
    <3>5. Appended(Here, plane + 1, m, 1) = {}
      BY <1>m, <3>1, <3>3, NothingAppended DEF m
    <3> QED BY <1>c, <2>1, <2>2, <3>2, <3>4, <3>5
            DEF m, before, Meaning, Looping, Applying, Running, Spared
  <2>6. CASE plane = NumPlanes
    <3> HIDE DEF before
    <3>2. \A p \in Planes : Conf(Here, req, p) = Mapped(Here, mapping)[p]
      BY <1>m, <2>3, <2>6, LoopEnds
    <3> QED BY <1>c, <2>1, <2>2, <2>6, <3>2 DEF Meaning, Applying, Running, Spared
  <2> QED BY <2>5, <2>6
<1>3. CASE ReuseFails \/ ReuseRejected
  <2>1. outer = Len(client) /\ SetCursor(req, outer) = client
    BY <1>3, CursorFacts DEF ReuseFails, ReuseRejected, CursorInv, Cursors, SetCursor
  <2>2. StartOver(client) /\ UNCHANGED <<value, held, hw, client>>
    BY <1>3, <2>1 DEF ReuseFails, ReuseRejected
  <2>3. client \in Seq(Entry) /\ \A i \in 1 .. Len(client) : client[i].plane = NULL
    BY DEF TypeInv, TypeOK, Meaning, ClientElsewhere
  <2> QED BY <2>2, <2>3, MeaningStartOver
<1>4. CASE PlaneDisabled
  <2> DEFINE b == [layer |-> NULL, next |-> 1, cursor |-> Len(req)]
  <2>1. /\ pc = "disable" /\ Applying /\ Returns /\ plane' = plane + 1 /\ prop' = 1
        /\ pc' = (IF plane # NumPlanes THEN "disable" ELSE "search")
        /\ plane = NumPlanes => frame' = << b >>
        /\ UNCHANGED <<value, held, hw, mapping, req, client>>
    BY <1>4 DEF PlaneDisabled, LoopOver, CallPlaneApply, Applying
  <2>2. Here' = Here
    BY <2>1, HereKept
  <2>3. /\ LoopAt(Here, req, plane, Target, prop, Own(Here, NoMapping), hw)
        /\ Progress(Here, plane, Target, prop, hw[plane]) = Own(Here, NoMapping)[plane]
    BY <2>1, DisabledDone DEF Meaning, Looping
  <2>4. plane \in Planes /\ NULL \in Layers \union {NULL}
    BY <1>p, <2>1
  <2>5. CASE plane # NumPlanes
    <3>1. plane + 1 \in Planes
      BY <1>p, <2>4, <2>5
    <3>2. Target' = NULL
      BY <2>1, <2>5 DEF Target
    <3>3. LoopAt(Here, req, plane + 1, NULL, 1, Own(Here, NoMapping), hw)
      BY <1>m, <2>3, <2>4, LoopGoesOn
    <3>4. Appended(Here, plane + 1, NULL, 1) = {}
      BY <1>m, <2>4, <3>1, NothingAppended
    <3> QED BY <1>c, <2>1, <2>2, <2>5, <3>2, <3>3, <3>4
            DEF Meaning, Looping, Applying, Running, Spared
  <2>6. CASE plane = NumPlanes
    <3>1. \A p \in Planes : Conf(Here, req, p) = Own(Here, NoMapping)[p]
      <4>1. /\ LoopAt(Here, req, NumPlanes, Target, prop, Own(Here, NoMapping), hw)
            /\ Progress(Here, NumPlanes, Target, prop, hw[NumPlanes]) = Own(Here, NoMapping)[NumPlanes]
        BY <2>3, <2>6
      <4>2. Here \in Situation
        BY <1>m
      <4> QED BY <4>1, <4>2, LoopEnds
    <3>2. Len(frame') = 1 /\ frame'[1].cursor = Len(req)
      BY <2>1, <2>6
    <3>3. SubSeq(req, 1, Len(req)) = req
      BY <1>m, WholePrefix
    <3>4. \A d \in 1 .. 1 : d = 1
      OBVIOUS
    <3>5. PathsShown(Here, req, frame')
      BY <3>1, <3>2, <3>3, <3>4, FirstPath DEF PathsShown
    <3> QED BY <1>c, <2>1, <2>2, <2>6, <3>5 DEF Meaning, Applying, Running, Spared
  <2> QED BY <2>5, <2>6
<1>5. CASE DisableFails \/ TestFails \/ FinalFails \/ TryFails
  BY <1>5, <1>c DEF DisableFails, TestFails, FinalFails, TryFails, Meaning, Applying, Running, Spared
<1>6. CASE Finished \/ Leave
  <2>1. best' \in Mapping
    BY <1>t DEF TypeInv, TypeOK
  <2> QED BY <1>6, <2>1, MeaningReturn DEF Finished, Leave
<1>7. CASE RuleOut
  <2>1. pc = "search" /\ Top.next <= NumLayers + 1 /\ NextLayer(req)
        /\ UNCHANGED <<value, held, hw, client>>
    BY <1>7, <1>p DEF RuleOut
  <2>2. Top.cursor = Len(req) /\ SubSeq(req, 1, Len(req)) = req /\ Len(req) \in Nat
    BY <1>m, <2>1, WholePrefix DEF CursorInv, Cursors, Top
  <2> QED BY <2>1, <2>2, MeaningNextLayer DEF Running
<1>8. CASE Skip
  <2>1. /\ pc = "search" /\ pc' = "search" /\ Call(NULL) /\ UNCHANGED <<value, held, hw, req, client>>
    BY <1>8 DEF Skip
  <2>3. \A p \in Planes : Conf(Here, req, p) = Own(Here, PathWith(frame, NULL))[p]
    BY <2>1, SearchShown, PathWithNone
  <2>4. NULL \in Layers \union {NULL}
    OBVIOUS
  <2> QED BY <2>1, <2>3, <2>4, MeaningCall
<1>9. CASE TryLayer
  <2>1. /\ pc = "search" /\ pc' = "try" /\ plane' = Len(frame) /\ prop' = 1
        /\ UNCHANGED <<value, held, hw, req, client, frame>>
        /\ Top.next \in Layers /\ Len(frame) <= NumPlanes
    BY <1>9 DEF TryLayer, CallPlaneApply, Depth, OwnLayers
  <2> DEFINE n == Len(frame)
  <2>2. Here' = Here /\ Target' = Top.next
    BY <2>1, HereKept DEF Target, Top
  <2>3. n \in Planes /\ Top.next \in Layers \union {NULL}
    BY <1>m, <1>p, <1>l, <2>1 DEF Running
  <2>4. \A p \in Planes : Conf(Here, req, p) = Own(Here, PathLayers(frame, n))[p]
    BY <2>1, SearchShown
  <2>5. ASSUME NEW p \in Planes, p >= n
        PROVE  Conf(Here, req, p) = Own(Here, NoMapping)[p]
    <3>1. ~(p < n)
      BY <1>p, <2>3, <2>5
    <3> QED BY <2>4, <3>1 DEF Own, PathLayers, NoMapping
  <2>6. Progress(Here, n, Top.next, 1, Own(Here, NoMapping)[n]) = Own(Here, NoMapping)[n]
    BY <1>m, <2>3, NothingAppended
  <2>7. LoopAt(Here, req, n, Top.next, 1, Own(Here, PathLayers(frame, n)), Own(Here, NoMapping))
    <3> SUFFICES ASSUME NEW p \in Planes
                 PROVE  Conf(Here, req, p) =
                           IF p < n THEN Own(Here, PathLayers(frame, n))[p]
                           ELSE IF p = n THEN Progress(Here, p, Top.next, 1, Own(Here, NoMapping)[p])
                           ELSE Own(Here, NoMapping)[p]
      BY DEF LoopAt
    <3>1. CASE p < n
      BY <2>4, <3>1
    <3>2. CASE p >= n
      <4>1. ~(p < n)
        BY <1>p, <2>3, <3>2
      <4> QED BY <2>5, <2>6, <3>2, <4>1
    <3> QED BY <1>p, <2>3, <3>1, <3>2
  <2>8. Appended(Here, n, Top.next, 1) = {}
    BY <1>m, <2>3, NothingAppended
  <2>9. PathsShown(Here, req, frame)
    BY <2>1 DEF Meaning, Running
  <2> QED BY <1>c, <2>1, <2>2, <2>7, <2>8, <2>9 DEF Meaning, Looping, Applying, Running, Spared
<1>10. CASE PlaneRejects
  <2>1. Target # NULL /\ Top.next <= NumLayers + 1
    BY <1>10, <1>p DEF PlaneRejects, Target, TypeInv, Shape, Top
  <2>2. pc = "try" /\ NextLayer(SubSeq(req, 1, cursor)) /\ UNCHANGED <<value, held, hw, client>>
    BY <1>10, <2>1 DEF PlaneRejects, Undone, SetCursor
  <2>3. cursor = Top.cursor
    BY <2>2 DEF CursorInv, Cursors, Top
  <2> QED BY <1>p, <2>1, <2>2, <2>3, MeaningNextLayer DEF Running
<1>11. CASE Tried
  <2>1. pc = "try" /\ Returns /\ pc' = "test" /\ Here' = Here /\ Top' = Top
        /\ UNCHANGED <<req, client, frame>>
    BY <1>11, HereKept DEF Tried, locals, Top
  <2>2. \A p \in Planes : Conf(Here, req, p) =
           Own(Here, [PathLayers(frame, Len(frame)) EXCEPT ![Len(frame)] = Top.next])[p]
    BY <2>1, TriedDone
  <2>3. PathsShown(Here, req, frame)
    BY <2>1 DEF Meaning, Running
  <2> QED BY <1>c, <2>1, <2>2, <2>3 DEF Meaning, Applying, Running, Spared
<1>12. CASE TestAccepts
  <2>1. CASE pc = "test"
    <3>1. /\ Call(Top.next) /\ pc' = "search" /\ UNCHANGED <<value, held, hw, req, client>>
          /\ Top.next \in Layers \union {NULL} /\ Len(frame) <= NumPlanes
      BY <1>12, <2>1 DEF TestAccepts, TypeInv, Shape, Top
    <3>2. Len(frame) \in Planes
      BY <1>m, <1>p, <1>l, <2>1, <3>1 DEF Running
    <3>3. [PathLayers(frame, Len(frame)) EXCEPT ![Len(frame)] = Top.next] = PathWith(frame, Top.next)
      BY <3>2, PathTried
    <3>4. \A p \in Planes : Conf(Here, req, p) = Own(Here, PathWith(frame, Top.next))[p]
      BY <2>1, <3>3 DEF Meaning
    <3> QED BY <2>1, <3>1, <3>4, MeaningCall
  <2>2. CASE pc = "reuse_test"
    <3>1. pc' = "ok" /\ Here' = Here /\ UNCHANGED <<mapping, req, client>>
      BY <1>12, <2>2, HereKept DEF TestAccepts
    <3> QED BY <1>c, <2>2, <3>1 DEF Meaning, Applying, Running, Spared
  <2> QED BY <1>12, <2>1, <2>2 DEF TestAccepts, Testing
<1>13. CASE TestRejects
  <2>1. Top.next <= NumLayers + 1 /\ pc = "test"
    BY <1>13, <1>p DEF TestRejects, TypeInv, Shape, Top
  <2>2. NextLayer(SubSeq(req, 1, Top.cursor)) /\ UNCHANGED <<value, held, hw, client>>
    BY <1>13 DEF TestRejects, RejectedRequest, SetCursor
  <2>3. Top.cursor \in Nat
    BY <1>l, <2>1 DEF Running, Top
  <2> QED BY <2>1, <2>2, <2>3, MeaningNextLayer DEF Running
<1>14. ASSUME NEW l \in Layers, NEW name \in Names, NEW v \in Values[l][name],
              SetProperty(l, name, v)
       PROVE  Meaning'
  BY <1>14, <1>c DEF SetProperty, Meaning, Applying, Running, Spared
<1>15. ASSUME NEW r \in ClientRequests, Apply(r)
       PROVE  Meaning'
  <2>1. r \in Seq(Entry) /\ \A i \in 1 .. Len(r) : r[i].plane = NULL
    BY ApplyRequestAssumption
  <2>2. client' = r /\ UNCHANGED <<value, held, hw>>
    BY <1>15 DEF Apply
  <2>3. CASE StartOver(r)
    BY <2>1, <2>2, <2>3, MeaningStartOver
  <2>4. CASE ~StartOver(r)
    <3>1. pc' = "reuse" /\ req' = r /\ plane' = 1 /\ prop' = 1 /\ mapping' = mapping
      BY <1>15, <2>4 DEF Apply, CallPlaneApply
    <3>2. Here' = Here /\ Target' = mapping[1] /\ 1 \in Planes /\ mapping[1] \in Layers \union {NULL}
      <4>1. 1 \in Planes
        BY <1>p
      <4>2. mapping[1] \in Layers \union {NULL}
        BY <1>m, <4>1 DEF Mapping
      <4>3. Target' = mapping[1]
        BY <3>1 DEF Target
      <4> QED BY <2>2, <4>1, <4>2, <4>3, HereKept
    <3>3. \A p \in Planes : Conf(Here, r, p) = hw[p]
      BY <1>m, <2>1, ConfElsewhere
    <3>4. LoopAt(Here, r, 1, mapping[1], 1, Mapped(Here, mapping), hw)
      BY <1>m, <3>2, <3>3, LoopStarts
    <3>5. Appended(Here, 1, mapping[1], 1) = {}
      BY <1>m, <3>2, NothingAppended
    <3>6. ClientElsewhere'
      BY <2>1, <2>2 DEF ClientElsewhere
    <3> QED BY <2>2, <3>1, <3>2, <3>4, <3>5, <3>6
            DEF Meaning, Looping, Applying, Running, Spared
  <2> QED BY <2>3, <2>4
<1>16. CASE Commit \/ Drop
  <2>1. client' = << >> /\ pc' = "client"
    BY <1>16 DEF Commit, Drop, Forget
  <2>2. ClientElsewhere'
    BY <2>1 DEF ClientElsewhere
  <2> QED BY <2>1, <2>2 DEF Meaning, Applying, Running, Spared
<1>17. CASE UNCHANGED vars
  BY <1>17 DEF vars, locals, Meaning, Looping, Here, Target, Top, Applying, Running, Spared,
               ClientElsewhere
<1> QED
  BY <1>1, <1>2, <1>3, <1>4, <1>5, <1>6, <1>7, <1>8, <1>9, <1>10, <1>11, <1>12, <1>13, <1>14,
     <1>15, <1>16, <1>17
     DEF Next, Step, ClientActs, TestInterrupted

LEMMA MeaningIs == TypeInv /\ CursorInv /\ Meaning => RequestIsWhatIsMeant
<1> SUFFICES ASSUME TypeInv, CursorInv, Meaning PROVE RequestIsWhatIsMeant
  OBVIOUS
<1>1. \A p \in Planes : Config(req)[p] = Conf(Here, req, p)
  BY ConfIs DEF Config
<1>2. Here.held = held /\ Here.hw = hw
  BY DEF Here
<1>3. ASSUME pc = "test" PROVE Config(req) = ShowsTentative
  <2>1. OnPath(Depth) = PathLayers(frame, Len(frame))
    BY DEF OnPath, Depth, PathLayers
  <2>2. Tentative = [PathLayers(frame, Len(frame)) EXCEPT ![Len(frame)] = Top.next]
    BY <2>1 DEF Tentative, Depth
  <2>3. \A p \in Planes : Conf(Here, req, p) = Own(Here, Tentative)[p]
    BY <1>3, <2>2 DEF Meaning
  <2>4. \A p \in Planes :
           Own(Here, Tentative)[p] = IF held[p] # NULL THEN hw[p] ELSE Shows(p, Tentative[p])
    BY <1>2, ShowsIs DEF Own, ShowingOwn
  <2> QED BY <1>1, <2>3, <2>4 DEF Config, ShowsTentative
<1>4. ASSUME pc \in {"reuse_test", "ok"} PROVE Config(req) = ShowsMapping(mapping)
  <2>1. \A p \in Planes : Conf(Here, req, p) = Mapped(Here, mapping)[p]
    BY <1>4 DEF Meaning
  <2>2. \A p \in Planes : Mapped(Here, mapping)[p] = Shows(p, mapping[p])
    BY ShowsIs DEF Mapped
  <2> QED BY <1>1, <2>1, <2>2 DEF Config, ShowsMapping
<1> QED BY <1>3, <1>4 DEF RequestIsWhatIsMeant

-----------------------------------------------------------------------------
(* What is left was tested                                                 *)

LEMMA TestsInit == Init => Tests
BY DEF Init, Tests, Running, FinalConfigurationTested, Accepted

\* A configuration that was accepted stays so.
LEMMA AcceptedKept ==
    ASSUME Here' = Here, accepted \subseteq accepted'
    PROVE  \A m : Accepted(m) => (m = NoMapping \/ Own(Here', m) \in accepted')
BY DEF Accepted

\* The paths of activations that are left.
LEMMA TestsLeft ==
    ASSUME TypeInv, Tests, Running, Here' = Here, UNCHANGED accepted,
           frame' \in Seq(Frame), Len(frame') <= Len(frame),
           \A d \in 1 .. Len(frame') : frame'[d].layer = frame[d].layer
    PROVE  \A d \in 1 .. Len(frame') :
              PathLayers(frame', d) = NoMapping \/ Own(Here', PathLayers(frame', d)) \in accepted'
<1> SUFFICES ASSUME NEW d \in 1 .. Len(frame')
             PROVE  PathLayers(frame', d) = NoMapping \/ Own(Here', PathLayers(frame', d)) \in accepted'
  OBVIOUS
<1>1. d \in Nat /\ Len(frame') \in Nat /\ Len(frame) \in Nat /\ d \in 1 .. Len(frame)
  BY DEF TypeInv, TypeOK
<1>2. \A q \in Planes : q < d => q \in 1 .. Len(frame')
  BY <1>1, ApplyRequestAssumption DEF Planes
<1>3. PathLayers(frame', d) = PathLayers(frame, d)
  BY <1>1, <1>2, SamePath
<1>4. Accepted(PathLayers(frame, d))
  BY <1>1 DEF Tests
<1> QED BY <1>3, <1>4, AcceptedKept

LEMMA TestsNextLayer ==
    ASSUME TypeInv, Tests, Running, Top.next <= NumLayers + 1, NEW r, NextLayer(r),
           UNCHANGED <<value, held, hw, accepted, best>>
    PROVE  Tests'
<1>1. frame \in Seq(Frame) /\ Len(frame) >= 1 /\ Len(frame) \in Nat /\ Here' = Here
  BY MeaningFacts, HereKept DEF TypeInv, Shape
<1>2. frame' = Advanced(frame) /\ pc' = "search"
  BY DEF NextLayer, Depth, Advanced
<1>3. /\ frame' \in Seq(Frame) /\ Len(frame') = Len(frame)
      /\ \A d \in 1 .. Len(frame) : frame'[d].layer = frame[d].layer
  BY <1>1, <1>2, AdvancedIs DEF Top, Depth
<1>4. \A d \in 1 .. Len(frame') :
         PathLayers(frame', d) = NoMapping \/ Own(Here', PathLayers(frame', d)) \in accepted'
  BY <1>1, <1>3, TestsLeft
<1>5. best' = NoMapping \/ Own(Here', best') \in accepted'
  BY <1>1 DEF Tests, Accepted, Running
<1> QED BY <1>2, <1>4, <1>5 DEF Tests, Accepted, FinalConfigurationTested, Running

LEMMA TestsCall ==
    ASSUME TypeInv, Tests, pc \in {"search", "test"},
           NEW l, l \in Layers \union {NULL}, Call(l), pc' = "search",
           UNCHANGED <<value, held, hw, best>>, accepted \subseteq accepted',
           PathWith(frame, l) = NoMapping \/ Own(Here', PathWith(frame, l)) \in accepted'
    PROVE  Tests'
<1>1. /\ frame \in Seq(Frame) /\ Len(frame) >= 1 /\ Len(frame) \in Nat /\ Len(req) \in Nat
      /\ Here' = Here
  BY MeaningFacts, HereKept DEF TypeInv, Shape, Running
<1>2. frame' = Called(frame, l, Len(req))
  BY DEF Call, Depth, Called
<1>3. Len(frame') = Len(frame) + 1
  <2>1. Pushed(frame, l, Len(req), frame')
    BY <1>1, <1>2, CalledIs
  <2> QED BY <2>1 DEF Pushed
<1>4. ASSUME NEW d \in 1 .. Len(frame')
      PROVE  PathLayers(frame', d) = NoMapping \/ Own(Here', PathLayers(frame', d)) \in accepted'
  <2>1. CASE d = Len(frame) + 1
    BY <1>1, <1>2, <2>1, CalledPaths
  <2>2. CASE d # Len(frame) + 1
    <3>1. d \in 1 .. Len(frame)
      BY <1>1, <1>3, <2>2
    <3>2. PathLayers(frame', d) = PathLayers(frame, d)
      BY <1>1, <1>2, <3>1, CalledPaths
    <3>3. Accepted(PathLayers(frame, d))
      BY <3>1 DEF Tests, Running
    <3> QED BY <1>1, <3>2, <3>3, AcceptedKept
  <2> QED BY <2>1, <2>2
<1>5. best' = NoMapping \/ Own(Here', best') \in accepted'
  BY <1>1, AcceptedKept DEF Tests
<1> QED BY <1>4, <1>5 DEF Tests, Accepted, FinalConfigurationTested, Running

LEMMA TestsReturn ==
    ASSUME TypeInv, Tests, pc = "search", Return, best' = NoMapping \/ Own(Here, best') \in accepted,
           UNCHANGED <<value, held, hw, accepted>>
    PROVE  Tests'
<1>1. /\ frame \in Seq(Frame) /\ Len(frame) >= 1 /\ Len(frame) \in Nat /\ Here' = Here
  BY MeaningFacts, HereKept DEF TypeInv, Shape, Running
<1>2. best' = NoMapping \/ Own(Here', best') \in accepted'
  BY <1>1
<1>3. CASE Depth > 1
  <2>1. frame' = Returned(frame) /\ UNCHANGED <<mapping, pc>>
    BY <1>3 DEF Return, Depth, Returned
  <2>2. Len(frame) > 1 /\ Len(frame) - 1 \in 1 .. Len(frame) - 1
    BY <1>1, <1>3 DEF Depth
  <2>3. frame[Len(frame) - 1].next <= NumLayers + 1
    BY <2>2 DEF TypeInv, Shape, Running
  <2>4. /\ frame' \in Seq(Frame) /\ Len(frame') = Len(frame) - 1
        /\ \A d \in 1 .. Len(frame) - 1 : frame'[d].layer = frame[d].layer
    BY <1>1, <2>1, <2>2, <2>3, ReturnedIs
  <2>5. Len(frame') <= Len(frame)
    BY <1>1, <2>4
  <2>6. \A d \in 1 .. Len(frame') :
           PathLayers(frame', d) = NoMapping \/ Own(Here', PathLayers(frame', d)) \in accepted'
    BY <1>1, <2>4, <2>5, TestsLeft DEF Running
  <2> QED BY <1>2, <2>1, <2>6 DEF Tests, Accepted, FinalConfigurationTested, Running
<1>4. CASE ~(Depth > 1)
  <2>1. pc' = "final"
        /\ mapping' = [p \in Planes |-> IF held'[p] # NULL THEN held'[p] ELSE best'[p]]
    BY <1>4 DEF Return
  <2> QED BY <1>2, <2>1 DEF Tests, Accepted, FinalConfigurationTested, Running
<1> QED BY <1>3, <1>4

\* When the result has been applied, it is what was accepted.
LEMMA TestsFinal ==
    ASSUME TypeInv, Tests, pc = "final",
           \A p \in Planes : Config(req)[p] = Showing(Here, p, mapping[p])
    PROVE  \/ mapping = held
           \/ \E config \in accepted : \A p \in Planes :
                 Config(req)[p] = config[p] \/ PendingElsewhere(p)
<1>1. mapping = [p \in Planes |-> IF held[p] # NULL THEN held[p] ELSE best[p]]
      /\ (best = NoMapping \/ Own(Here, best) \in accepted)
  BY DEF Tests, Accepted
<1>2. held \in Mapping
  BY ApplyRequestAssumption DEF TypeInv, TypeOK
<1>3. CASE best = NoMapping
  <2>1. \A p \in Planes : mapping[p] = held[p]
    BY <1>1, <1>3 DEF NoMapping
  <2>2. mapping \in Mapping
    BY DEF TypeInv, TypeOK
  <2> QED BY <1>2, <2>1, <2>2 DEF Mapping
<1>4. CASE Own(Here, best) \in accepted
  <2>1. ASSUME NEW p \in Planes
        PROVE  Config(req)[p] = Own(Here, best)[p] \/ PendingElsewhere(p)
    <3>1. Own(Here, best)[p] = ShowingOwn(Here, p, best[p]) /\ Here.held = held /\ Here.hw = hw
      BY DEF Own, Here
    <3>2. CASE held[p] # NULL
      <4>1. mapping[p] = held[p] /\ Own(Here, best)[p] = hw[p]
        BY <1>1, <3>1, <3>2 DEF ShowingOwn
      <4>2. Shows(p, held[p]) = Showing(Here, p, held[p])
        BY ShowsIs
      <4> QED BY <3>2, <4>1, <4>2 DEF PendingElsewhere
    <3>3. CASE held[p] = NULL
      BY <1>1, <3>1, <3>3 DEF ShowingOwn
    <3> QED BY <3>2, <3>3
  <2> QED BY <1>4, <2>1
<1> QED BY <1>1, <1>3, <1>4

LEMMA TestsStep == TypeInv /\ CursorInv /\ Meaning /\ Tests /\ [Next]_vars => Tests'
<1> SUFFICES ASSUME TypeInv, CursorInv, Meaning, Tests, [Next]_vars PROVE Tests'
  OBVIOUS
<1>p. /\ NumLayers \in Nat /\ Layers = 1 .. NumLayers /\ NULL = 0
      /\ NumPlanes \in Nat /\ Planes = 1 .. NumPlanes
  BY ApplyRequestAssumption DEF Layers, NULL, Planes
<1>b. best = NoMapping \/ Own(Here, best) \in accepted \/ pc = "client"
  BY DEF Tests, Accepted
<1>1. CASE AppendProp \/ ReuseApplied \/ FinalFails \/ DisableFails \/ TestFails \/ TryFails
  <2>1. /\ pc' \in {pc, "reuse_test", "error"} /\ pc # "client" /\ pc # "ok"
        /\ Running' => Running
        /\ UNCHANGED <<value, held, hw, mapping, accepted, frame, best>>
    BY <1>1 DEF AppendProp, ReuseApplied, FinalFails, DisableFails, TestFails, TryFails,
                LoopOver, Applying, Running, locals
  <2>2. Here' = Here
    BY <2>1, HereKept
  <2> QED BY <2>1, <2>2 DEF Tests, Accepted, FinalConfigurationTested, Running
<1>2. CASE ReuseFails \/ ReuseRejected
  <2>1. /\ pc' = "disable" /\ pc # "client"
        /\ UNCHANGED <<value, held, hw, accepted, best>>
    BY <1>2 DEF ReuseFails, ReuseRejected, StartOver
  <2>2. Here' = Here
    BY <2>1, HereKept
  <2> QED BY <2>1, <2>2 DEF Tests, Accepted, FinalConfigurationTested, Running
<1>3. CASE PlaneDisabled
  <2> DEFINE b == [layer |-> NULL, next |-> 1, cursor |-> Len(req)]
  <2>1. /\ pc = "disable" /\ pc' \in {"disable", "search"}
        /\ pc' = "search" => frame' = << b >>
        /\ UNCHANGED <<value, held, hw, accepted, best>>
    BY <1>3 DEF PlaneDisabled, LoopOver
  <2>2. Here' = Here
    BY <2>1, HereKept
  <2>3. pc' = "search" => \A d \in 1 .. Len(frame') : PathLayers(frame', d) = NoMapping
    <3> SUFFICES ASSUME pc' = "search", NEW d \in 1 .. Len(frame')
                 PROVE  PathLayers(frame', d) = NoMapping
      OBVIOUS
    <3>1. Len(frame') = 1
      BY <2>1
    <3>2. d = 1
      BY <3>1
    <3> QED BY <3>2, FirstPath
  <2> QED BY <2>1, <2>2, <2>3 DEF Tests, Accepted, FinalConfigurationTested, Running
<1>4. CASE FinalApplied
  <2>1. /\ pc = "final" /\ Returns /\ pc' = (IF plane = NumPlanes THEN "ok" ELSE "final")
        /\ UNCHANGED <<value, held, hw, mapping, req, accepted, best>>
    BY <1>4 DEF FinalApplied, LoopOver
  <2>2. Here' = Here
    BY <2>1, HereKept
  <2>3. CASE pc' = "final"
    BY <2>1, <2>2, <2>3 DEF Tests, Accepted, FinalConfigurationTested, Running
  <2>4. CASE pc' = "ok"
    <3>1. \A p \in Planes : Config(req)[p] = Mapped(Here, mapping)[p]
      <4>1. plane = NumPlanes
        BY <2>1, <2>4
      <4>2. /\ LoopAt(Here, req, NumPlanes, Target, prop, Mapped(Here, mapping), Own(Here, NoMapping))
            /\ Progress(Here, NumPlanes, Target, prop, Own(Here, NoMapping)[NumPlanes])
                  = Mapped(Here, mapping)[NumPlanes]
        BY <2>1, <4>1, MappedDone DEF Meaning, Looping
      <4>3. Here \in Situation
        BY MeaningFacts
      <4>4. \A p \in Planes : Conf(Here, req, p) = Mapped(Here, mapping)[p]
        BY <4>2, <4>3, LoopEnds
      <4> QED BY <4>4, ConfIs DEF Config
    <3>2. \A p \in Planes : Config(req)[p] = Showing(Here, p, mapping[p])
      BY <3>1 DEF Mapped
    <3>3. \/ mapping = held
          \/ \E config \in accepted : \A p \in Planes :
                Config(req)[p] = config[p] \/ PendingElsewhere(p)
      BY <2>1, <3>2, TestsFinal
    <3>4. Config(req)' = Config(req) /\ mapping' = mapping /\ held' = held /\ accepted' = accepted
          /\ \A p \in Planes : PendingElsewhere(p)' = PendingElsewhere(p)
      BY <2>1 DEF Config, PlaneConfig, PendingElsewhere, Shows, CrtcOf, OwnLayers
    <3>5. FinalConfigurationTested'
      <4>1. CASE mapping = held
        BY <3>4, <4>1 DEF FinalConfigurationTested
      <4>2. ASSUME NEW config \in accepted, \A p \in Planes :
                      Config(req)[p] = config[p] \/ PendingElsewhere(p)
            PROVE  FinalConfigurationTested'
        <5>1. \A p \in Planes : Config(req)'[p] = config[p] \/ PendingElsewhere(p)'
          BY <3>4, <4>2
        <5>2. config \in accepted'
          BY <3>4
        <5> QED BY <5>1, <5>2 DEF FinalConfigurationTested
      <4> QED BY <3>3, <4>1, <4>2
    <3> QED BY <2>1, <2>2, <2>4, <3>5 DEF Tests, Accepted, Running
  <2> QED BY <2>1, <2>3, <2>4
<1>5. CASE Finished \/ Leave
  <2>1. /\ pc = "search" /\ Return /\ best' \in {best, OnPath(Depth)}
        /\ UNCHANGED <<value, held, hw, accepted>>
    BY <1>5 DEF Finished, Leave
  <2>2. Len(frame) \in 1 .. Len(frame)
    BY <2>1, MeaningFacts DEF TypeInv, Shape, Running
  <2>3. OnPath(Depth) = PathLayers(frame, Len(frame))
    BY DEF OnPath, Depth, PathLayers
  <2>4. Accepted(PathLayers(frame, Len(frame)))
    BY <2>1, <2>2 DEF Tests, Running
  <2>5. best' = NoMapping \/ Own(Here, best') \in accepted
    BY <1>b, <2>1, <2>3, <2>4 DEF Accepted
  <2> QED BY <2>1, <2>5, TestsReturn
<1>6. CASE RuleOut \/ PlaneRejects \/ TestRejects
  <2>1. Running /\ Top.next <= NumLayers + 1 /\ UNCHANGED <<value, held, hw, accepted, best>>
    BY <1>6, <1>p DEF RuleOut, PlaneRejects, TestRejects, TypeInv, Shape, Running, Top
  <2>2. \E r : NextLayer(r)
    BY <1>6 DEF RuleOut, PlaneRejects, TestRejects
  <2> QED BY <2>1, <2>2, TestsNextLayer
<1>7. CASE Skip
  <2>1. /\ pc = "search" /\ pc' = "search" /\ Call(NULL)
        /\ UNCHANGED <<value, held, hw, accepted, best>>
    BY <1>7 DEF Skip
  <2>2. Len(frame) \in 1 .. Len(frame)
    BY <2>1, MeaningFacts DEF TypeInv, Shape, Running
  <2>3. Accepted(PathWith(frame, NULL))
    BY <2>1, <2>2, PathWithNone DEF Tests, Running
  <2>4. PathWith(frame, NULL) = NoMapping \/ Own(Here', PathWith(frame, NULL)) \in accepted'
    BY <2>1, <2>3, HereKept DEF Accepted
  <2>5. NULL \in Layers \union {NULL} /\ accepted \subseteq accepted'
    BY <2>1
  <2> QED BY <2>1, <2>4, <2>5, TestsCall
<1>8. CASE TryLayer \/ Tried
  <2>1. /\ Running /\ pc' \in {"try", "test"} /\ UNCHANGED <<value, held, hw, accepted, best, frame>>
    BY <1>8 DEF TryLayer, Tried, Running, locals
  <2>2. Here' = Here
    BY <2>1, HereKept
  <2> QED BY <2>1, <2>2 DEF Tests, Accepted, FinalConfigurationTested, Running
<1>9. CASE TestAccepts
  <2>1. /\ accepted' = accepted \union {Config(req)} /\ UNCHANGED <<value, held, hw, mapping, req, best>>
        /\ accepted \subseteq accepted'
    BY <1>9 DEF TestAccepts
  <2>2. Here' = Here
    BY <2>1, HereKept
  <2>3. CASE pc = "test"
    <3>1. /\ Call(Top.next) /\ pc' = "search" /\ Top.next \in Layers \union {NULL}
          /\ Len(frame) <= NumPlanes
      BY <1>9, <2>3 DEF TestAccepts, TypeInv, Shape, Top
    <3>2. Len(frame) \in Planes
      BY <1>p, <2>3, <3>1, MeaningFacts DEF TypeInv, Shape, Running
    <3>3. [PathLayers(frame, Len(frame)) EXCEPT ![Len(frame)] = Top.next] = PathWith(frame, Top.next)
      BY <3>2, PathTried
    <3>4. \A p \in Planes : Config(req)[p] = Own(Here, PathWith(frame, Top.next))[p]
      BY <2>3, <3>3, ConfIs DEF Meaning, Config
    <3>5. Config(req) = Own(Here, PathWith(frame, Top.next))
      BY <3>4 DEF Config, Own
    <3>6. Own(Here', PathWith(frame, Top.next)) \in accepted'
      BY <2>1, <2>2, <3>5
    <3> QED BY <2>1, <2>3, <3>1, <3>6, TestsCall
  <2>4. CASE pc = "reuse_test"
    <3>1. pc' = "ok"
      BY <1>9, <2>4 DEF TestAccepts
    <3>2. Config(req)' = Config(req)
      BY <2>1 DEF Config, PlaneConfig
    <3>3. FinalConfigurationTested'
      BY <2>1, <3>2 DEF FinalConfigurationTested
    <3>4. best' = NoMapping \/ Own(Here', best') \in accepted'
      BY <1>b, <2>1, <2>2, <2>4
    <3> QED BY <3>1, <3>3, <3>4 DEF Tests, Accepted, Running
  <2> QED BY <1>9, <2>3, <2>4 DEF TestAccepts, Testing
<1>10. ASSUME NEW l \in Layers, NEW name \in Names, NEW v \in Values[l][name],
              SetProperty(l, name, v)
       PROVE  Tests'
  BY <1>10 DEF SetProperty, Tests, FinalConfigurationTested, Running
<1>11. ASSUME NEW r \in ClientRequests, Apply(r)
       PROVE  Tests'
  <2>1. pc' \in {"disable", "reuse"} /\ best' = NoMapping
    BY <1>11 DEF Apply, StartOver
  <2> QED BY <2>1 DEF Tests, Accepted, FinalConfigurationTested, Running
<1>12. CASE Commit \/ Drop
  BY <1>12 DEF Commit, Drop, Forget, Tests, FinalConfigurationTested, Running
<1>13. CASE UNCHANGED vars
  <2>1. UNCHANGED vars /\ Here' = Here
    BY <1>13, HereKept DEF vars
  <2> QED BY <2>1
      DEF vars, locals, Tests, Accepted, FinalConfigurationTested, Config, PlaneConfig,
          PendingElsewhere, Shows, CrtcOf, OwnLayers, Running
<1> QED
  BY <1>1, <1>2, <1>3, <1>4, <1>5, <1>6, <1>7, <1>8, <1>9, <1>10, <1>11, <1>12, <1>13
     DEF Next, Step, ClientActs, TestInterrupted

\* Each test commit, and the request apply returns, asks for exactly the
\* configuration that apply has in mind, in every property of every plane: nothing
\* is left of a layer rejected halfway, of an abandoned branch of the search, or of
\* the previous mapping (plane_apply, output_choose_layers, reuse_previous_alloc).
THEOREM RequestIsWhatIsMeantHolds == Spec => []RequestIsWhatIsMeant
<1>1. Init => TypeInv /\ CursorInv /\ Meaning
  BY TypeInit, CursorInit, MeaningInit
<1>2. TypeInv /\ CursorInv /\ Meaning /\ [Next]_vars => (TypeInv /\ CursorInv /\ Meaning)'
  BY TypeStep, CursorStep, MeaningStep
<1>3. TypeInv /\ CursorInv /\ Meaning => RequestIsWhatIsMeant
  BY MeaningIs
<1> QED BY <1>1, <1>2, <1>3, PTL DEF Spec

\* What a successful apply leaves in the request was accepted by a test commit of
\* that apply, although it was built again since, or disables the planes; pending
\* changes of other outputs' layers aside (liftoff_output_apply, alloc.c).
THEOREM FinalConfigurationTestedHolds == Spec => []FinalConfigurationTested
<1> DEFINE IInv == TypeInv /\ CursorInv /\ Meaning /\ Tests
<1>1. Init => IInv
  BY TypeInit, CursorInit, MeaningInit, TestsInit
<1>2. IInv /\ [Next]_vars => IInv'
  BY TypeStep, CursorStep, MeaningStep, TestsStep
<1>3. IInv => FinalConfigurationTested
  BY DEF Tests
<1> QED BY <1>1, <1>2, <1>3, PTL DEF Spec
==============================================================================
