--------------------------- MODULE PlaneList_proofs ---------------------------
(***************************************************************************)
(* Proofs about PlaneList: the links of the list stay intact, the planes   *)
(* stay sorted, and the list implements PlaneOrder, for any number of      *)
(* planes of any type and zpos.                                            *)
(***************************************************************************)
EXTENDS PlaneList, Geometry_proofs

-----------------------------------------------------------------------------
(* Sequences                                                               *)

\* The elements of a sequence after an insertion.
LEMMA InsertAtElements ==
    ASSUME NEW S, NEW s \in Seq(S), NEW e \in S, NEW i \in 1 .. Len(s) + 1
    PROVE  /\ InsertAt(s, i, e) \in Seq(S)
           /\ Len(InsertAt(s, i, e)) = Len(s) + 1
           /\ \A j \in 1 .. Len(s) + 1 :
                 InsertAt(s, i, e)[j] =
                    IF j < i THEN s[j] ELSE IF j = i THEN e ELSE s[j - 1]
<1> DEFINE a == SubSeq(s, 1, i - 1)  b == SubSeq(s, i, Len(s))
<1>0. Len(s) \in Nat /\ i \in Int
  OBVIOUS
<1>1. a \in Seq(S) /\ Len(a) = i - 1 /\ \A j \in 1 .. i - 1 : a[j] = s[j]
  OBVIOUS
<1>2. b \in Seq(S) /\ Len(b) = Len(s) + 1 - i
      /\ \A j \in 1 .. Len(s) + 1 - i : b[j] = s[j + i - 1]
  OBVIOUS
<1>3. InsertAt(s, i, e) = (a \o <<e>>) \o b
  BY DEF InsertAt
<1> HIDE DEF a, b
<1>4. /\ a \o <<e>> \in Seq(S) /\ Len(a \o <<e>>) = i
      /\ \A j \in 1 .. i : (a \o <<e>>)[j] = IF j < i THEN s[j] ELSE e
  BY <1>1
<1> DEFINE c == a \o <<e>>
<1>5. InsertAt(s, i, e) = c \o b
  BY <1>3
<1> HIDE DEF c
<1>6. c \in Seq(S) /\ Len(c) = i /\ \A j \in 1 .. i : c[j] = IF j < i THEN s[j] ELSE e
  BY <1>4 DEF c
<1>7. InsertAt(s, i, e) \in Seq(S) /\ Len(InsertAt(s, i, e)) = Len(s) + 1
  <2> c \in Seq(S) /\ b \in Seq(S)
    BY <1>2, <1>6
  <2>1. c \o b \in Seq(S) /\ Len(c \o b) = Len(c) + Len(b)
    OBVIOUS
  <2> QED BY <1>0, <1>2, <1>5, <1>6, <2>1
<1>8. ASSUME NEW j \in 1 .. Len(s) + 1
      PROVE  (c \o b)[j] = IF j < i THEN s[j] ELSE IF j = i THEN e ELSE s[j - 1]
  <2>0. j <= i \/ j > i
    BY <1>0
  <2>1. CASE j <= i
    BY <1>2, <1>6, <2>1
  <2>2. CASE j > i
    <3>1. (c \o b)[j] = b[j - i] /\ j - i \in 1 .. Len(s) + 1 - i
      BY <1>2, <1>6, <2>2
    <3> QED BY <1>2, <2>2, <3>1
  <2> QED BY <2>0, <2>1, <2>2
<1> QED BY <1>5, <1>7, <1>8

\* The elements of a sequence after a removal.
LEMMA RemoveAtElements ==
    ASSUME NEW S, NEW s \in Seq(S), NEW i \in 1 .. Len(s)
    PROVE  /\ RemoveAt(s, i) \in Seq(S)
           /\ Len(RemoveAt(s, i)) = Len(s) - 1
           /\ \A j \in 1 .. Len(s) - 1 :
                 RemoveAt(s, i)[j] = IF j < i THEN s[j] ELSE s[j + 1]
<1> DEFINE a == SubSeq(s, 1, i - 1)  b == SubSeq(s, i + 1, Len(s))
<1>0. Len(s) \in Nat /\ i \in Int
  OBVIOUS
<1>1. a \in Seq(S) /\ Len(a) = i - 1 /\ \A j \in 1 .. i - 1 : a[j] = s[j]
  OBVIOUS
<1>2. b \in Seq(S) /\ Len(b) = Len(s) - i
      /\ \A j \in 1 .. Len(s) - i : b[j] = s[j + i]
  OBVIOUS
<1>3. RemoveAt(s, i) = a \o b
  BY DEF RemoveAt
<1> HIDE DEF a, b
<1>4. RemoveAt(s, i) \in Seq(S) /\ Len(RemoveAt(s, i)) = Len(s) - 1
  BY <1>1, <1>2, <1>3
<1>5. ASSUME NEW j \in 1 .. Len(s) - 1
      PROVE  (a \o b)[j] = IF j < i THEN s[j] ELSE s[j + 1]
  <2>0. j < i \/ j >= i
    BY <1>0
  <2>1. CASE j < i
    BY <1>1, <1>2, <2>1
  <2>2. CASE j >= i
    <3>1. (a \o b)[j] = b[j - (i - 1)] /\ j - (i - 1) \in 1 .. Len(s) - i
      BY <1>1, <1>2, <2>2
    <3> QED BY <1>2, <2>2, <3>1
  <2> QED BY <2>0, <2>1, <2>2
<1> QED BY <1>3, <1>4, <1>5

\* Removing what was inserted gives back the sequence.
LEMMA RemoveInserted ==
    ASSUME NEW S, NEW s \in Seq(S), NEW e \in S, NEW i \in 1 .. Len(s) + 1
    PROVE  RemoveAt(InsertAt(s, i, e), i) = s
<1> DEFINE t == InsertAt(s, i, e)
<1>1. /\ t \in Seq(S) /\ Len(t) = Len(s) + 1
      /\ \A j \in 1 .. Len(s) + 1 :
            t[j] = IF j < i THEN s[j] ELSE IF j = i THEN e ELSE s[j - 1]
  BY InsertAtElements
<1> HIDE DEF t
<1>2. i \in 1 .. Len(t) /\ Len(t) - 1 = Len(s) /\ Len(s) \in Nat
  BY <1>1
<1> DEFINE u == RemoveAt(t, i)
<1>3. /\ u \in Seq(S) /\ Len(u) = Len(t) - 1
      /\ \A j \in 1 .. Len(t) - 1 : u[j] = IF j < i THEN t[j] ELSE t[j + 1]
  BY <1>1, <1>2, RemoveAtElements
<1> HIDE DEF u
<1>4. \A j \in 1 .. Len(s) : u[j] = s[j]
  <2> TAKE j \in 1 .. Len(s)
  <2>1. CASE j < i
    BY <1>1, <1>2, <1>3, <2>1
  <2>2. CASE j >= i
    <3>1. u[j] = t[j + 1] /\ j + 1 \in 1 .. Len(s) + 1 /\ ~(j + 1 < i) /\ j + 1 # i
      BY <1>2, <1>3, <2>2
    <3> QED BY <1>1, <3>1
  <2> QED BY <1>2, <2>1, <2>2
<1>5. u = s
  BY <1>2, <1>3, <1>4
<1> QED BY <1>5 DEF u, t

-----------------------------------------------------------------------------
(* The links                                                               *)

\* What holds of the state whatever the list is used for.
Wired == TypeOK /\ ListIntact

\* Each node has one place.
LEMMA NodesDistinct ==
    ASSUME Wired
    PROVE  /\ Len(order) \in Nat
           /\ NodeAt(0) = HEAD /\ NodeAt(Len(order) + 1) = HEAD
           /\ \A i \in 1 .. Len(order) : NodeAt(i) = order[i] /\ NodeAt(i) \in Ids
           /\ \A i \in 0 .. Len(order) + 1 : NodeAt(i) \in Nodes
           /\ \A i, j \in 0 .. Len(order) : NodeAt(i) = NodeAt(j) => i = j
           /\ \A i, j \in 1 .. Len(order) + 1 : NodeAt(i) = NodeAt(j) => i = j
<1>1. order \in Seq(Ids) /\ \A i, j \in DOMAIN order : order[i] = order[j] => i = j
  BY DEF Wired, TypeOK, ListIntact
<1>2. Len(order) \in Nat /\ DOMAIN order = 1 .. Len(order)
  BY <1>1
<1>3. \A i \in 1 .. Len(order) : NodeAt(i) = order[i] /\ order[i] \in Ids
  BY <1>1, <1>2 DEF NodeAt
<1>4. NodeAt(0) = HEAD /\ NodeAt(Len(order) + 1) = HEAD
  BY <1>2 DEF NodeAt
<1>5. HEAD \notin Ids
  BY DEF HEAD, Ids
<1>6. \A i \in 0 .. Len(order) : i = 0 \/ i \in 1 .. Len(order)
  BY <1>2
<1>7. \A i \in 1 .. Len(order) + 1 : i = Len(order) + 1 \/ i \in 1 .. Len(order)
  BY <1>2
<1>8. \A i, j \in 0 .. Len(order) : NodeAt(i) = NodeAt(j) => i = j
  BY <1>1, <1>2, <1>3, <1>4, <1>5, <1>6
<1>9. \A i, j \in 1 .. Len(order) + 1 : NodeAt(i) = NodeAt(j) => i = j
  BY <1>1, <1>2, <1>3, <1>4, <1>5, <1>7
<1>10. \A i \in 0 .. Len(order) + 1 :
          i = 0 \/ i = Len(order) + 1 \/ i \in 1 .. Len(order)
  BY <1>2
<1>11. \A i \in 0 .. Len(order) + 1 : NodeAt(i) \in Nodes
  BY <1>3, <1>4, <1>10 DEF Nodes
<1> QED BY <1>2, <1>3, <1>4, <1>8, <1>9, <1>11

\* A node is found where it is.
LEMMA PositionOfNode ==
    ASSUME Wired, NEW k \in 0 .. Len(order)
    PROVE  PositionOf(NodeAt(k)) = k
<1>1. CASE k = 0
  BY <1>1, NodesDistinct DEF PositionOf
<1>2. CASE k # 0
  <2>1. k \in 1 .. Len(order) /\ DOMAIN order = 1 .. Len(order)
    BY <1>2, NodesDistinct DEF Wired, TypeOK
  <2>2. NodeAt(k) = order[k] /\ order[k] \in Ids /\ HEAD \notin Ids
    BY <2>1, NodesDistinct DEF HEAD, Ids
  <2>3. \A i \in DOMAIN order : order[i] = order[k] => i = k
    BY <2>1 DEF Wired, ListIntact
  <2>4. PositionOf(NodeAt(k)) = CHOOSE i \in DOMAIN order : order[i] = order[k]
    BY <2>2 DEF PositionOf
  <2> QED BY <2>1, <2>3, <2>4
<1> QED BY <1>1, <1>2

\* The planes in the list are the registered ones.
LEMMA RegisteredNodes ==
    ASSUME Wired
    PROVE  \A id \in Ids : id \in Registered <=> \E i \in 1 .. Len(order) : order[i] = id
<1> TAKE id \in Ids
<1>1. DOMAIN order = 1 .. Len(order)
  BY DEF Wired, TypeOK
<1>2. ASSUME NEW i \in 1 .. Len(order), order[i] = id PROVE id \in Registered
  <2>1. NodeAt(i) = id /\ i \in 0 .. Len(order) /\ i + 1 \in 0 .. Len(order) + 1
    BY <1>2, NodesDistinct
  <2>2. next[id] = NodeAt(i + 1) /\ NodeAt(i + 1) \in Nodes
    BY <2>1, NodesDistinct DEF Wired, ListIntact
  <2>3. NULL \notin Nodes
    BY DEF NULL, Nodes, HEAD, Ids
  <2> QED BY <2>2, <2>3 DEF Registered
<1>3. ASSUME ~\E i \in 1 .. Len(order) : order[i] = id PROVE id \notin Registered
  BY <1>1, <1>3 DEF Wired, ListIntact, Registered
<1> QED BY <1>2, <1>3

\* The order of the planes after an insertion.
LEMMA OrderInserted ==
    ASSUME order \in Seq(Ids), NEW k \in 0 .. Len(order), NEW elm \in Ids,
           order' = InsertAt(order, k + 1, elm)
    PROVE  /\ order' \in Seq(Ids)
           /\ Len(order') = Len(order) + 1
           /\ \A j \in 1 .. Len(order) + 1 :
                 order'[j] = IF j < k + 1 THEN order[j]
                             ELSE IF j = k + 1 THEN elm ELSE order[j - 1]
<1> DEFINE t == InsertAt(order, k + 1, elm)
<1>1. k + 1 \in 1 .. Len(order) + 1
  OBVIOUS
<1>2. /\ t \in Seq(Ids)
      /\ Len(t) = Len(order) + 1
      /\ \A j \in 1 .. Len(order) + 1 :
            t[j] = IF j < k + 1 THEN order[j] ELSE IF j = k + 1 THEN elm ELSE order[j - 1]
  BY <1>1, InsertAtElements
<1> HIDE DEF t
<1>3. order' = t
  BY DEF t
<1> QED BY <1>2, <1>3

\* The order of the planes after a removal.
LEMMA OrderRemoved ==
    ASSUME order \in Seq(Ids), NEW k \in 1 .. Len(order),
           order' = RemoveAt(order, k)
    PROVE  /\ order' \in Seq(Ids)
           /\ Len(order') = Len(order) - 1
           /\ \A j \in 1 .. Len(order) - 1 :
                 order'[j] = IF j < k THEN order[j] ELSE order[j + 1]
<1> DEFINE t == RemoveAt(order, k)
<1>1. /\ t \in Seq(Ids)
      /\ Len(t) = Len(order) - 1
      /\ \A j \in 1 .. Len(order) - 1 : t[j] = IF j < k THEN order[j] ELSE order[j + 1]
  BY RemoveAtElements
<1> HIDE DEF t
<1>2. order' = t
  BY DEF t
<1> QED BY <1>1, <1>2

\* An insertion after the k-th node links the new node there.
LEMMA InsertKeepsList ==
    ASSUME Wired, NEW k \in 0 .. Len(order), NEW elm \in Ids, elm \notin Registered,
           ListInsert(NodeAt(k), elm)
    PROVE  /\ order' = InsertAt(order, k + 1, elm)
           /\ order' \in Seq(Ids)
           /\ next' \in [Nodes -> Nodes \union {NULL}]
           /\ prev' \in [Nodes -> Nodes \union {NULL}]
           /\ ListIntact'
<1> DEFINE n == Len(order)
<1>1. n \in Nat /\ order \in Seq(Ids) /\ k \in Int
  BY NodesDistinct DEF Wired, TypeOK
<1>2. order' = InsertAt(order, k + 1, elm)
  BY PositionOfNode DEF ListInsert
<1>3. k + 1 \in 1 .. n + 1
  BY <1>1
<1>4. /\ order' \in Seq(Ids)
      /\ Len(order') = n + 1
      /\ \A j \in 1 .. n + 1 :
            order'[j] = IF j < k + 1 THEN order[j] ELSE IF j = k + 1 THEN elm ELSE order[j - 1]
  BY <1>1, <1>2, OrderInserted
<1>5. DOMAIN order' = 1 .. n + 1 /\ DOMAIN order = 1 .. n
  BY <1>1, <1>4
<1>6. \A i \in 1 .. n : order[i] # elm
  BY RegisteredNodes
<1>7. elm # HEAD /\ elm \in Nodes
  BY DEF HEAD, Ids, Nodes
<1>8. \A i \in 0 .. n + 1 : NodeAt(i) # elm
  <2> TAKE i \in 0 .. n + 1
  <2>1. i = 0 \/ i = n + 1 \/ i \in 1 .. n
    BY <1>1
  <2> QED BY <1>6, <1>7, <2>1, NodesDistinct
<1>9. \A j \in 0 .. n + 2 :
         NodeAt(j)' = IF j <= k THEN NodeAt(j) ELSE IF j = k + 1 THEN elm ELSE NodeAt(j - 1)
  <2> TAKE j \in 0 .. n + 2
  <2>1. CASE j \in 1 .. k
    BY <1>1, <1>4, <1>5, <2>1 DEF NodeAt
  <2>2. CASE j = k + 1
    BY <1>1, <1>4, <1>5, <2>2 DEF NodeAt
  <2>3. CASE j \in k + 2 .. n + 1
    <3>1. j - 1 \in 1 .. n /\ j \in 1 .. n + 1 /\ ~(j < k + 1) /\ j # k + 1
      BY <1>1, <2>3
    <3>2. NodeAt(j)' = order[j - 1]
      BY <1>4, <1>5, <3>1 DEF NodeAt
    <3> QED BY <1>1, <1>5, <2>3, <3>1, <3>2 DEF NodeAt
  <2>4. CASE j = 0
    BY <1>1, <1>5, <2>4 DEF NodeAt
  <2>5. CASE j = n + 2
    BY <1>1, <1>5, <2>5 DEF NodeAt
  <2> QED BY <1>1, <2>1, <2>2, <2>3, <2>4, <2>5
<1>10. k \in 0 .. n + 1 /\ NodeAt(k) \in Nodes /\ NodeAt(k + 1) \in Nodes
       /\ next[NodeAt(k)] = NodeAt(k + 1)
  BY <1>1, NodesDistinct DEF Wired, ListIntact
<1>11. /\ next \in [Nodes -> Nodes \union {NULL}]
       /\ prev \in [Nodes -> Nodes \union {NULL}]
       /\ next' = [next EXCEPT ![elm] = NodeAt(k + 1), ![NodeAt(k)] = elm]
       /\ prev' = [prev EXCEPT ![elm] = NodeAt(k), ![NodeAt(k + 1)] = elm]
  BY <1>10 DEF Wired, TypeOK, ListInsert
<1>12. \A i \in 0 .. n : next[NodeAt(i)] = NodeAt(i + 1) /\ prev[NodeAt(i + 1)] = NodeAt(i)
  BY DEF Wired, ListIntact
<1>13. next' \in [Nodes -> Nodes \union {NULL}] /\ prev' \in [Nodes -> Nodes \union {NULL}]
  BY <1>7, <1>10, <1>11
<1>14. \A x \in Nodes :
         /\ next'[x] = IF x = NodeAt(k) THEN elm ELSE IF x = elm THEN NodeAt(k + 1) ELSE next[x]
         /\ prev'[x] = IF x = NodeAt(k + 1) THEN elm ELSE IF x = elm THEN NodeAt(k) ELSE prev[x]
  BY <1>7, <1>10, <1>11
<1>15. \A i \in 0 .. n + 1 :
         next'[NodeAt(i)'] = NodeAt(i + 1)' /\ prev'[NodeAt(i + 1)'] = NodeAt(i)'
  <2> TAKE i \in 0 .. n + 1
  <2>1. i \in 0 .. n + 2 /\ i + 1 \in 0 .. n + 2
    BY <1>1
  <2>2. CASE i < k
    <3>1. i \in 0 .. n /\ i + 1 \in 1 .. n + 1 /\ i # k /\ i + 1 # k + 1
          /\ k \in 0 .. n /\ k + 1 \in 1 .. n + 1
      BY <1>1, <2>2
    <3>2. NodeAt(i)' = NodeAt(i) /\ NodeAt(i + 1)' = NodeAt(i + 1)
      BY <1>1, <1>9, <2>1, <2>2
    <3>3. NodeAt(i) # NodeAt(k) /\ NodeAt(i + 1) # NodeAt(k + 1)
      BY <3>1, NodesDistinct
    <3>4. NodeAt(i) \in Nodes /\ NodeAt(i + 1) \in Nodes
          /\ NodeAt(i) # elm /\ NodeAt(i + 1) # elm
      BY <1>8, <3>1, NodesDistinct
    <3> QED BY <1>12, <1>14, <3>1, <3>2, <3>3, <3>4
  <2>3. CASE i = k
    <3>1. NodeAt(i)' = NodeAt(k) /\ NodeAt(i + 1)' = elm
      BY <1>1, <1>9, <2>1, <2>3
    <3> QED BY <1>7, <1>8, <1>10, <1>14, <3>1
  <2>4. CASE i = k + 1
    <3>1. NodeAt(i)' = elm /\ NodeAt(i + 1)' = NodeAt(k + 1)
      BY <1>1, <1>9, <2>1, <2>4
    <3> QED BY <1>7, <1>8, <1>10, <1>14, <3>1
  <2>5. CASE i > k + 1
    <3>1. i - 1 \in 0 .. n /\ i \in 1 .. n + 1 /\ i - 1 # k /\ i # k + 1
          /\ k \in 0 .. n /\ k + 1 \in 1 .. n + 1 /\ (i - 1) + 1 = i
      BY <1>1, <2>5
    <3>2. NodeAt(i)' = NodeAt(i - 1) /\ NodeAt(i + 1)' = NodeAt(i)
      <4>1. ~(i <= k) /\ i # k + 1 /\ ~(i + 1 <= k) /\ i + 1 # k + 1 /\ (i + 1) - 1 = i
        BY <1>1, <2>5
      <4> QED BY <1>9, <2>1, <4>1
    <3>3. NodeAt(i - 1) # NodeAt(k) /\ NodeAt(i) # NodeAt(k + 1)
      BY <3>1, NodesDistinct
    <3>4. NodeAt(i - 1) \in Nodes /\ NodeAt(i) \in Nodes
          /\ NodeAt(i - 1) # elm /\ NodeAt(i) # elm
      BY <1>1, <1>8, <3>1, NodesDistinct
    <3>5. next[NodeAt(i - 1)] = NodeAt(i) /\ prev[NodeAt(i)] = NodeAt(i - 1)
      BY <1>12, <3>1
    <3> QED BY <1>14, <3>2, <3>3, <3>4, <3>5
  <2> QED BY <1>1, <2>2, <2>3, <2>4, <2>5
<1>16. \A i, j \in 1 .. n + 1 : order'[i] = order'[j] => i = j
  <2> SUFFICES ASSUME NEW i \in 1 .. n + 1, NEW j \in 1 .. n + 1, order'[i] = order'[j]
               PROVE  i = j
    OBVIOUS
  <2> DEFINE Old(x) == IF x < k + 1 THEN x ELSE x - 1
  <2>1. \A x \in 1 .. n + 1 : x # k + 1 => Old(x) \in 1 .. n /\ order'[x] = order[Old(x)]
    BY <1>1, <1>4
  <2>2. \A x, y \in 1 .. n + 1 :
           x # k + 1 /\ y # k + 1 /\ Old(x) = Old(y) => x = y
    BY <1>1
  <2>3. order'[k + 1] = elm
    BY <1>1, <1>3, <1>4
  <2> HIDE DEF Old
  <2>4. \A x, y \in 1 .. n : order[x] = order[y] => x = y
    BY <1>5 DEF Wired, ListIntact
  <2> QED BY <1>6, <2>1, <2>2, <2>3, <2>4
<1>17. ASSUME NEW id \in Ids, \A i \in 1 .. n + 1 : order'[i] # id
       PROVE  next'[id] = NULL /\ prev'[id] = NULL
  <2>1. order'[k + 1] = elm
    BY <1>1, <1>3, <1>4
  <2>2. id # elm
    BY <1>3, <1>17, <2>1
  <2>3. ASSUME NEW i \in 1 .. n PROVE order[i] # id
    <3>1. CASE i < k + 1
      BY <1>1, <1>4, <1>17, <3>1
    <3>2. CASE ~(i < k + 1)
      <4>1. i + 1 \in 1 .. n + 1 /\ ~(i + 1 < k + 1) /\ i + 1 # k + 1 /\ (i + 1) - 1 = i
        BY <1>1, <3>2
      <4>2. order'[i + 1] = order[i]
        BY <1>4, <4>1
      <4> QED BY <1>17, <4>1, <4>2
    <3> QED BY <3>1, <3>2
  <2>4. next[id] = NULL /\ prev[id] = NULL
    BY <1>5, <2>3 DEF Wired, ListIntact
  <2>5. id # HEAD /\ id \in Nodes
    BY DEF HEAD, Ids, Nodes
  <2>6. \A i \in 0 .. n + 1 : NodeAt(i) # id
    <3> TAKE i \in 0 .. n + 1
    <3>1. i = 0 \/ i = n + 1 \/ i \in 1 .. n
      BY <1>1
    <3> QED BY <2>3, <2>5, <3>1, NodesDistinct
  <2>7. k + 1 \in 0 .. n + 1
    BY <1>1
  <2> QED BY <1>10, <1>14, <2>2, <2>4, <2>5, <2>6, <2>7
<1>18. ListIntact'
  BY <1>4, <1>5, <1>15, <1>16, <1>17 DEF ListIntact
<1> QED BY <1>2, <1>4, <1>13, <1>18

\* A removal of the k-th node leaves the others linked, and it has no links.
LEMMA RemoveKeepsList ==
    ASSUME Wired, NEW k \in 1 .. Len(order), ListRemove(order[k])
    PROVE  /\ order' = RemoveAt(order, k)
           /\ order' \in Seq(Ids)
           /\ next' \in [Nodes -> Nodes \union {NULL}]
           /\ prev' \in [Nodes -> Nodes \union {NULL}]
           /\ ListIntact'
<1> DEFINE n == Len(order)  elm == order[k]
<1>1. n \in Nat /\ order \in Seq(Ids) /\ k \in Int /\ n >= 1
  BY NodesDistinct DEF Wired, TypeOK
<1>2. /\ NodeAt(k) = elm /\ elm \in Ids /\ elm \in Nodes /\ elm # HEAD
      /\ k \in 0 .. n /\ k - 1 \in 0 .. n /\ k + 1 \in 1 .. n + 1 /\ (k - 1) + 1 = k
  BY <1>1, NodesDistinct DEF Nodes, HEAD, Ids
<1>3. order' = RemoveAt(order, k)
  BY <1>2, PositionOfNode DEF ListRemove
<1>4. /\ order' \in Seq(Ids)
      /\ Len(order') = n - 1
      /\ \A j \in 1 .. n - 1 : order'[j] = IF j < k THEN order[j] ELSE order[j + 1]
  BY <1>1, <1>3, OrderRemoved
<1>5. DOMAIN order' = 1 .. n - 1 /\ DOMAIN order = 1 .. n
  BY <1>1, <1>4
<1>6. \A i, j \in 1 .. n : order[i] = order[j] => i = j
  BY <1>5 DEF Wired, ListIntact
<1>7. \A i \in 0 .. n : next[NodeAt(i)] = NodeAt(i + 1) /\ prev[NodeAt(i + 1)] = NodeAt(i)
  BY DEF Wired, ListIntact
<1>8. next[elm] = NodeAt(k + 1) /\ prev[elm] = NodeAt(k - 1)
  <2>1. next[NodeAt(k)] = NodeAt(k + 1) /\ prev[NodeAt((k - 1) + 1)] = NodeAt(k - 1)
    BY <1>2, <1>7
  <2> QED BY <1>2, <2>1
<1>9. /\ NodeAt(k - 1) \in Nodes /\ NodeAt(k + 1) \in Nodes
      /\ NodeAt(k - 1) # elm /\ NodeAt(k + 1) # elm
  <2>1. k - 1 # k /\ k + 1 # k /\ k \in 1 .. n + 1 /\ k - 1 \in 0 .. n + 1 /\ k + 1 \in 0 .. n + 1
    BY <1>1
  <2> QED BY <1>2, <2>1, NodesDistinct
<1>10. \A j \in 0 .. n : NodeAt(j)' = IF j < k THEN NodeAt(j) ELSE NodeAt(j + 1)
  <2> TAKE j \in 0 .. n
  <2>1. CASE j = 0
    BY <1>1, <1>5, <2>1 DEF NodeAt
  <2>2. CASE j \in 1 .. k - 1
    BY <1>1, <1>4, <1>5, <2>2 DEF NodeAt
  <2>3. CASE j \in k .. n - 1
    <3>1. j \in 1 .. n - 1 /\ j + 1 \in 1 .. n /\ ~(j < k)
      BY <1>1, <2>3
    <3>2. NodeAt(j)' = order[j + 1]
      BY <1>4, <1>5, <3>1 DEF NodeAt
    <3> QED BY <1>5, <3>1, <3>2 DEF NodeAt
  <2>4. CASE j = n
    BY <1>1, <1>5, <2>4 DEF NodeAt
  <2> QED BY <1>1, <2>1, <2>2, <2>3, <2>4
<1>11. /\ next \in [Nodes -> Nodes \union {NULL}]
       /\ prev \in [Nodes -> Nodes \union {NULL}]
       /\ next' = [next EXCEPT ![NodeAt(k - 1)] = NodeAt(k + 1), ![elm] = NULL]
       /\ prev' = [prev EXCEPT ![NodeAt(k + 1)] = NodeAt(k - 1), ![elm] = NULL]
  BY <1>8 DEF Wired, TypeOK, ListRemove
<1>12. next' \in [Nodes -> Nodes \union {NULL}] /\ prev' \in [Nodes -> Nodes \union {NULL}]
  BY <1>2, <1>9, <1>11
<1>13. \A x \in Nodes :
         /\ next'[x] = IF x = elm THEN NULL
                       ELSE IF x = NodeAt(k - 1) THEN NodeAt(k + 1) ELSE next[x]
         /\ prev'[x] = IF x = elm THEN NULL
                       ELSE IF x = NodeAt(k + 1) THEN NodeAt(k - 1) ELSE prev[x]
  BY <1>2, <1>9, <1>11
<1>14. \A i \in 0 .. n - 1 :
         next'[NodeAt(i)'] = NodeAt(i + 1)' /\ prev'[NodeAt(i + 1)'] = NodeAt(i)'
  <2> TAKE i \in 0 .. n - 1
  <2>1. i \in 0 .. n /\ i + 1 \in 0 .. n
    BY <1>1
  <2>2. CASE i < k - 1
    <3>1. /\ i \in 0 .. n /\ i + 1 \in 1 .. n + 1 /\ i + 1 \in 0 .. n + 1 /\ i \in 0 .. n + 1
          /\ i # k - 1 /\ i # k /\ i + 1 # k + 1 /\ i + 1 # k /\ k \in 1 .. n + 1
      BY <1>1, <2>2
    <3>2. NodeAt(i)' = NodeAt(i) /\ NodeAt(i + 1)' = NodeAt(i + 1)
      BY <1>1, <1>10, <2>1, <2>2
    <3>3. /\ NodeAt(i) # NodeAt(k - 1) /\ NodeAt(i) # elm /\ NodeAt(i) \in Nodes
          /\ NodeAt(i + 1) # NodeAt(k + 1) /\ NodeAt(i + 1) # elm /\ NodeAt(i + 1) \in Nodes
      BY <1>2, <3>1, NodesDistinct
    <3> QED BY <1>7, <1>13, <3>1, <3>2, <3>3
  <2>3. CASE i = k - 1
    <3>1. NodeAt(i)' = NodeAt(k - 1) /\ NodeAt(i + 1)' = NodeAt(k + 1)
      <4>1. i < k /\ ~(i + 1 < k) /\ (i + 1) + 1 = k + 1
        BY <1>1, <2>3
      <4> QED BY <1>10, <2>1, <2>3, <4>1
    <3> QED BY <1>9, <1>13, <3>1
  <2>4. CASE i > k - 1
    <3>1. /\ i + 1 \in 0 .. n /\ (i + 1) + 1 \in 1 .. n + 1
          /\ i + 1 \in 0 .. n + 1 /\ (i + 1) + 1 \in 0 .. n + 1
          /\ i + 1 # k - 1 /\ i + 1 # k /\ (i + 1) + 1 # k + 1 /\ (i + 1) + 1 # k
          /\ k \in 1 .. n + 1
      BY <1>1, <2>4
    <3>2. NodeAt(i)' = NodeAt(i + 1) /\ NodeAt(i + 1)' = NodeAt((i + 1) + 1)
      <4>1. ~(i < k) /\ ~(i + 1 < k)
        BY <1>1, <2>4
      <4> QED BY <1>10, <2>1, <4>1
    <3>3. /\ NodeAt(i + 1) # NodeAt(k - 1) /\ NodeAt(i + 1) # elm /\ NodeAt(i + 1) \in Nodes
          /\ NodeAt((i + 1) + 1) # NodeAt(k + 1) /\ NodeAt((i + 1) + 1) # elm
          /\ NodeAt((i + 1) + 1) \in Nodes
      BY <1>2, <3>1, NodesDistinct
    <3> QED BY <1>7, <1>13, <3>1, <3>2, <3>3
  <2> QED BY <1>1, <2>2, <2>3, <2>4
<1>15. \A i, j \in 1 .. n - 1 : order'[i] = order'[j] => i = j
  <2> SUFFICES ASSUME NEW i \in 1 .. n - 1, NEW j \in 1 .. n - 1, order'[i] = order'[j]
               PROVE  i = j
    OBVIOUS
  <2> DEFINE Old(x) == IF x < k THEN x ELSE x + 1
  <2>1. \A x \in 1 .. n - 1 : Old(x) \in 1 .. n /\ order'[x] = order[Old(x)]
    BY <1>1, <1>4
  <2>2. \A x, y \in 1 .. n - 1 : Old(x) = Old(y) => x = y
    BY <1>1
  <2> HIDE DEF Old
  <2> QED BY <1>6, <2>1, <2>2
<1>16. ASSUME NEW id \in Ids, \A i \in 1 .. n - 1 : order'[i] # id
       PROVE  next'[id] = NULL /\ prev'[id] = NULL
  <2>1. CASE id = elm
    BY <1>2, <1>13, <2>1
  <2>2. CASE id # elm
    <3>1. ASSUME NEW i \in 1 .. n PROVE order[i] # id
      <4>1. CASE i < k
        <5>1. i \in 1 .. n - 1
          BY <1>1, <4>1
        <5> QED BY <1>4, <1>16, <4>1, <5>1
      <4>2. CASE i = k
        BY <2>2, <4>2
      <4>3. CASE i > k
        <5>1. i - 1 \in 1 .. n - 1 /\ ~(i - 1 < k) /\ (i - 1) + 1 = i
          BY <1>1, <4>3
        <5>2. order'[i - 1] = order[i]
          BY <1>4, <5>1
        <5> QED BY <1>16, <5>1, <5>2
      <4> QED BY <1>1, <4>1, <4>2, <4>3
    <3>2. next[id] = NULL /\ prev[id] = NULL
      BY <1>5, <3>1 DEF Wired, ListIntact
    <3>3. id # HEAD /\ id \in Nodes
      BY DEF HEAD, Ids, Nodes
    <3>4. \A i \in 0 .. n + 1 : NodeAt(i) # id
      <4> TAKE i \in 0 .. n + 1
      <4>1. i = 0 \/ i = n + 1 \/ i \in 1 .. n
        BY <1>1
      <4> QED BY <3>1, <3>3, <4>1, NodesDistinct
    <3>5. k - 1 \in 0 .. n + 1 /\ k + 1 \in 0 .. n + 1
      BY <1>1
    <3> QED BY <1>13, <2>2, <3>2, <3>3, <3>4, <3>5
  <2> QED BY <2>1, <2>2
<1>17. ListIntact'
  BY <1>1, <1>4, <1>5, <1>14, <1>15, <1>16 DEF ListIntact
<1> QED BY <1>3, <1>4, <1>12, <1>17

\* An inserted plane is registered, and no other one becomes or ceases to be.
LEMMA InsertRegisters ==
    ASSUME Wired, NEW k \in 0 .. Len(order), NEW elm \in Ids, elm \notin Registered,
           ListInsert(NodeAt(k), elm)
    PROVE  \A id \in Ids : id \in Registered' <=> id \in Registered \/ id = elm
<1> TAKE id \in Ids
<1>1. /\ NodeAt(k) \in Nodes /\ next[NodeAt(k)] \in Nodes /\ NULL \notin Nodes
      /\ next \in [Nodes -> Nodes \union {NULL}]
  <2>1. k + 1 \in 0 .. Len(order) + 1 /\ k \in 0 .. Len(order) + 1
    BY NodesDistinct
  <2>2. next[NodeAt(k)] = NodeAt(k + 1)
    BY DEF Wired, ListIntact
  <2>3. NULL \notin Nodes
    BY DEF NULL, Nodes, HEAD, Ids
  <2> QED BY <2>1, <2>2, <2>3, NodesDistinct DEF Wired, TypeOK
<1>2. id \in Nodes /\ elm \in Nodes
  BY DEF Nodes
<1>3. next'[id] = IF id = NodeAt(k) THEN elm
                  ELSE IF id = elm THEN next[NodeAt(k)] ELSE next[id]
  BY <1>1, <1>2 DEF ListInsert
<1>4. id = NodeAt(k) => id \in Registered
  <2>1. next[NodeAt(k)] # NULL
    BY <1>1
  <2> QED BY <2>1 DEF Registered
<1> QED BY <1>1, <1>2, <1>3, <1>4 DEF Registered

-----------------------------------------------------------------------------
(* The order                                                               *)

\* The order of two planes that have the given zpos.
Before(z, a, b) == Primary(a) \/ (~Primary(b) /\ z[a] >= z[b])

AllBefore == \A i, j \in 1 .. Len(order) : i < j => Before(zpos, order[i], order[j])

LEMMA SortedAsBefore ==
    ASSUME order \in Seq(Ids)
    PROVE  PlanesSorted <=> AllBefore
<1>1. DOMAIN Stack = 1 .. Len(order)
  BY DEF Stack
<1>2. \A i \in 1 .. Len(order) :
         Stack[i].type = card.type[order[i]] /\ Stack[i].zpos = zpos[order[i]]
  BY DEF Stack
<1>3. \A i, j \in 1 .. Len(order) :
         Abstract!InOrder(Stack[i], Stack[j]) <=> Before(zpos, order[i], order[j])
  BY <1>2 DEF Abstract!InOrder, Before, Primary
<1> QED BY <1>1, <1>3 DEF PlanesSorted, Abstract!Sorted, AllBefore

\* A plane that has its place between those before and those after it.
LEMMA InsertKeepsOrder ==
    ASSUME Wired, AllBefore, NEW k \in 0 .. Len(order), NEW elm \in Ids,
           order' = InsertAt(order, k + 1, elm),
           card' = card,
           \A i \in 1 .. Len(order) : zpos'[order[i]] = zpos[order[i]],
           \A i \in 1 .. Len(order) : i <= k => Before(zpos', order[i], elm),
           \A i \in 1 .. Len(order) : i > k => Before(zpos', elm, order[i])
    PROVE  AllBefore'
<1> DEFINE n == Len(order)
<1>1. n \in Nat /\ order \in Seq(Ids) /\ k \in Int /\ k + 1 \in 1 .. n + 1
  BY NodesDistinct DEF Wired, TypeOK
<1>2. /\ Len(order') = n + 1
      /\ \A j \in 1 .. n + 1 :
            order'[j] = IF j < k + 1 THEN order[j] ELSE IF j = k + 1 THEN elm ELSE order[j - 1]
  BY <1>1, OrderInserted
<1>3. \A i, j \in 1 .. n : i < j => Before(zpos', order[i], order[j])
  BY DEF AllBefore, Before, Primary
<1> DEFINE Old(x) == IF x < k + 1 THEN x ELSE x - 1
<1>4. \A x \in 1 .. n + 1 : x # k + 1 => Old(x) \in 1 .. n /\ order'[x] = order[Old(x)]
  BY <1>1, <1>2
<1>5. order'[k + 1] = elm
  BY <1>1, <1>2
<1> SUFFICES ASSUME NEW i \in 1 .. n + 1, NEW j \in 1 .. n + 1, i < j
             PROVE  Before(zpos, order[i], order[j])'
  BY <1>2 DEF AllBefore
<1>6. CASE i = k + 1
  <2>1. j # k + 1 /\ Old(j) > k
    BY <1>1, <1>6
  <2> HIDE DEF Old
  <2>2. Before(zpos', elm, order[Old(j)])
    BY <1>4, <2>1
  <2> QED BY <1>4, <1>5, <1>6, <2>1, <2>2 DEF Before, Primary
<1>7. CASE j = k + 1
  <2>1. i # k + 1 /\ Old(i) <= k
    BY <1>1, <1>7
  <2> HIDE DEF Old
  <2>2. Before(zpos', order[Old(i)], elm)
    BY <1>4, <2>1
  <2> QED BY <1>4, <1>5, <1>7, <2>1, <2>2 DEF Before, Primary
<1>8. CASE i # k + 1 /\ j # k + 1
  <2>1. Old(i) < Old(j)
    BY <1>1, <1>8
  <2> HIDE DEF Old
  <2>2. Before(zpos', order[Old(i)], order[Old(j)])
    BY <1>3, <1>4, <1>8, <2>1
  <2> QED BY <1>4, <1>8, <2>2 DEF Before, Primary
<1> QED BY <1>6, <1>7, <1>8

LEMMA RemoveKeepsOrder ==
    ASSUME Wired, AllBefore, NEW k \in 1 .. Len(order),
           order' = RemoveAt(order, k), card' = card, zpos' = zpos
    PROVE  AllBefore'
<1> DEFINE n == Len(order)
<1>1. n \in Nat /\ order \in Seq(Ids) /\ k \in Int
  BY NodesDistinct DEF Wired, TypeOK
<1>2. /\ Len(order') = n - 1
      /\ \A j \in 1 .. n - 1 : order'[j] = IF j < k THEN order[j] ELSE order[j + 1]
  BY <1>1, OrderRemoved
<1> DEFINE Old(x) == IF x < k THEN x ELSE x + 1
<1>3. \A x \in 1 .. n - 1 : Old(x) \in 1 .. n /\ order'[x] = order[Old(x)]
  BY <1>1, <1>2
<1>4. \A x, y \in 1 .. n - 1 : x < y => Old(x) < Old(y)
  BY <1>1
<1> HIDE DEF Old
<1> SUFFICES ASSUME NEW i \in 1 .. n - 1, NEW j \in 1 .. n - 1, i < j
             PROVE  Before(zpos, order[i], order[j])'
  BY <1>2 DEF AllBefore
<1>5. Before(zpos', order[Old(i)], order[Old(j)])
  BY <1>3, <1>4 DEF AllBefore, Before, Primary
<1> QED BY <1>3, <1>5 DEF Before, Primary

-----------------------------------------------------------------------------
(* The inductive invariant                                                 *)

\* The planes before the current one come before the new one.
PlaceFound ==
    \E k \in 1 .. Len(order) + 1 :
        /\ cur = NodeAt(k)
        /\ \A i \in 1 .. k - 1 : Primary(order[i]) \/ zpos[new] < zpos[order[i]]

\* What holds of the loops when they are at the current node.
LoopInv ==
    /\ pc \in {"create", "scan"} => todo # << >>
    /\ pc = "scan" => new \notin Registered /\ ~Primary(new) /\ PlaceFound
    /\ pc = "destroy" => cur = next[HEAD]

\* What the call was to register is registered or still to be done.
AskedInv ==
    /\ pc = "idle" => todo = << >>
    /\ pc \in {"idle", "create", "scan"} /\ result = "ok" =>
          \A id \in asked : id \in Registered \/ \E i \in DOMAIN todo : todo[i] = id

Inv == Wired /\ AllBefore /\ LoopInv /\ AskedInv

LEMMA InvInit == Init => Inv
<1> SUFFICES ASSUME Init PROVE Inv
  OBVIOUS
<1>1. order = << >> /\ Len(order) = 0 /\ DOMAIN order = {} /\ HEAD \notin Ids
  BY DEF Init, HEAD, Ids
<1>2. TypeOK
  <2>1. card \in Card
    BY CardsAssumption DEF Init
  <2>2. zpos \in [Ids -> CInt]
    BY IntMaxAssumption DEF Init, CInt
  <2> QED BY <2>1, <2>2 DEF Init, TypeOK, Nodes
<1>3. ListIntact
  <2>1. NodeAt(0) = HEAD /\ NodeAt(1) = HEAD
    BY <1>1 DEF NodeAt
  <2>2. next[HEAD] = HEAD /\ prev[HEAD] = HEAD
    BY DEF Init, Nodes
  <2>3. \A id \in Ids : next[id] = NULL /\ prev[id] = NULL
    BY <1>1 DEF Init, Nodes
  <2>4. \A i \in 0 .. Len(order) : i = 0 /\ i + 1 = 1
    BY <1>1
  <2> QED BY <1>1, <2>1, <2>2, <2>3, <2>4 DEF ListIntact
<1>4. AllBefore
  BY <1>1 DEF AllBefore
<1>5. LoopInv /\ AskedInv
  BY DEF Init, LoopInv, AskedInv
<1> QED BY <1>2, <1>3, <1>4, <1>5 DEF Inv, Wired

\* The zpos of a plane with a type is an int.
LEMMA ZposRange ==
    ASSUME TypeOK, NEW id \in Ids, card.type[id] # NoProp
    PROVE  ZposOf(id) \in CInt
<1>1. /\ card.type[id] \in Types
      /\ card.zpos[id] \in Nat \union {NoProp}
  BY DEF TypeOK, Card
<1>2. GuessPlaneZpos(id) \in {-1, 0, 1, 2}
  BY <1>1 DEF GuessPlaneZpos, Types
<1>3. {-1, 0, 1, 2} \subseteq CInt
  BY IntMaxAssumption, GuessesAssumption DEF CInt
<1>4. CASE card.zpos[id] = NoProp
  BY <1>2, <1>3, <1>4 DEF ZposOf
<1>5. CASE card.zpos[id] # NoProp
  BY <1>1, <1>5, AsIntRange DEF ZposOf, CInt
<1> QED BY <1>4, <1>5

\* What is left to do without the plane just registered.
LEMMA TodoType ==
    ASSUME TypeOK, todo # << >>
    PROVE  /\ new \in Ids
           /\ Tail(todo) \in Seq(Ids)
           /\ \A i \in DOMAIN todo : i = 1 \/ (i - 1 \in DOMAIN Tail(todo)
                                               /\ Tail(todo)[i - 1] = todo[i])
           /\ todo[1] = new
<1>1. todo \in Seq(Ids)
  BY DEF TypeOK
<1> QED BY <1>1 DEF new

\* A plane that is inserted at its place.
LEMMA InsertStep ==
    ASSUME Inv, todo # << >>, NEW k \in 0 .. Len(order), new \notin Registered,
           ListInsert(NodeAt(k), new), Created, pc \in {"create", "scan"},
           UNCHANGED <<card, cur, asked>>, zpos' \in [Ids -> CInt],
           \A id \in Registered : zpos'[id] = zpos[id],
           \A i \in 1 .. Len(order) : i <= k => Before(zpos', order[i], new),
           \A i \in 1 .. Len(order) : i > k => Before(zpos', new, order[i])
    PROVE  Inv' /\ order' = InsertAt(order, k + 1, new)
<1>1. Wired /\ AllBefore /\ TypeOK /\ new \in Ids
  BY TodoType DEF Inv, Wired
<1>2. /\ order' = InsertAt(order, k + 1, new) /\ order' \in Seq(Ids)
      /\ next' \in [Nodes -> Nodes \union {NULL}]
      /\ prev' \in [Nodes -> Nodes \union {NULL}]
      /\ ListIntact'
  BY <1>1, InsertKeepsList
<1>3. TypeOK'
  BY <1>1, <1>2, TodoType DEF TypeOK, Created
<1>4. AllBefore'
  <2>1. \A i \in 1 .. Len(order) : zpos'[order[i]] = zpos[order[i]]
    BY <1>1, RegisteredNodes, NodesDistinct
  <2> QED BY <1>1, <1>2, <2>1, InsertKeepsOrder
<1>5. \A id \in Ids : id \in Registered' <=> id \in Registered \/ id = new
  BY <1>1, InsertRegisters
<1>6. LoopInv'
  BY DEF LoopInv, Created
<1>7. AskedInv'
  <2>1. pc' = "idle" => todo' = << >>
    BY DEF Created
  <2>2. ASSUME result' = "ok", NEW id \in asked'
        PROVE  id \in Registered' \/ \E i \in DOMAIN todo' : todo'[i] = id
    <3>1. id \in Registered \/ \E i \in DOMAIN todo : todo[i] = id
      BY <2>2 DEF Inv, AskedInv, Created
    <3>2. id \in Ids
      BY <1>1, <2>2 DEF TypeOK
    <3>3. CASE id \in Registered
      BY <1>5, <3>2, <3>3
    <3>4. ASSUME NEW i \in DOMAIN todo, todo[i] = id
          PROVE  id \in Registered' \/ \E j \in DOMAIN todo' : todo'[j] = id
      <4>1. CASE i = 1
        BY <1>1, <1>5, <3>2, <3>4, <4>1, TodoType
      <4>2. CASE i # 1
        BY <1>1, <3>4, <4>2, TodoType DEF Created
      <4> QED BY <4>1, <4>2
    <3> QED BY <3>1, <3>3, <3>4
  <2> QED BY <2>1, <2>2 DEF AskedInv
<1> QED BY <1>2, <1>3, <1>4, <1>6, <1>7 DEF Inv, Wired

\* A plane that is taken out.
LEMMA RemoveStep ==
    ASSUME Inv, NEW k \in 1 .. Len(order), ListRemove(order[k]),
           UNCHANGED <<card, zpos, pc, todo, result>>, cur' \in Nodes, asked' \subseteq Ids
    PROVE  Wired' /\ AllBefore' /\ order' = RemoveAt(order, k)
<1>1. Wired /\ AllBefore /\ TypeOK
  BY DEF Inv, Wired
<1>2. /\ order' = RemoveAt(order, k) /\ order' \in Seq(Ids)
      /\ next' \in [Nodes -> Nodes \union {NULL}]
      /\ prev' \in [Nodes -> Nodes \union {NULL}]
      /\ ListIntact'
  BY <1>1, RemoveKeepsList
<1>3. TypeOK'
  BY <1>1, <1>2 DEF TypeOK
<1>4. AllBefore'
  BY <1>1, <1>2, RemoveKeepsOrder
<1> QED BY <1>2, <1>3, <1>4 DEF Wired

\* A step that leaves the list alone.
LEMMA ListUnchanged ==
    ASSUME Inv, UNCHANGED <<card, list>>, TypeOK',
           \A id \in Registered : zpos'[id] = zpos[id]
    PROVE  Wired' /\ AllBefore' /\ Registered' = Registered
<1>1. Wired /\ AllBefore /\ UNCHANGED <<next, prev, order>>
  BY DEF Inv, list
<1>2. ListIntact'
  BY <1>1 DEF Wired, ListIntact, NodeAt
<1>3. \A i \in 1 .. Len(order) : zpos'[order[i]] = zpos[order[i]]
  BY <1>1, RegisteredNodes, NodesDistinct
<1>4. AllBefore'
  BY <1>1, <1>3 DEF AllBefore, Before, Primary
<1> QED BY <1>1, <1>2, <1>4 DEF Wired, Registered

\* What a step does to the order of the planes that are registered.
Moves ==
    /\ card' = card
    /\ \A id \in Registered : zpos'[id] = zpos[id]
    /\ \/ order' = order
       \/ \E k \in 0 .. Len(order) : \E elm \in Ids : order' = InsertAt(order, k + 1, elm)
       \/ \E k \in 1 .. Len(order) : order' = RemoveAt(order, k)

LEMMA InvNext == Inv /\ [Next]_vars => Inv' /\ Moves
<1> SUFFICES ASSUME Inv, [Next]_vars PROVE Inv' /\ Moves
  OBVIOUS
<1>1. Wired /\ TypeOK /\ ListIntact /\ AllBefore /\ LoopInv /\ AskedInv
  BY DEF Inv, Wired
<1>2. HEAD \in Nodes /\ Ids \subseteq Nodes /\ HEAD \notin Ids /\ NULL \notin Nodes
  BY DEF HEAD, NULL, Nodes, Ids
<1>3. Len(order) \in Nat /\ 0 \in 0 .. Len(order) /\ NodeAt(0) = HEAD
  BY <1>1, NodesDistinct
<1>4. next[HEAD] = NodeAt(1) /\ NodeAt(1) \in Nodes /\ 1 \in 1 .. Len(order) + 1
  <2>1. 1 \in 0 .. Len(order) + 1 /\ 0 + 1 = 1
    BY <1>3
  <2>2. next[NodeAt(0)] = NodeAt(0 + 1)
    BY <1>1, <1>3 DEF ListIntact
  <2> QED BY <1>1, <1>3, <2>1, <2>2, NodesDistinct
<1>5. ASSUME NEW id \in Ids, PlaneCreate(id) PROVE Inv' /\ Moves
  <2>1. TypeOK'
    BY <1>1, <1>5 DEF PlaneCreate, TypeOK, list
  <2>2. Wired' /\ AllBefore' /\ Registered' = Registered
    BY <1>5, <2>1, ListUnchanged DEF PlaneCreate
  <2>3. todo' = <<id>> /\ todo' # << >> /\ DOMAIN todo' = {1} /\ todo'[1] = id
    BY <1>5 DEF PlaneCreate
  <2>4. LoopInv' /\ AskedInv'
    BY <1>5, <2>3 DEF PlaneCreate, LoopInv, AskedInv
  <2> QED BY <1>5, <2>2, <2>4 DEF Inv, Moves, PlaneCreate, list
<1>6. CASE RegisterAllPlanes
  <2>1. /\ todo' \in Seq(Ids) /\ todo' # << >> /\ DOMAIN todo' = Ids
        /\ \A id \in Ids : todo'[id] = id
    <3>1. todo' = [id \in 1 .. NumPlanes |-> id] /\ NumPlanes \in Nat /\ Ids # {}
      BY <1>6, NumPlanesAssumption DEF RegisterAllPlanes, Ids
    <3> QED BY <3>1 DEF Ids
  <2>2. TypeOK'
    BY <1>1, <1>6, <2>1 DEF RegisterAllPlanes, TypeOK, list
  <2>3. Wired' /\ AllBefore' /\ Registered' = Registered
    BY <1>6, <2>2, ListUnchanged DEF RegisterAllPlanes
  <2>4. LoopInv' /\ AskedInv'
    BY <1>6, <2>1 DEF RegisterAllPlanes, LoopInv, AskedInv
  <2> QED BY <1>6, <2>3, <2>4 DEF Inv, Moves, RegisterAllPlanes, list
<1>7. ASSUME NEW id \in Ids, PlaneDestroy(id) PROVE Inv' /\ Moves
  <2> PICK k \in 1 .. Len(order) : order[k] = id
    BY <1>1, <1>7, RegisteredNodes DEF PlaneDestroy
  <2>1. Wired' /\ AllBefore' /\ order' = RemoveAt(order, k)
    BY <1>1, <1>7, RemoveStep DEF PlaneDestroy, TypeOK
  <2>2. LoopInv' /\ AskedInv'
    BY <1>1, <1>7 DEF PlaneDestroy, LoopInv, AskedInv
  <2> QED BY <1>7, <2>1, <2>2 DEF Inv, Moves, PlaneDestroy
<1>8. CASE DeviceDestroy
  <2>1. TypeOK'
    BY <1>1, <1>4, <1>8 DEF DeviceDestroy, TypeOK, list
  <2>2. Wired' /\ AllBefore' /\ Registered' = Registered
    BY <1>8, <2>1, ListUnchanged DEF DeviceDestroy
  <2>3. LoopInv' /\ AskedInv'
    BY <1>8 DEF DeviceDestroy, LoopInv, AskedInv, list
  <2> QED BY <1>8, <2>2, <2>3 DEF Inv, Moves, DeviceDestroy, list
<1>9. CASE CreateFails
  <2>1. TypeOK'
    BY <1>1, <1>9 DEF CreateFails, TypeOK, list
  <2>2. Wired' /\ AllBefore' /\ Registered' = Registered
    BY <1>9, <2>1, ListUnchanged DEF CreateFails
  <2>3. LoopInv' /\ AskedInv'
    BY <1>9 DEF CreateFails, LoopInv, AskedInv
  <2> QED BY <1>9, <2>2, <2>3 DEF Inv, Moves, CreateFails, list
<1>10. CASE CreateStarts
  <2>1. todo # << >> /\ new \in Ids /\ new \notin Registered
    BY <1>1, <1>10, TodoType DEF CreateStarts, LoopInv
  <2>2. zpos' \in [Ids -> CInt] /\ \A id \in Registered : zpos'[id] = zpos[id]
    <3>1. ZposOf(new) \in CInt
      BY <1>1, <1>10, <2>1, ZposRange DEF CreateStarts
    <3> QED BY <1>1, <1>10, <2>1, <3>1 DEF CreateStarts, TypeOK, Registered
  <2>3. CASE Primary(new)
    <3>1. /\ ListInsert(NodeAt(0), new) /\ Created /\ pc = "create"
          /\ UNCHANGED <<card, cur, asked>>
      BY <1>3, <1>10, <2>3 DEF CreateStarts
    <3>2. \A i \in 1 .. Len(order) : ~(i <= 0) /\ Before(zpos', new, order[i])
      BY <1>3, <2>3 DEF Before
    <3>3. Inv' /\ order' = InsertAt(order, 0 + 1, new)
      BY <1>3, <2>1, <2>2, <3>1, <3>2, InsertStep
    <3> QED BY <1>3, <2>1, <2>2, <3>1, <3>3 DEF Moves
  <2>4. CASE ~Primary(new)
    <3>1. /\ pc' = "scan" /\ cur' = next[HEAD] /\ UNCHANGED <<card, list, todo, result, asked>>
          /\ pc = "create"
      BY <1>10, <2>4 DEF CreateStarts
    <3>2. TypeOK'
      BY <1>1, <1>4, <2>2, <3>1 DEF TypeOK, list
    <3>3. Wired' /\ AllBefore' /\ Registered' = Registered
      BY <2>2, <3>1, <3>2, ListUnchanged
    <3>4. LoopInv'
      <4>1. cur' = NodeAt(1)' /\ 1 \in 1 .. Len(order') + 1 /\ 1 .. 1 - 1 = {}
        BY <1>3, <1>4, <3>1 DEF NodeAt, list
      <4>2. PlaceFound'
        BY <4>1 DEF PlaceFound
      <4>3. ~Primary(new)' /\ new' \notin Registered'
        BY <2>1, <2>4, <3>1, <3>3 DEF Primary, new
      <4> QED BY <2>1, <3>1, <4>2, <4>3 DEF LoopInv
    <3>5. AskedInv'
      BY <1>1, <3>1, <3>3 DEF AskedInv
    <3> QED BY <2>2, <3>1, <3>3, <3>4, <3>5 DEF Inv, Moves, list
  <2> QED BY <2>3, <2>4
<1>11. ASSUME pc = "scan"
       PROVE  /\ todo # << >> /\ new \in Ids /\ new \notin Registered /\ ~Primary(new)
              /\ PlaceFound
  BY <1>1, <1>11, TodoType DEF LoopInv
<1>12. CASE ScanOn
  <2>1. PICK k \in 1 .. Len(order) + 1 :
           /\ cur = NodeAt(k)
           /\ \A i \in 1 .. k - 1 : Primary(order[i]) \/ zpos[new] < zpos[order[i]]
    BY <1>11, <1>12 DEF ScanOn, PlaceFound
  <2>2. k \in 1 .. Len(order) /\ cur = order[k] /\ cur \in Ids
    BY <1>1, <1>3, <1>12, <2>1, NodesDistinct DEF ScanOn
  <2>3. k + 1 \in 1 .. Len(order) + 1 /\ k \in 0 .. Len(order) /\ k + 1 \in 0 .. Len(order) + 1
    BY <1>3, <2>2
  <2>4. cur' = NodeAt(k + 1) /\ NodeAt(k + 1) \in Nodes
    BY <1>1, <1>12, <2>1, <2>3, NodesDistinct DEF ScanOn, ListIntact
  <2>5. Primary(order[k]) \/ zpos[new] < zpos[order[k]]
    <3>1. zpos[new] \in CInt /\ zpos[cur] \in CInt
      BY <1>1, <1>11, <1>12, <2>2 DEF TypeOK, ScanOn
    <3>2. zpos[new] \in Int /\ zpos[cur] \in Int
      BY <3>1 DEF CInt
    <3> QED BY <1>12, <2>2, <3>2 DEF ScanOn, FitsBefore
  <2>6. UNCHANGED <<card, next, prev, order, zpos, pc, todo, result, asked>>
    BY <1>12 DEF ScanOn, list
  <2>7. TypeOK'
    BY <1>1, <2>4, <2>6 DEF TypeOK
  <2>8. Wired' /\ AllBefore' /\ Registered' = Registered
    BY <2>6, <2>7, ListUnchanged DEF list
  <2>9. PlaceFound'
    <3>1. \A i \in 1 .. (k + 1) - 1 : Primary(order[i]) \/ zpos[new] < zpos[order[i]]
      <4> TAKE i \in 1 .. (k + 1) - 1
      <4>1. i = k \/ i \in 1 .. k - 1
        BY <2>2
      <4> QED BY <2>1, <2>5, <4>1
    <3>2. cur' = NodeAt(k + 1)'
      BY <2>4, <2>6 DEF NodeAt
    <3> QED BY <2>3, <2>6, <3>1, <3>2 DEF PlaceFound, Primary, new
  <2>10. LoopInv' /\ AskedInv'
    <3>1. new' = new /\ Primary(new)' = Primary(new) /\ pc = "scan"
      BY <1>12, <2>6 DEF Primary, new, ScanOn
    <3>2. LoopInv'
      BY <1>11, <2>6, <2>8, <2>9, <3>1 DEF LoopInv
    <3>3. AskedInv'
      BY <1>1, <2>6, <2>8 DEF AskedInv
    <3> QED BY <3>2, <3>3
  <2> QED BY <2>6, <2>8, <2>10 DEF Inv, Moves
<1>13. CASE InsertBefore
  <2>1. PICK k \in 1 .. Len(order) + 1 :
           /\ cur = NodeAt(k)
           /\ \A i \in 1 .. k - 1 : Primary(order[i]) \/ zpos[new] < zpos[order[i]]
    BY <1>11, <1>13 DEF InsertBefore, PlaceFound
  <2>2. k \in 1 .. Len(order) /\ cur = order[k]
    BY <1>1, <1>3, <1>13, <2>1, NodesDistinct DEF InsertBefore
  <2>3. k - 1 \in 0 .. Len(order) /\ (k - 1) + 1 = k
    BY <1>3, <2>2
  <2>4. prev[cur] = NodeAt(k - 1)
    BY <1>1, <2>1, <2>3 DEF ListIntact
  <2>5. \A i \in 1 .. Len(order) : zpos[order[i]] \in Int
    BY <1>1, NodesDistinct DEF TypeOK, CInt
  <2>6. zpos[new] \in Int /\ ~Primary(new)
    BY <1>1, <1>11, <1>13 DEF TypeOK, CInt, InsertBefore
  <2>7. ~Primary(order[k]) /\ zpos[new] >= zpos[order[k]]
    BY <1>13, <2>2 DEF InsertBefore, FitsBefore
  <2>8. UNCHANGED <<card, zpos, cur, asked>> /\ Created /\ ListInsert(NodeAt(k - 1), new)
    BY <1>13, <2>4 DEF InsertBefore
  <2>9. ASSUME NEW i \in 1 .. Len(order), i <= k - 1
        PROVE  Before(zpos', order[i], new)
    <3>1. i \in 1 .. k - 1
      BY <1>3, <2>2, <2>9
    <3> QED BY <2>1, <2>5, <2>6, <2>8, <3>1 DEF Before
  <2>10. ASSUME NEW i \in 1 .. Len(order), i > k - 1
         PROVE  Before(zpos', new, order[i])
    <3>1. CASE i = k
      BY <2>7, <2>8, <3>1 DEF Before
    <3>2. CASE i # k
      <4>1. k < i
        BY <1>3, <2>2, <2>10, <3>2
      <4>2. Before(zpos, order[k], order[i])
        BY <1>1, <2>2, <4>1 DEF AllBefore
      <4>3. ~Primary(order[i]) /\ zpos[order[k]] >= zpos[order[i]]
        BY <2>7, <4>2 DEF Before
      <4> QED BY <2>2, <2>5, <2>6, <2>7, <2>8, <4>3 DEF Before
    <3> QED BY <3>1, <3>2
  <2>11. zpos' \in [Ids -> CInt] /\ \A id \in Registered : zpos'[id] = zpos[id]
    BY <1>1, <2>8 DEF TypeOK
  <2>12. pc \in {"create", "scan"} /\ todo # << >> /\ new \in Ids /\ new \notin Registered
    BY <1>11, <1>13 DEF InsertBefore
  <2>13. Inv' /\ order' = InsertAt(order, (k - 1) + 1, new)
    BY <2>3, <2>8, <2>9, <2>10, <2>11, <2>12, InsertStep
  <2> QED BY <2>3, <2>8, <2>11, <2>12, <2>13 DEF Moves
<1>14. CASE InsertLast
  <2>1. PICK k \in 1 .. Len(order) + 1 :
           /\ cur = NodeAt(k)
           /\ \A i \in 1 .. k - 1 : Primary(order[i]) \/ zpos[new] < zpos[order[i]]
    BY <1>11, <1>14 DEF InsertLast, PlaceFound
  <2> DEFINE n == Len(order)
  <2>2. k - 1 = n /\ n \in 0 .. n
    <3>1. k \notin 1 .. n
      BY <1>1, <1>2, <1>14, <2>1, NodesDistinct DEF InsertLast
    <3> QED BY <1>3, <3>1
  <2>3. prev[HEAD] = NodeAt(n)
    <3>1. prev[NodeAt(n + 1)] = NodeAt(n)
      BY <1>1, <2>2 DEF ListIntact
    <3> QED BY <1>1, <3>1, NodesDistinct
  <2>4. \A i \in 1 .. n : zpos[order[i]] \in Int
    BY <1>1, NodesDistinct DEF TypeOK, CInt
  <2>5. zpos[new] \in Int
    BY <1>1, <1>11, <1>14 DEF TypeOK, CInt, InsertLast
  <2>6. UNCHANGED <<card, zpos, cur, asked>> /\ Created /\ ListInsert(NodeAt(n), new)
    BY <1>14, <2>3 DEF InsertLast
  <2>7. \A i \in 1 .. n : ~(i > n) /\ Before(zpos', order[i], new)
    <3> TAKE i \in 1 .. n
    <3>1. ~(i > n)
      BY <1>3
    <3>2. ~Primary(new) /\ (Primary(order[i]) \/ zpos[new] < zpos[order[i]])
      BY <1>11, <1>14, <2>1, <2>2 DEF InsertLast
    <3> QED BY <2>4, <2>5, <2>6, <3>1, <3>2 DEF Before
  <2>8. zpos' \in [Ids -> CInt] /\ \A id \in Registered : zpos'[id] = zpos[id]
    BY <1>1, <2>6 DEF TypeOK
  <2>9. pc \in {"create", "scan"} /\ todo # << >> /\ new \in Ids /\ new \notin Registered
    BY <1>11, <1>14 DEF InsertLast
  <2>10. Inv' /\ order' = InsertAt(order, n + 1, new)
    BY <2>2, <2>6, <2>7, <2>8, <2>9, InsertStep
  <2> QED BY <2>2, <2>6, <2>8, <2>9, <2>10 DEF Moves
<1>15. CASE DestroyNext
  <2>1. /\ cur = next[HEAD] /\ cur # HEAD /\ cur' = next[cur] /\ ListRemove(cur)
        /\ UNCHANGED <<card, zpos, pc, todo, result, asked>> /\ pc = "destroy"
    BY <1>1, <1>15 DEF DestroyNext, LoopInv
  <2>2. 1 \in 1 .. Len(order) /\ order[1] = cur
    BY <1>1, <1>3, <1>4, <2>1, NodesDistinct
  <2>3. next[cur] \in Nodes
    <3>1. 1 \in 0 .. Len(order) /\ 1 + 1 \in 0 .. Len(order) + 1
      BY <1>3, <2>2
    <3>2. next[NodeAt(1)] = NodeAt(1 + 1)
      BY <1>1, <3>1 DEF ListIntact
    <3> QED BY <1>1, <1>4, <2>1, <3>1, <3>2, NodesDistinct
  <2>4. Wired' /\ AllBefore' /\ order' = RemoveAt(order, 1)
    BY <1>1, <2>1, <2>2, <2>3, RemoveStep DEF TypeOK
  <2>5. cur' = next'[HEAD]
    <3>1. prev[cur] = HEAD
      <4>1. prev[NodeAt(0 + 1)] = NodeAt(0)
        BY <1>1, <1>3 DEF ListIntact
      <4> QED BY <1>3, <1>4, <2>1, <4>1
    <3> QED BY <1>1, <1>2, <2>1, <3>1 DEF ListRemove, TypeOK
  <2>6. LoopInv' /\ AskedInv'
    BY <2>1, <2>5 DEF LoopInv, AskedInv
  <2> QED BY <2>1, <2>2, <2>4, <2>6 DEF Inv, Moves
<1>16. CASE DeviceDestroyed
  <2>1. TypeOK'
    BY <1>1, <1>16 DEF DeviceDestroyed, TypeOK, list
  <2>2. Wired' /\ AllBefore' /\ Registered' = Registered
    BY <1>16, <2>1, ListUnchanged DEF DeviceDestroyed
  <2>3. LoopInv' /\ AskedInv'
    BY <1>16 DEF DeviceDestroyed, LoopInv, AskedInv
  <2> QED BY <1>16, <2>2, <2>3 DEF Inv, Moves, DeviceDestroyed, list
<1>17. CASE UNCHANGED vars
  <2>1. UNCHANGED <<card, next, prev, order, zpos, pc, todo, cur, result, asked>>
    BY <1>17 DEF vars, list
  <2>2. TypeOK'
    BY <1>1, <2>1 DEF TypeOK
  <2>3. Wired' /\ AllBefore' /\ Registered' = Registered
    BY <2>1, <2>2, ListUnchanged DEF list
  <2>4. LoopInv'
    BY <1>1, <2>1, <2>3 DEF LoopInv, PlaceFound, NodeAt, Primary, new
  <2>5. AskedInv'
    BY <1>1, <2>1, <2>3 DEF AskedInv
  <2> QED BY <2>1, <2>3, <2>4, <2>5 DEF Inv, Moves
<1> QED
  BY <1>5, <1>6, <1>7, <1>8, <1>9, <1>10, <1>12, <1>13, <1>14, <1>15, <1>16, <1>17
  DEF Next, ClientCalls, Step, Gone

-----------------------------------------------------------------------------
(* The results                                                             *)

\* Every variable keeps its type; in particular a zpos is an int, whatever the
\* kernel reports (plane.c:115-125).
THEOREM PlaneListTypeCorrect == Spec => []TypeOK
<1>1. Inv => TypeOK
  BY DEF Inv, Wired
<1> QED BY <1>1, InvInit, InvNext, PTL DEF Spec

\* The links of the list stay intact in both directions.
THEOREM ListIntactHolds == Spec => []ListIntact
<1>1. Inv => ListIntact
  BY DEF Inv, Wired
<1> QED BY <1>1, InvInit, InvNext, PTL DEF Spec

\* The planes stay sorted, for any number of planes of any type and zpos.
THEOREM PlanesSortedHolds == Spec => []PlanesSorted
<1>1. Inv => PlanesSorted
  BY SortedAsBefore DEF Inv, Wired, TypeOK
<1> QED BY <1>1, InvInit, InvNext, PTL DEF Spec

\* A call that returns 0 has registered every plane it was to register.
THEOREM SuccessRegistersAllHolds == Spec => []SuccessRegistersAll
<1>1. Inv => SuccessRegistersAll
  BY DEF Inv, AskedInv, SuccessRegistersAll, Wired, TypeOK
<1> QED BY <1>1, InvInit, InvNext, PTL DEF Spec

\* The entries of the abstract stack.
Entry == [id : Ids, type : Types \union {NoProp}, zpos : CInt]

LEMMA StackType ==
    ASSUME Wired
    PROVE  /\ Stack \in Seq(Entry) /\ Len(Stack) = Len(order)
           /\ DOMAIN Stack = 1 .. Len(order)
           /\ \A i \in 1 .. Len(order) :
                 Stack[i] = [id |-> order[i], type |-> card.type[order[i]],
                             zpos |-> zpos[order[i]]]
<1>1. order \in Seq(Ids) /\ Len(order) \in Nat /\ DOMAIN order = 1 .. Len(order)
  BY DEF Wired, TypeOK
<1>2. \A i \in 1 .. Len(order) :
         [id |-> order[i], type |-> card.type[order[i]], zpos |-> zpos[order[i]]] \in Entry
  <2> TAKE i \in 1 .. Len(order)
  <2>1. order[i] \in Ids
    BY <1>1
  <2>2. card.type[order[i]] \in Types \union {NoProp} /\ zpos[order[i]] \in CInt
    BY <2>1 DEF Wired, TypeOK, Card
  <2> QED BY <2>1, <2>2 DEF Entry
<1>3. Stack = [i \in 1 .. Len(order) |->
                 [id |-> order[i], type |-> card.type[order[i]], zpos |-> zpos[order[i]]]]
  BY <1>1 DEF Stack
<1> QED BY <1>1, <1>2, <1>3

\* The instance has its own copy of the library's operator.
LEMMA SameRemoveAt == \A s, i : Abstract!RemoveAt(s, i) = RemoveAt(s, i)
BY DEF Abstract!RemoveAt, RemoveAt

LEMMA SameSequence ==
    ASSUME NEW T, NEW s \in Seq(T), NEW t \in Seq(T), Len(s) = Len(t),
           \A i \in 1 .. Len(s) : s[i] = t[i]
    PROVE  s = t
<1>1. s = [i \in 1 .. Len(s) |-> s[i]] /\ t = [i \in 1 .. Len(t) |-> t[i]]
  OBVIOUS
<1> QED BY <1>1

\* An insertion registers a plane.
LEMMA InsertIsRegister ==
    ASSUME Inv, Inv', Moves, NEW k \in 0 .. Len(order), NEW elm \in Ids,
           order' = InsertAt(order, k + 1, elm)
    PROVE  Abstract!Register
<1>1. Wired /\ Wired' /\ order \in Seq(Ids)
  BY DEF Inv, Wired, TypeOK
<1> DEFINE n == Len(order)
<1>2. /\ n \in Nat /\ k + 1 \in 1 .. n + 1 /\ Len(order') = n + 1
      /\ \A j \in 1 .. n + 1 :
            order'[j] = IF j < k + 1 THEN order[j] ELSE IF j = k + 1 THEN elm ELSE order[j - 1]
  BY <1>1, OrderInserted
<1>3. /\ Stack \in Seq(Entry) /\ Len(Stack) = n /\ DOMAIN Stack = 1 .. n
      /\ \A i \in 1 .. n : Stack[i] = [id |-> order[i], type |-> card.type[order[i]],
                                       zpos |-> zpos[order[i]]]
  BY <1>1, StackType
<1>4. /\ Stack' \in Seq(Entry) /\ Len(Stack') = n + 1 /\ DOMAIN Stack' = 1 .. n + 1
      /\ \A i \in 1 .. n + 1 : Stack'[i] = [id |-> order'[i], type |-> card'.type[order'[i]],
                                            zpos |-> zpos'[order'[i]]]
  <2>1. (/\ Stack \in Seq(Entry) /\ Len(Stack) = Len(order)
         /\ DOMAIN Stack = 1 .. Len(order)
         /\ \A i \in 1 .. Len(order) :
                 Stack[i] = [id |-> order[i], type |-> card.type[order[i]],
                             zpos |-> zpos[order[i]]])'
    BY <1>1, StackType, PTL
  <2> QED BY <1>2, <2>1
<1>5. card' = card /\ \A i \in 1 .. n : zpos'[order[i]] = zpos[order[i]]
  BY <1>1, RegisteredNodes, NodesDistinct DEF Moves
<1> DEFINE u == RemoveAt(Stack', k + 1)
<1>6. u \in Seq(Entry) /\ Len(u) = n
      /\ \A j \in 1 .. n : u[j] = IF j < k + 1 THEN Stack'[j] ELSE Stack'[j + 1]
  <2> DEFINE t == Stack'
  <2>1. t \in Seq(Entry) /\ Len(t) = n + 1
    BY <1>4
  <2> HIDE DEF t
  <2>2. k + 1 \in 1 .. Len(t) /\ Len(t) - 1 = n
    BY <1>2, <2>1
  <2>3. /\ RemoveAt(t, k + 1) \in Seq(Entry)
        /\ Len(RemoveAt(t, k + 1)) = Len(t) - 1
        /\ \A j \in 1 .. Len(t) - 1 :
              RemoveAt(t, k + 1)[j] = IF j < k + 1 THEN t[j] ELSE t[j + 1]
    BY <2>1, <2>2, RemoveAtElements
  <2> QED BY <2>2, <2>3 DEF t
<1> HIDE DEF u
<1>7. \A j \in 1 .. n : u[j] = Stack[j]
  <2> TAKE j \in 1 .. n
  <2>1. CASE j < k + 1
    <3>1. j \in 1 .. n + 1 /\ order'[j] = order[j]
      BY <1>2, <2>1
    <3>2. u[j] = Stack'[j]
      BY <1>6, <2>1
    <3> QED BY <1>3, <1>4, <1>5, <3>1, <3>2
  <2>2. CASE ~(j < k + 1)
    <3>1. j + 1 \in 1 .. n + 1 /\ ~(j + 1 < k + 1) /\ j + 1 # k + 1 /\ (j + 1) - 1 = j
      BY <1>2, <2>2
    <3>2. order'[j + 1] = order[j]
      BY <1>2, <3>1
    <3>3. u[j] = Stack'[j + 1]
      BY <1>6, <2>2
    <3> QED BY <1>3, <1>4, <1>5, <3>1, <3>2, <3>3
  <2> QED BY <2>1, <2>2
<1>8. u = Stack
  BY <1>3, <1>6, <1>7, SameSequence
<1>9. Abstract!Sorted(Stack')
  <2>1. PlanesSorted'
    BY SortedAsBefore, PTL DEF Inv, Wired, TypeOK
  <2> QED BY <2>1 DEF PlanesSorted
<1>10. Abstract!EachOnce(Stack')
  <2>1. \A i, j \in DOMAIN order' : order'[i] = order'[j] => i = j
    BY <1>1 DEF Wired, ListIntact
  <2>2. DOMAIN order' = 1 .. n + 1
    BY <1>1, <1>2 DEF Wired, TypeOK
  <2> QED BY <1>4, <2>1, <2>2 DEF Abstract!EachOnce
<1>11. RemoveAt(Stack', k + 1) = Stack /\ k + 1 \in DOMAIN Stack'
  BY <1>2, <1>4, <1>8 DEF u
<1>12. \E i \in DOMAIN Stack' : RemoveAt(Stack', i) = Stack
  BY <1>11
<1> QED BY <1>9, <1>10, <1>12, SameRemoveAt DEF Abstract!Register

\* A removal unregisters a plane.
LEMMA RemoveIsUnregister ==
    ASSUME Inv, Inv', Moves, NEW k \in 1 .. Len(order), order' = RemoveAt(order, k)
    PROVE  Abstract!Unregister
<1>1. Wired /\ Wired' /\ order \in Seq(Ids)
  BY DEF Inv, Wired, TypeOK
<1> DEFINE n == Len(order)
<1>2. /\ n \in Nat /\ Len(order') = n - 1
      /\ \A j \in 1 .. n - 1 : order'[j] = IF j < k THEN order[j] ELSE order[j + 1]
  BY <1>1, OrderRemoved
<1>3. /\ Stack \in Seq(Entry) /\ Len(Stack) = n /\ DOMAIN Stack = 1 .. n
      /\ \A i \in 1 .. n : Stack[i] = [id |-> order[i], type |-> card.type[order[i]],
                                       zpos |-> zpos[order[i]]]
  BY <1>1, StackType
<1>4. /\ Stack' \in Seq(Entry) /\ Len(Stack') = n - 1
      /\ \A i \in 1 .. n - 1 : Stack'[i] = [id |-> order'[i], type |-> card'.type[order'[i]],
                                            zpos |-> zpos'[order'[i]]]
  <2>1. (/\ Stack \in Seq(Entry) /\ Len(Stack) = Len(order)
         /\ \A i \in 1 .. Len(order) :
                 Stack[i] = [id |-> order[i], type |-> card.type[order[i]],
                             zpos |-> zpos[order[i]]])'
    BY <1>1, StackType, PTL
  <2> QED BY <1>2, <2>1
<1>5. card' = card /\ \A i \in 1 .. n : zpos'[order[i]] = zpos[order[i]]
  BY <1>1, RegisteredNodes, NodesDistinct DEF Moves
<1> DEFINE u == RemoveAt(Stack, k)
<1>6. u \in Seq(Entry) /\ Len(u) = n - 1
      /\ \A j \in 1 .. n - 1 : u[j] = IF j < k THEN Stack[j] ELSE Stack[j + 1]
  <2> DEFINE t == Stack
  <2>1. t \in Seq(Entry) /\ Len(t) = n
    BY <1>3
  <2> HIDE DEF t
  <2>2. /\ RemoveAt(t, k) \in Seq(Entry)
        /\ Len(RemoveAt(t, k)) = Len(t) - 1
        /\ \A j \in 1 .. Len(t) - 1 : RemoveAt(t, k)[j] = IF j < k THEN t[j] ELSE t[j + 1]
    BY <2>1, RemoveAtElements
  <2> QED BY <2>1, <2>2 DEF t
<1> HIDE DEF u
<1>7. \A j \in 1 .. n - 1 : Stack'[j] = u[j]
  <2> TAKE j \in 1 .. n - 1
  <2> DEFINE m == IF j < k THEN j ELSE j + 1
  <2>1. m \in 1 .. n
    BY <1>2
  <2>2. u[j] = Stack[m] /\ order'[j] = order[m]
    BY <1>2, <1>6
  <2> HIDE DEF m
  <2>3. Stack[m] = [id |-> order[m], type |-> card.type[order[m]], zpos |-> zpos[order[m]]]
    BY <1>3, <2>1
  <2>4. Stack'[j] = [id |-> order[m], type |-> card.type[order[m]],
                     zpos |-> zpos'[order[m]]]
    BY <1>4, <1>5, <2>2
  <2>5. zpos'[order[m]] = zpos[order[m]]
    BY <1>5, <2>1
  <2> QED BY <2>2, <2>3, <2>4, <2>5
<1>8. Stack' = u
  <2> DEFINE t == Stack'
  <2>1. t \in Seq(Entry) /\ u \in Seq(Entry) /\ Len(t) = Len(u)
    BY <1>4, <1>6
  <2>2. \A j \in 1 .. Len(t) : t[j] = u[j]
    BY <1>4, <1>7
  <2> HIDE DEF t
  <2>3. t = u
    BY <2>1, <2>2, SameSequence
  <2> QED BY <2>3 DEF t
<1>9. \E i \in DOMAIN Stack : Stack' = RemoveAt(Stack, i)
  BY <1>3, <1>8 DEF u
<1> QED BY <1>9, SameRemoveAt DEF Abstract!Unregister

\* Each step of the list registers a plane, unregisters one, or leaves all the
\* registered planes where they are (liftoff_plane_create,
\* liftoff_plane_destroy, liftoff_device_register_all_planes and
\* liftoff_device_destroy).
THEOREM ListImplementsPlaneOrder == Spec => ImplementsPlaneOrder
<1>1. Init => Abstract!Init
  BY DEF Init, Abstract!Init, Stack
<1>2. Inv /\ [Next]_vars => [Abstract!Next]_Stack
  <2> SUFFICES ASSUME Inv, [Next]_vars PROVE [Abstract!Next]_Stack
    OBVIOUS
  <2>1. Inv' /\ Moves
    BY InvNext
  <2>2. CASE order' = order
    <3>1. Wired /\ DOMAIN order = 1 .. Len(order)
      BY DEF Inv, Wired, TypeOK
    <3>2. \A i \in DOMAIN order : zpos'[order[i]] = zpos[order[i]]
      BY <2>1, <3>1, RegisteredNodes, NodesDistinct DEF Moves
    <3>3. Stack' = Stack
      BY <2>1, <2>2, <3>2 DEF Moves, Stack
    <3> QED BY <3>3
  <2>3. ASSUME NEW k \in 0 .. Len(order), NEW elm \in Ids, order' = InsertAt(order, k + 1, elm)
        PROVE  Abstract!Next
    BY <2>1, <2>3, InsertIsRegister DEF Abstract!Next
  <2>4. ASSUME NEW k \in 1 .. Len(order), order' = RemoveAt(order, k)
        PROVE  Abstract!Next
    BY <2>1, <2>4, RemoveIsUnregister DEF Abstract!Next
  <2> QED BY <2>1, <2>2, <2>3, <2>4 DEF Moves
<1>3. Inv /\ [Next]_vars => Inv'
  BY InvNext
<1> QED BY <1>1, <1>2, <1>3, InvInit, PTL DEF Spec, ImplementsPlaneOrder, Abstract!Spec
=============================================================================
