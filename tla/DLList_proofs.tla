---------------------------- MODULE DLList_proofs ----------------------------
(***************************************************************************)
(* Proofs about the lists of dllist.c, for any lists, items and data.  The *)
(* inductive invariant adds to the checked ones what the loops know while  *)
(* they run: how far the activity has come, which part of a list is copied *)
(* already, and which two items may share their data.                      *)
(***************************************************************************)
EXTENDS DLList, SequenceLemmas, FiniteSetTheorems

Pointer == Node \cup {Null}
Heap == [Node -> [data : Data \cup {Null}, next : Pointer, prev : Pointer]]

TypeOK ==
    /\ exists \subseteq List
    /\ list \in [List -> [first : Pointer, last : Pointer, active : Pointer]]
    /\ node \in Heap
    /\ allocated \subseteq Node
    /\ chain \in [List -> Seq(Node)]

\* What the operations without a loop keep
Shape == TypeOK /\ LinksAgree /\ ItemsOwnedOnce

\* The activity is at the k-th item, or has run out behind the last one.
ActiveAt(l, k) ==
    \/ k \in DOMAIN chain[l] /\ list[l].active = chain[l][k]
    \/ k = Len(chain[l]) + 1 /\ list[l].active = Null

SameData(l, j, m, k) == node[chain[l][j]].data = node[chain[m][k]].data

Loops == {"idle", "length", "free", "copy", "insert", "advance", "copied", "drain"}

Steps == [op : Loops, src : List \cup {Null}, dst : List \cup {Null}, n : Nat]

(* What the loops know: counting counts the items behind it, freeing and   *)
(* draining work on the first item, and copying has copied the items       *)
(* before the active one, or with it.                                      *)
LoopsOnTheirWay ==
    /\ pc \in Steps
    /\ pc.op = "idle" => pc = Idle
    /\ pc.op # "idle" => pc.src \in exists
    /\ pc.op = "length" => ActiveAt(pc.src, pc.n + 1)
    /\ pc.op \in {"free", "drain"} => list[pc.src].active = list[pc.src].first
    /\ pc.op = "copy" \/ Moving => pc.dst \in exists \ {pc.src}
    /\ pc.op = "copy" => chain[pc.dst] = << >>
    /\ pc.op = "insert" => ActiveAt(pc.src, Len(chain[pc.dst]) + 1)
    /\ pc.op = "advance" => /\ Len(chain[pc.dst]) \in DOMAIN chain[pc.src]
                            /\ list[pc.src].active = chain[pc.src][Len(chain[pc.dst])]

(* Two items share their data only if one is the copy of the other.        *)
DataSharedByCopies ==
    /\ pc.op \in {"insert", "advance"} =>
          \A k \in DOMAIN chain[pc.dst] : SameData(pc.dst, k, pc.src, k)
    /\ pc.op \in {"copied", "drain"} =>
          \A j \in DOMAIN chain[pc.src] : \E k \in DOMAIN chain[pc.dst] :
              SameData(pc.src, j, pc.dst, k)
    /\ \A n, m \in allocated : node[n].data = node[m].data =>
          \/ n = m
          \/ Moving /\ \/ n \in ToSet(chain[pc.src]) /\ m \in ToSet(chain[pc.dst])
                       \/ m \in ToSet(chain[pc.src]) /\ n \in ToSet(chain[pc.dst])
    /\ alive = {node[n].data : n \in allocated}
    /\ alive \subseteq Data

IInv == Shape /\ LoopsOnTheirWay /\ DataSharedByCopies

USE NullAssumption
-----------------------------------------------------------------------------
(* The order of a list as pointers: every item points to its neighbours.   *)
Once(c) == \A j, k \in 1 .. Len(c) : c[j] = c[k] => j = k
Joined(c, heap) ==
    \A k \in 1 .. Len(c) :
        /\ heap[c[k]].next = IF k = Len(c) THEN Null ELSE c[k + 1]
        /\ heap[c[k]].prev = IF k = 1 THEN Null ELSE c[k - 1]

(* The items of a list are on the heap, each at one place of one list.     *)
LEMMA ItemsOfList ==
    ASSUME Shape, NEW l \in List
    PROVE  /\ chain[l] \in Seq(Node) /\ Len(chain[l]) \in Nat
           /\ DOMAIN chain[l] = 1 .. Len(chain[l])
           /\ \A k \in 1 .. Len(chain[l]) : chain[l][k] \in Node /\ chain[l][k] \in allocated
           /\ Once(chain[l])
           /\ ToSet(chain[l]) = {chain[l][k] : k \in 1 .. Len(chain[l])}
<1>1. /\ chain[l] \in Seq(Node) /\ Len(chain[l]) \in Nat
      /\ DOMAIN chain[l] = 1 .. Len(chain[l])
  BY LenProperties DEF Shape, TypeOK
<1>2. ToSet(chain[l]) = {chain[l][k] : k \in 1 .. Len(chain[l])}
  BY <1>1, ToSetOfSeq
<1>3. ASSUME NEW k \in 1 .. Len(chain[l]) PROVE chain[l][k] \in allocated
  <2>1. l \in exists
    BY <1>1 DEF Shape, ItemsOwnedOnce
  <2> QED BY <2>1, <1>2 DEF Shape, ItemsOwnedOnce
<1>4. \A k \in 1 .. Len(chain[l]) : chain[l][k] \in Node
  BY <1>3 DEF Shape, TypeOK
<1>5. \A j, k \in 1 .. Len(chain[l]) : chain[l][j] = chain[l][k] => j = k
  BY <1>1 DEF Shape, ItemsOwnedOnce
<1> QED BY <1>1, <1>2, <1>3, <1>4, <1>5 DEF Once

LEMMA ListsDoNotShare ==
    ASSUME Shape, NEW l \in List, NEW m \in List, l # m,
           NEW j \in 1 .. Len(chain[l]), NEW k \in 1 .. Len(chain[m])
    PROVE  chain[l][j] # chain[m][k]
<1>1. j \in DOMAIN chain[l] /\ k \in DOMAIN chain[m]
  BY ItemsOfList
<1> QED BY <1>1 DEF Shape, ItemsOwnedOnce

(* Every item on the heap can be found in a list.                          *)
LEMMA AllocatedIsListed ==
    ASSUME Shape, NEW n \in allocated
    PROVE  \E l \in exists : \E k \in 1 .. Len(chain[l]) : n = chain[l][k]
<1>1. PICK l \in exists : n \in ToSet(chain[l])
  BY DEF Shape, ItemsOwnedOnce
<1>2. l \in List
  BY DEF Shape, TypeOK
<1> QED BY <1>1, <1>2, ItemsOfList

(* LinksAgree, place by place *)
Linked(l) ==
    /\ list[l].first = IF Len(chain[l]) = 0 THEN Null ELSE chain[l][1]
    /\ list[l].last = IF Len(chain[l]) = 0 THEN Null ELSE chain[l][Len(chain[l])]
    /\ list[l].active = Null \/ \E k \in 1 .. Len(chain[l]) : list[l].active = chain[l][k]
    /\ Joined(chain[l], node)

AllLinked == \A l \in List : Linked(l)

LEMMA LinksByPlace == TypeOK => (LinksAgree <=> AllLinked)
<1> SUFFICES ASSUME TypeOK, NEW l \in List
             PROVE  Linked(l) <=>
                    /\ list[l].first = ItemOf(l, 1)
                    /\ list[l].last = ItemOf(l, Len(chain[l]))
                    /\ list[l].active \in ToSet(chain[l]) \cup {Null}
                    /\ \A k \in DOMAIN chain[l] : /\ node[chain[l][k]].next = ItemOf(l, k + 1)
                                                  /\ node[chain[l][k]].prev = ItemOf(l, k - 1)
  BY DEF LinksAgree, AllLinked
<1>1. /\ chain[l] \in Seq(Node) /\ Len(chain[l]) \in Nat /\ DOMAIN chain[l] = 1 .. Len(chain[l])
      /\ ToSet(chain[l]) = {chain[l][k] : k \in 1 .. Len(chain[l])}
  BY LenProperties, ToSetOfSeq DEF TypeOK
<1>2. /\ ItemOf(l, 1) = IF Len(chain[l]) = 0 THEN Null ELSE chain[l][1]
      /\ ItemOf(l, Len(chain[l])) = IF Len(chain[l]) = 0 THEN Null ELSE chain[l][Len(chain[l])]
  BY <1>1 DEF ItemOf
<1>3. list[l].active \in ToSet(chain[l]) \cup {Null} <=>
      list[l].active = Null \/ \E k \in 1 .. Len(chain[l]) : list[l].active = chain[l][k]
  BY <1>1
<1>4. \A k \in 1 .. Len(chain[l]) :
         /\ ItemOf(l, k + 1) = IF k = Len(chain[l]) THEN Null ELSE chain[l][k + 1]
         /\ ItemOf(l, k - 1) = IF k = 1 THEN Null ELSE chain[l][k - 1]
  BY <1>1 DEF ItemOf
<1>5. Joined(chain[l], node) <=>
      \A k \in DOMAIN chain[l] : /\ node[chain[l][k]].next = ItemOf(l, k + 1)
                                /\ node[chain[l][k]].prev = ItemOf(l, k - 1)
  BY <1>1, <1>4 DEF Joined
<1> QED BY <1>2, <1>3, <1>5 DEF Linked

-----------------------------------------------------------------------------
(* An insertion. The two neighbours of the place get the new item.         *)
Spliced(heap, new, n, x, before, after) ==
    \A m \in Node :
        /\ new[m].data = IF m = n THEN x ELSE heap[m].data
        /\ new[m].next = IF m = n THEN after ELSE IF m = before THEN n ELSE heap[m].next
        /\ new[m].prev = IF m = n THEN before ELSE IF m = after THEN n ELSE heap[m].prev

LEMMA PointersAfterLink ==
    ASSUME Shape, NEW l \in List, NEW n, NEW x \in Data, NEW order,
           NEW before \in allocated \cup {Null}, NEW after \in allocated \cup {Null},
           Link(l, n, x, before, after, order)
    PROVE  /\ n \in Node /\ n \notin allocated /\ n # Null /\ n # before /\ n # after
           /\ node' \in Heap
           /\ Spliced(node, node', n, x, before, after)
<1>1. /\ n \in Node /\ n \notin allocated /\ n # Null /\ n # before /\ n # after
      /\ before \in Pointer /\ after \in Pointer
  BY DEF Link, Shape, TypeOK, Pointer
<1> DEFINE h1 == [node EXCEPT ![n] = [data |-> x, next |-> after, prev |-> before]]
           h2 == SetNext(h1, before, n)
<1>2. /\ h1 \in Heap
      /\ \A m \in Node : h1[m] = IF m = n THEN [data |-> x, next |-> after, prev |-> before] ELSE node[m]
  BY <1>1 DEF Shape, TypeOK, Pointer, Heap
<1> HIDE DEF h1
<1>3. /\ h2 \in Heap
      /\ \A m \in Node : /\ h2[m].data = h1[m].data /\ h2[m].prev = h1[m].prev
                         /\ h2[m].next = IF m = before THEN n ELSE h1[m].next
  BY <1>1, <1>2 DEF SetNext, Pointer, Heap
<1> HIDE DEF h2
<1>4. /\ SetPrev(h2, after, n) \in Heap
      /\ \A m \in Node : /\ SetPrev(h2, after, n)[m].data = h2[m].data
                         /\ SetPrev(h2, after, n)[m].next = h2[m].next
                         /\ SetPrev(h2, after, n)[m].prev = IF m = after THEN n ELSE h2[m].prev
  BY <1>1, <1>3 DEF SetPrev, Pointer, Heap
<1>5. node' = SetPrev(h2, after, n)
  BY DEF Link, h1, h2
<1> QED BY <1>1, <1>2, <1>3, <1>4, <1>5 DEF Spliced

LEMMA JoinedAfterInsert ==
    ASSUME NEW c \in Seq(Node), Once(c), NEW heap, Joined(c, heap), NEW i \in 1 .. Len(c) + 1,
           NEW n \in Node, \A k \in 1 .. Len(c) : c[k] # n,
           NEW before, before = IF i = 1 THEN Null ELSE c[i - 1],
           NEW after, after = IF i = Len(c) + 1 THEN Null ELSE c[i],
           NEW x, NEW new, Spliced(heap, new, n, x, before, after), NEW d, d = InsertAt(c, i, n)
    PROVE  Joined(d, new) /\ Once(d)
<1>1. /\ Len(c) \in Nat
      /\ \A k \in 1 .. Len(c) : c[k] \in Node /\ c[k] # Null /\ c[k] # n
  BY LenProperties, ElementOfSeq
<1>d. /\ d \in Seq(Node)
      /\ Len(d) = Len(c) + 1
      /\ \A k \in 1 .. Len(c) + 1 : d[k] = IF k < i THEN c[k] ELSE IF k = i THEN n ELSE c[k - 1]
  <2>1. InsertedAt(Node, c, i, n, d) BY InsertAtProperties
  <2> QED BY <2>1 DEF InsertedAt
<1>s. \A m \in Node :
         /\ new[m].next = IF m = n THEN after ELSE IF m = before THEN n ELSE heap[m].next
         /\ new[m].prev = IF m = n THEN before ELSE IF m = after THEN n ELSE heap[m].prev
  BY DEF Spliced
<1>2. \A j, k \in 1 .. Len(c) : c[j] = c[k] => j = k
  BY DEF Once
<1>3. Once(d)
  <2> SUFFICES ASSUME NEW j \in 1 .. Len(c) + 1, NEW k \in 1 .. Len(c) + 1, d[j] = d[k]
               PROVE  j = k
    BY <1>d DEF Once
  <2>0. d[i] = n /\ \A q \in 1 .. Len(c) + 1 : q # i => d[q] # n
    <3> SUFFICES ASSUME NEW q \in 1 .. Len(c) + 1, q # i PROVE d[q] # n
      BY <1>1, <1>d
    <3>1. CASE q < i BY <3>1, <1>1, <1>d
    <3>2. CASE q > i BY <3>2, <1>1, <1>d
    <3> QED BY <3>1, <3>2, <1>1
  <2>1. CASE j = i \/ k = i
    BY <2>0, <2>1
  <2>2. CASE j # i /\ k # i
    <3> DEFINE J == IF j < i THEN j ELSE j - 1
               K == IF k < i THEN k ELSE k - 1
    <3>1. J \in 1 .. Len(c) /\ K \in 1 .. Len(c) /\ d[j] = c[J] /\ d[k] = c[K]
      BY <2>2, <1>1, <1>d
    <3> HIDE DEF J, K
    <3>2. J = K
      BY <3>1, <1>2
    <3> QED BY <2>2, <3>2, <1>1, <1>d DEF J, K
  <2> QED BY <2>1, <2>2
<1>4. ASSUME NEW k \in 1 .. Len(c) + 1
      PROVE  /\ new[d[k]].next = IF k = Len(c) + 1 THEN Null ELSE d[k + 1]
             /\ new[d[k]].prev = IF k = 1 THEN Null ELSE d[k - 1]
  <2>1. \A j \in 1 .. Len(c) : /\ heap[c[j]].next = IF j = Len(c) THEN Null ELSE c[j + 1]
                               /\ heap[c[j]].prev = IF j = 1 THEN Null ELSE c[j - 1]
    BY DEF Joined
  <2>2. CASE k < i
    <3>1. k \in 1 .. Len(c) /\ d[k] = c[k] /\ d[k] # n /\ d[k] \in Node
      BY <2>2, <1>1, <1>d
    <3>2. d[k] = before <=> k = i - 1
      BY <2>2, <3>1, <1>1, <1>d, <1>2
    <3>3. d[k] # after
      BY <2>2, <3>1, <1>1, <1>d, <1>2
    <3>4. /\ new[d[k]].next = IF k = i - 1 THEN n ELSE heap[c[k]].next
          /\ new[d[k]].prev = heap[c[k]].prev
      BY <3>1, <3>2, <3>3, <1>s
    <3>5. d[k + 1] = IF k = i - 1 THEN n ELSE c[k + 1]
      BY <2>2, <1>1, <1>d
    <3>6. k > 1 => d[k - 1] = c[k - 1]
      BY <2>2, <1>1, <1>d
    <3> QED BY <2>1, <2>2, <3>1, <3>4, <3>5, <3>6, <1>1, <1>d
  <2>3. CASE k = i
    <3>1. d[k] = n BY <2>3, <1>d
    <3>2. new[n].next = after /\ new[n].prev = before BY <1>s
    <3>3. k <= Len(c) => d[k + 1] = c[k]
      BY <2>3, <1>1, <1>d
    <3>4. k > 1 => d[k - 1] = c[k - 1]
      BY <2>3, <1>1, <1>d
    <3> QED BY <2>3, <3>1, <3>2, <3>3, <3>4, <1>1, <1>d
  <2>4. CASE k > i
    <3>1. k - 1 \in 1 .. Len(c) /\ d[k] = c[k - 1] /\ d[k] # n /\ d[k] \in Node
      BY <2>4, <1>1, <1>d
    <3>2. d[k] # before
      BY <2>4, <3>1, <1>1, <1>d, <1>2
    <3>3. d[k] = after <=> k - 1 = i
      BY <2>4, <3>1, <1>1, <1>d, <1>2
    <3>4. /\ new[d[k]].next = heap[c[k - 1]].next
          /\ new[d[k]].prev = IF k - 1 = i THEN n ELSE heap[c[k - 1]].prev
      BY <3>1, <3>2, <3>3, <1>s
    <3>5. k <= Len(c) => d[k + 1] = c[k]
      <4>1. (k + 1) - 1 = k BY <1>1
      <4> QED BY <2>4, <4>1, <1>1, <1>d
    <3>6. d[k - 1] = IF k - 1 = i THEN n ELSE c[k - 2]
      BY <2>4, <1>1, <1>d
    <3>7. /\ heap[c[k - 1]].next = IF k - 1 = Len(c) THEN Null ELSE c[(k - 1) + 1]
          /\ heap[c[k - 1]].prev = IF k - 1 = 1 THEN Null ELSE c[(k - 1) - 1]
      BY <2>1, <3>1
    <3>8. (k - 1) + 1 = k /\ (k - 1) - 1 = k - 2 /\ (k - 1 = 1 => k - 1 = i) /\ k # 1
      BY <2>4, <1>1
    <3> QED BY <3>4, <3>5, <3>6, <3>7, <3>8, <1>1
  <2> QED BY <2>2, <2>3, <2>4, <1>1, <1>d
<1> QED BY <1>d, <1>3, <1>4 DEF Joined

LEMMA LinkPreserves ==
    ASSUME Shape, NEW l \in exists, NEW n, NEW x \in Data,
           NEW c, c = chain[l], NEW i \in 1 .. Len(c) + 1, NEW d, d = InsertAt(c, i, n),
           NEW before, before = IF i = 1 THEN Null ELSE c[i - 1],
           NEW after, after = IF i = Len(c) + 1 THEN Null ELSE c[i],
           Link(l, n, x, before, after, d)
    PROVE  Shape'
<1>0. l \in List /\ exists' = exists
  BY DEF Shape, TypeOK, Link
<1>1. /\ c \in Seq(Node) /\ Len(c) \in Nat /\ Once(c)
      /\ \A k \in 1 .. Len(c) : c[k] \in Node /\ c[k] \in allocated /\ c[k] # Null
  BY <1>0, ItemsOfList
<1>2. before \in allocated \cup {Null} /\ after \in allocated \cup {Null}
  BY <1>1
<1>3. before \in Pointer /\ after \in Pointer
  BY <1>2 DEF Shape, TypeOK, Pointer
<1>4. /\ n \in Node /\ n \notin allocated /\ n # Null /\ n # before /\ n # after
      /\ node' \in Heap
      /\ Spliced(node, node', n, x, before, after)
  BY <1>0, <1>2, <1>3, PointersAfterLink
<1>5. /\ d \in Seq(Node)
      /\ Len(d) = Len(c) + 1
      /\ \A k \in 1 .. Len(c) + 1 : d[k] = IF k < i THEN c[k] ELSE IF k = i THEN n ELSE c[k - 1]
  <2>1. InsertedAt(Node, c, i, n, d) BY <1>1, <1>4, InsertAtProperties
  <2> QED BY <2>1 DEF InsertedAt
<1>6. ToSet(d) = ToSet(c) \cup {n} /\ DOMAIN d = 1 .. Len(c) + 1
  BY <1>1, <1>4, <1>5, ToSetOfInsertAt, LenProperties
<1>7. /\ chain' = [chain EXCEPT ![l] = d] /\ chain'[l] = d
      /\ \A m \in List \ {l} : chain'[m] = chain[m]
  BY <1>0 DEF Link, Shape, TypeOK
<1>8. AllLinked
  BY LinksByPlace DEF Shape
<1>9. Joined(d, node') /\ Once(d)
  <2>1. Joined(c, node)
    BY <1>0, <1>8 DEF AllLinked, Linked
  <2>2. \A k \in 1 .. Len(c) : c[k] # n
    BY <1>1, <1>4
  <2> QED BY <1>1, <1>4, <1>5, <2>1, <2>2, JoinedAfterInsert
<1>10. TypeOK'
  <2>1. list' \in [List -> [first : Pointer, last : Pointer, active : Pointer]]
    <3>1. list[l] \in [first : Pointer, last : Pointer, active : Pointer] /\ n \in Pointer
      BY <1>0, <1>4 DEF Shape, TypeOK, Pointer
    <3>2. list' = [list EXCEPT ![l].first = IF before = Null THEN n ELSE @,
                               ![l].last = IF after = Null THEN n ELSE @]
      BY DEF Link
    <3> QED BY <1>0, <3>1, <3>2 DEF Shape, TypeOK
  <2>2. chain' \in [List -> Seq(Node)]
    BY <1>0, <1>5, <1>7 DEF Shape, TypeOK
  <2>3. exists' \subseteq List /\ allocated' \subseteq Node
    BY <1>0, <1>4 DEF Link, Shape, TypeOK
  <2> QED BY <1>4, <2>1, <2>2, <2>3 DEF TypeOK
<1>11. ItemsOwnedOnce'
  <2>1. allocated' = UNION {ToSet(chain'[m]) : m \in exists'}
    <3>1. allocated' = allocated \cup {n} BY DEF Link
    <3>2. allocated = UNION {ToSet(chain[m]) : m \in exists} BY DEF Shape, ItemsOwnedOnce
    <3>3. \A m \in exists : ToSet(chain'[m]) = IF m = l THEN ToSet(chain[l]) \cup {n} ELSE ToSet(chain[m])
      BY <1>0, <1>6, <1>7 DEF Shape, TypeOK
    <3> QED BY <1>0, <3>1, <3>2, <3>3
  <2>2. \A m \in List \ exists' : chain'[m] = << >>
    BY <1>0, <1>7 DEF Shape, ItemsOwnedOnce
  <2>3. ASSUME NEW m1 \in List, NEW m2 \in List, NEW j \in DOMAIN chain'[m1], NEW k \in DOMAIN chain'[m2],
               chain'[m1][j] = chain'[m2][k]
        PROVE  m1 = m2 /\ j = k
    <3>1. CASE m1 = l /\ m2 = l
      <4>1. j \in 1 .. Len(d) /\ k \in 1 .. Len(d) /\ d[j] = d[k]
        BY <2>3, <3>1, <1>5, <1>6, <1>7
      <4> QED BY <4>1, <3>1, <1>9 DEF Once
    <3>2. ASSUME NEW m \in List, m # l, NEW p \in DOMAIN d, NEW q \in DOMAIN chain[m]
          PROVE  d[p] # chain[m][q]
      <4>1. q \in 1 .. Len(chain[m]) /\ chain[m][q] \in allocated
        BY <3>2, ItemsOfList
      <4>2. d[p] = n \/ \E r \in 1 .. Len(c) : d[p] = c[r]
        <5>1. CASE p < i BY <5>1, <1>1, <1>5, <1>6
        <5>2. CASE p = i BY <5>2, <1>1, <1>5, <1>6
        <5>3. CASE p > i
          <6>1. p - 1 \in 1 .. Len(c) /\ d[p] = c[p - 1] BY <5>3, <1>1, <1>5, <1>6
          <6> QED BY <6>1
        <5> QED BY <5>1, <5>2, <5>3, <1>6
      <4> QED BY <4>1, <4>2, <3>2, <1>0, <1>4, ListsDoNotShare
    <3>3. CASE m1 = l /\ m2 # l BY <2>3, <3>2, <3>3, <1>7
    <3>4. CASE m1 # l /\ m2 = l BY <2>3, <3>2, <3>4, <1>7
    <3>5. CASE m1 # l /\ m2 # l BY <2>3, <3>5, <1>7 DEF Shape, ItemsOwnedOnce
    <3> QED BY <3>1, <3>3, <3>4, <3>5
  <2> QED BY <2>1, <2>2, <2>3 DEF ItemsOwnedOnce
<1>12. ASSUME NEW m \in List, m # l PROVE Linked(m)'
  <2>1. Linked(m) /\ list'[m] = list[m] /\ chain'[m] = chain[m]
    BY <1>7, <1>8, <1>12 DEF Link, Shape, TypeOK, AllLinked
  <2>2. ASSUME NEW k \in 1 .. Len(chain[m])
        PROVE  node'[chain[m][k]].next = node[chain[m][k]].next /\ node'[chain[m][k]].prev = node[chain[m][k]].prev
    <3>1. chain[m][k] \in Node /\ chain[m][k] \in allocated BY <1>12, ItemsOfList
    <3>2. \A j \in 1 .. Len(c) : c[j] # chain[m][k] BY <1>0, <1>12, ListsDoNotShare
    <3>3. chain[m][k] # before /\ chain[m][k] # after BY <3>1, <3>2, <1>1
    <3> QED BY <3>1, <3>3, <1>4 DEF Spliced
  <2>3. Joined(chain'[m], node')
    BY <2>1, <2>2 DEF Linked, Joined
  <2> QED BY <2>1, <2>3 DEF Linked
<1>13. Linked(l)'
  <2>1. /\ list'[l].first = IF before = Null THEN n ELSE list[l].first
        /\ list'[l].last = IF after = Null THEN n ELSE list[l].last
        /\ list'[l].active = list[l].active
    BY <1>0 DEF Link, Shape, TypeOK
  <2>2. /\ before = Null <=> i = 1
        /\ after = Null <=> i = Len(c) + 1
    BY <1>1
  <2>3. /\ list[l].first = IF Len(c) = 0 THEN Null ELSE c[1]
        /\ list[l].last = IF Len(c) = 0 THEN Null ELSE c[Len(c)]
        /\ list[l].active = Null \/ \E k \in 1 .. Len(c) : list[l].active = c[k]
    BY <1>0, <1>8 DEF AllLinked, Linked
  <2>4. list'[l].first = d[1] /\ list'[l].last = d[Len(c) + 1]
    BY <2>1, <2>2, <2>3, <1>1, <1>5
  <2>5. list'[l].active = Null \/ \E k \in 1 .. Len(d) : list'[l].active = d[k]
    <3>1. CASE list[l].active = Null BY <3>1, <2>1
    <3>2. ASSUME NEW k \in 1 .. Len(c), list[l].active = c[k]
          PROVE  \E j \in 1 .. Len(d) : list'[l].active = d[j]
      <4>1. CASE k < i
        <5>1. k \in 1 .. Len(d) /\ d[k] = c[k] BY <4>1, <1>1, <1>5
        <5> QED BY <5>1, <3>2, <2>1
      <4>2. CASE k >= i
        <5>1. k + 1 \in 1 .. Len(d) /\ d[k + 1] = c[k] BY <4>2, <1>1, <1>5
        <5> QED BY <5>1, <3>2, <2>1
      <4> QED BY <4>1, <4>2, <1>1
    <3> QED BY <3>1, <3>2, <2>3
  <2> QED BY <2>4, <2>5, <1>1, <1>5, <1>7, <1>9 DEF Linked
<1>14. LinksAgree'
  <2>1. TypeOK' => (LinksAgree' <=> AllLinked')
    BY LinksByPlace, PTL
  <2>2. AllLinked'
    BY <1>12, <1>13 DEF AllLinked
  <2> QED BY <2>1, <2>2, <1>10
<1> QED BY <1>10, <1>11, <1>14 DEF Shape
-----------------------------------------------------------------------------
(* A deletion. The neighbours of the item become neighbours.               *)
LEMMA PlaceOfItem ==
    ASSUME Shape, NEW l \in List, NEW i \in 1 .. Len(chain[l])
    PROVE  Place(l, chain[l][i]) = i
<1>1. i \in DOMAIN chain[l] /\ \A k \in DOMAIN chain[l] : chain[l][k] = chain[l][i] => k = i
  BY ItemsOfList DEF Once
<1> QED BY <1>1 DEF Place

Closed(heap, new, n) ==
    \A m \in Node \ {n} :
        /\ new[m].data = heap[m].data
        /\ new[m].next = IF m = heap[n].prev THEN heap[n].next ELSE heap[m].next
        /\ new[m].prev = IF m = heap[n].next THEN heap[n].prev ELSE heap[m].prev

LEMMA PointersAfterUnlink ==
    ASSUME TypeOK, NEW l \in List, NEW n \in Node, NEW active, Unlink(l, n, active)
    PROVE  node' \in Heap /\ Closed(node, node', n)
<1> DEFINE before == node[n].prev
           after == node[n].next
           h1 == SetNext(node, before, after)
           h2 == SetPrev(h1, after, before)
<1>1. node \in Heap /\ before \in Pointer /\ after \in Pointer
  BY DEF TypeOK, Heap
<1> HIDE DEF before, after
<1>2. /\ h1 \in Heap
      /\ \A m \in Node : /\ h1[m].data = node[m].data /\ h1[m].prev = node[m].prev
                         /\ h1[m].next = IF m = before THEN after ELSE node[m].next
  BY <1>1 DEF SetNext, Pointer, Heap
<1> HIDE DEF h1
<1>3. /\ h2 \in Heap
      /\ \A m \in Node : /\ h2[m].data = h1[m].data /\ h2[m].next = h1[m].next
                         /\ h2[m].prev = IF m = after THEN before ELSE h1[m].prev
  BY <1>1, <1>2 DEF SetPrev, Pointer, Heap
<1> HIDE DEF h2
<1>4. node' = [h2 EXCEPT ![n] = Blank]
  BY DEF Unlink, h1, h2, before, after
<1>5. node' \in Heap /\ \A m \in Node \ {n} : node'[m] = h2[m]
  BY <1>3, <1>4 DEF Heap, Blank, Pointer
<1> QED BY <1>2, <1>3, <1>5 DEF Closed, before, after

LEMMA JoinedAfterRemove ==
    ASSUME NEW c \in Seq(Node), Once(c), NEW heap, Joined(c, heap), NEW i \in 1 .. Len(c),
           NEW new, Closed(heap, new, c[i]), NEW d, d = RemoveAt(c, i)
    PROVE  Joined(d, new) /\ Once(d)
<1>1. /\ Len(c) \in Nat
      /\ \A k \in 1 .. Len(c) : c[k] \in Node /\ c[k] # Null
      /\ \A j, k \in 1 .. Len(c) : c[j] = c[k] => j = k
  BY LenProperties, ElementOfSeq DEF Once
<1>2. /\ d \in Seq(Node)
      /\ Len(d) = Len(c) - 1
      /\ \A k \in 1 .. Len(c) - 1 : d[k] = IF k < i THEN c[k] ELSE c[k + 1]
  <2>1. RemovedAt(Node, c, i, d) BY RemoveAtProperties
  <2> QED BY <2>1 DEF RemovedAt
<1>3. Once(d)
  <2> SUFFICES ASSUME NEW j \in 1 .. Len(c) - 1, NEW k \in 1 .. Len(c) - 1, d[j] = d[k]
               PROVE  j = k
    BY <1>2 DEF Once
  <2> DEFINE J == IF j < i THEN j ELSE j + 1
             K == IF k < i THEN k ELSE k + 1
  <2>1. J \in 1 .. Len(c) /\ K \in 1 .. Len(c) /\ d[j] = c[J] /\ d[k] = c[K]
    BY <1>1, <1>2
  <2> HIDE DEF J, K
  <2>2. J = K
    BY <2>1, <1>1
  <2> QED BY <2>2, <1>1 DEF J, K
<1>4. ASSUME NEW k \in 1 .. Len(c)
      PROVE  /\ heap[c[k]].next = IF k = Len(c) THEN Null ELSE c[k + 1]
             /\ heap[c[k]].prev = IF k = 1 THEN Null ELSE c[k - 1]
  BY DEF Joined
<1>5. \A m \in Node \ {c[i]} :
         /\ new[m].next = IF m = heap[c[i]].prev THEN heap[c[i]].next ELSE heap[m].next
         /\ new[m].prev = IF m = heap[c[i]].next THEN heap[c[i]].prev ELSE heap[m].prev
  BY DEF Closed
<1>6. ASSUME NEW k \in 1 .. Len(c) - 1
      PROVE  /\ new[d[k]].next = IF k = Len(c) - 1 THEN Null ELSE d[k + 1]
             /\ new[d[k]].prev = IF k = 1 THEN Null ELSE d[k - 1]
  <2>1. CASE k < i
    <3>1. k \in 1 .. Len(c) /\ d[k] = c[k] /\ c[k] \in Node \ {c[i]}
      BY <2>1, <1>1, <1>2
    <3>2. (c[k] = heap[c[i]].prev <=> k = i - 1) /\ c[k] # heap[c[i]].next
      <4>1. i # 1 /\ i - 1 \in 1 .. Len(c) BY <2>1, <1>1
      <4>2. c[k] = c[i - 1] <=> k = i - 1 BY <3>1, <4>1, <1>1
      <4>3. i # Len(c) => i + 1 \in 1 .. Len(c) /\ c[i + 1] # c[k] BY <2>1, <3>1, <1>1
      <4> QED BY <3>1, <4>1, <4>2, <4>3, <1>1, <1>4
    <3>3. /\ new[d[k]].next = IF k = i - 1 THEN heap[c[i]].next ELSE heap[c[k]].next
          /\ new[d[k]].prev = heap[c[k]].prev
      BY <3>1, <3>2, <1>5
    <3>4. k # Len(c) - 1 => d[k + 1] = IF k = i - 1 THEN c[i + 1] ELSE c[k + 1]
      <4>1. k = i - 1 => (k + 1) + 1 = i + 1 BY <1>1
      <4>2. k # Len(c) - 1 => k + 1 \in 1 .. Len(c) - 1 BY <1>1
      <4> QED BY <2>1, <4>1, <4>2, <1>1, <1>2
    <3>5. k # 1 => d[k - 1] = c[k - 1]
      BY <2>1, <1>1, <1>2
    <3>6. new[d[k]].prev = IF k = 1 THEN Null ELSE d[k - 1]
      BY <3>1, <3>3, <3>5, <1>4
    <3>7. CASE k = i - 1
      BY <2>1, <3>1, <3>3, <3>4, <3>6, <3>7, <1>1, <1>4
    <3>8. CASE k # i - 1
      BY <2>1, <3>1, <3>3, <3>4, <3>6, <3>8, <1>1, <1>4
    <3> QED BY <3>7, <3>8
  <2>2. CASE k >= i
    <3>1. k + 1 \in 1 .. Len(c) /\ d[k] = c[k + 1] /\ c[k + 1] \in Node \ {c[i]}
      BY <2>2, <1>1, <1>2
    <3>2. (c[k + 1] = heap[c[i]].next <=> k = i) /\ c[k + 1] # heap[c[i]].prev
      <4>1. i # Len(c) /\ i + 1 \in 1 .. Len(c) BY <2>2, <1>1
      <4>2. c[k + 1] = c[i + 1] <=> k = i BY <3>1, <4>1, <1>1
      <4>3. i # 1 => i - 1 \in 1 .. Len(c) /\ c[i - 1] # c[k + 1] BY <2>2, <3>1, <1>1
      <4> QED BY <3>1, <4>1, <4>2, <4>3, <1>1, <1>4
    <3>3. /\ new[d[k]].next = heap[c[k + 1]].next
          /\ new[d[k]].prev = IF k = i THEN heap[c[i]].prev ELSE heap[c[k + 1]].prev
      BY <3>1, <3>2, <1>5
    <3>4. k # Len(c) - 1 => d[k + 1] = c[(k + 1) + 1]
      BY <2>2, <1>1, <1>2
    <3>5. k # 1 => d[k - 1] = IF k = i THEN c[k - 1] ELSE c[(k + 1) - 1]
      <4>1. (k - 1) + 1 = (k + 1) - 1 BY <1>1
      <4> QED BY <2>2, <4>1, <1>1, <1>2
    <3>6. new[d[k]].next = IF k = Len(c) - 1 THEN Null ELSE d[k + 1]
      BY <3>1, <3>3, <3>4, <1>1, <1>4
    <3>7. CASE k = i
      BY <2>2, <3>1, <3>3, <3>5, <3>6, <3>7, <1>1, <1>4
    <3>8. CASE k # i
      <4>1. k # 1 /\ k + 1 # 1 BY <2>2, <3>8, <1>1
      <4> QED BY <3>1, <3>3, <3>5, <3>6, <3>8, <4>1, <1>4
    <3> QED BY <3>7, <3>8
  <2> QED BY <2>1, <2>2, <1>1
<1> QED BY <1>2, <1>3, <1>6 DEF Joined

LEMMA UnlinkPreserves ==
    ASSUME Shape, NEW l \in exists, NEW c, c = chain[l], NEW i \in 1 .. Len(c), NEW active,
           active = Null \/ \E k \in 1 .. Len(c) : k # i /\ active = c[k],
           Unlink(l, c[i], active)
    PROVE  /\ Shape'
           /\ Closed(node, node', c[i])
           /\ chain' = [chain EXCEPT ![l] = RemoveAt(c, i)]
           /\ c[i] \in allocated /\ allocated' = allocated \ {c[i]}
<1> DEFINE d == RemoveAt(c, i)
           n == c[i]
<1>0. l \in List /\ exists' = exists
  BY DEF Shape, TypeOK, Unlink
<1>1. /\ c \in Seq(Node) /\ Len(c) \in Nat /\ Once(c)
      /\ \A k \in 1 .. Len(c) : c[k] \in Node /\ c[k] \in allocated /\ c[k] # Null
  BY <1>0, ItemsOfList
<1>2. /\ n \in Node /\ n \in allocated /\ n # Null
  BY <1>1
<1>3. node' \in Heap /\ Closed(node, node', n)
  BY <1>0, <1>2, PointersAfterUnlink DEF Shape
<1>4. RemovedAt(Node, c, i, d)
  BY <1>1, RemoveAtProperties
<1>5. ToSet(d) = ToSet(c) \ {n}
  BY <1>1, ToSetOfRemoveAt DEF Once
<1>6. chain' = [chain EXCEPT ![l] = d]
  BY <1>0, PlaceOfItem DEF Unlink
<1>7. AllLinked
  BY LinksByPlace DEF Shape
<1>8. Joined(d, node') /\ Once(d)
  <2>1. Joined(c, node)
    BY <1>0, <1>7 DEF AllLinked, Linked
  <2> QED BY <1>1, <1>3, <2>1, JoinedAfterRemove
<1> HIDE DEF d, n
<1>9. /\ d \in Seq(Node) /\ Len(d) = Len(c) - 1 /\ DOMAIN d = 1 .. Len(c) - 1
      /\ \A k \in 1 .. Len(c) - 1 : d[k] = IF k < i THEN c[k] ELSE c[k + 1]
  BY <1>4, LenProperties DEF RemovedAt
<1>10. /\ chain'[l] = d
       /\ \A m \in List \ {l} : chain'[m] = chain[m]
  BY <1>0, <1>6 DEF Shape, TypeOK
<1>11. allocated' = allocated \ {n}
  BY DEF Unlink, n
<1>12. /\ list' = [list EXCEPT ![l].first = IF @ = n THEN node[n].next ELSE @,
                               ![l].last = IF @ = n THEN node[n].prev ELSE @,
                               ![l].active = active]
  BY DEF Unlink, n
<1>13. node[n].next \in Pointer /\ node[n].prev \in Pointer /\ active \in Pointer
  BY <1>1, <1>2 DEF Shape, TypeOK, Heap, Pointer
<1>14. TypeOK'
  <2>1. list' \in [List -> [first : Pointer, last : Pointer, active : Pointer]]
    <3>1. list[l] \in [first : Pointer, last : Pointer, active : Pointer]
      BY <1>0 DEF Shape, TypeOK
    <3>2. [list EXCEPT ![l].first = IF @ = n THEN node[n].next ELSE @]
             \in [List -> [first : Pointer, last : Pointer, active : Pointer]]
      BY <1>0, <1>13, <3>1 DEF Shape, TypeOK
    <3>3. \A s \in [List -> [first : Pointer, last : Pointer, active : Pointer]] :
             [s EXCEPT ![l].last = IF @ = n THEN node[n].prev ELSE @]
                \in [List -> [first : Pointer, last : Pointer, active : Pointer]]
      BY <1>0, <1>13
    <3>4. \A s \in [List -> [first : Pointer, last : Pointer, active : Pointer]] :
             [s EXCEPT ![l].active = active] \in [List -> [first : Pointer, last : Pointer, active : Pointer]]
      BY <1>0, <1>13
    <3>5. list' = [[[list EXCEPT ![l].first = IF @ = n THEN node[n].next ELSE @]
                         EXCEPT ![l].last = IF @ = n THEN node[n].prev ELSE @]
                        EXCEPT ![l].active = active]
      BY <1>12
    <3> DEFINE s1 == [list EXCEPT ![l].first = IF @ = n THEN node[n].next ELSE @]
               s2 == [s1 EXCEPT ![l].last = IF @ = n THEN node[n].prev ELSE @]
    <3>6. s1 \in [List -> [first : Pointer, last : Pointer, active : Pointer]]
      BY <3>2
    <3>7. list' = [s2 EXCEPT ![l].active = active]
      BY <3>5
    <3> HIDE DEF s1
    <3>8. s2 \in [List -> [first : Pointer, last : Pointer, active : Pointer]]
      BY <3>3, <3>6
    <3> HIDE DEF s2
    <3> QED BY <3>4, <3>7, <3>8
  <2>2. chain' \in [List -> Seq(Node)]
    BY <1>0, <1>6, <1>9 DEF Shape, TypeOK
  <2>3. exists' \subseteq List /\ allocated' \subseteq Node
    BY <1>0, <1>11 DEF Shape, TypeOK
  <2> QED BY <1>3, <2>1, <2>2, <2>3 DEF TypeOK
<1>15. ItemsOwnedOnce'
  <2>1. allocated' = UNION {ToSet(chain'[m]) : m \in exists'}
    <3>1. allocated = UNION {ToSet(chain[m]) : m \in exists} BY DEF Shape, ItemsOwnedOnce
    <3>2. \A m \in exists : ToSet(chain'[m]) = IF m = l THEN ToSet(chain[l]) \ {n} ELSE ToSet(chain[m])
      BY <1>0, <1>5, <1>10 DEF Shape, TypeOK
    <3>3. ASSUME NEW m \in exists, m # l PROVE n \notin ToSet(chain[m])
      <4>1. m \in List BY DEF Shape, TypeOK
      <4>2. \A k \in 1 .. Len(chain[m]) : chain[m][k] # n
        BY <4>1, <3>3, <1>0, ListsDoNotShare DEF n
      <4>3. ToSet(chain[m]) = {chain[m][k] : k \in 1 .. Len(chain[m])}
        BY <4>1, ItemsOfList
      <4> QED BY <4>2, <4>3
    <3> QED BY <1>0, <1>11, <3>1, <3>2, <3>3
  <2>2. \A m \in List \ exists' : chain'[m] = << >>
    BY <1>0, <1>10 DEF Shape, ItemsOwnedOnce
  <2>3. ASSUME NEW m1 \in List, NEW m2 \in List, NEW j \in DOMAIN chain'[m1], NEW k \in DOMAIN chain'[m2],
               chain'[m1][j] = chain'[m2][k]
        PROVE  m1 = m2 /\ j = k
    <3>1. CASE m1 = l /\ m2 = l
      <4>1. j \in 1 .. Len(d) /\ k \in 1 .. Len(d) /\ d[j] = d[k]
        BY <2>3, <3>1, <1>9, <1>10
      <4> QED BY <4>1, <3>1, <1>8 DEF Once
    <3>2. ASSUME NEW m \in List, m # l, NEW p \in DOMAIN d, NEW q \in DOMAIN chain[m]
          PROVE  d[p] # chain[m][q]
      <4>1. q \in 1 .. Len(chain[m])
        BY <3>2, ItemsOfList
      <4>2. \E r \in 1 .. Len(c) : d[p] = c[r]
        <5>1. CASE p < i BY <5>1, <1>1, <1>9
        <5>2. CASE p >= i
          <6>1. p + 1 \in 1 .. Len(c) /\ d[p] = c[p + 1] BY <5>2, <1>1, <1>9
          <6> QED BY <6>1
        <5> QED BY <5>1, <5>2, <1>9
      <4> QED BY <4>1, <4>2, <3>2, <1>0, ListsDoNotShare
    <3>3. CASE m1 = l /\ m2 # l BY <2>3, <3>2, <3>3, <1>10
    <3>4. CASE m1 # l /\ m2 = l BY <2>3, <3>2, <3>4, <1>10
    <3>5. CASE m1 # l /\ m2 # l BY <2>3, <3>5, <1>10 DEF Shape, ItemsOwnedOnce
    <3> QED BY <3>1, <3>3, <3>4, <3>5
  <2> QED BY <2>1, <2>2, <2>3 DEF ItemsOwnedOnce
<1>16. \A k \in 1 .. Len(c) : /\ node[c[k]].next = IF k = Len(c) THEN Null ELSE c[k + 1]
                              /\ node[c[k]].prev = IF k = 1 THEN Null ELSE c[k - 1]
  BY <1>0, <1>7 DEF AllLinked, Linked, Joined
<1>17. ASSUME NEW m \in List, m # l PROVE Linked(m)'
  <2>1. Linked(m) /\ list'[m] = list[m] /\ chain'[m] = chain[m]
    BY <1>0, <1>7, <1>10, <1>12, <1>17 DEF Shape, TypeOK, AllLinked
  <2>2. ASSUME NEW k \in 1 .. Len(chain[m])
        PROVE  node'[chain[m][k]].next = node[chain[m][k]].next /\ node'[chain[m][k]].prev = node[chain[m][k]].prev
    <3>1. chain[m][k] \in Node /\ chain[m][k] # Null BY <1>17, ItemsOfList
    <3>2. \A j \in 1 .. Len(c) : c[j] # chain[m][k] BY <1>0, <1>17, ListsDoNotShare
    <3>3. chain[m][k] # node[n].next /\ chain[m][k] # node[n].prev /\ chain[m][k] # n
      <4>1. n = c[i] BY DEF n
      <4>2. i # Len(c) => i + 1 \in 1 .. Len(c) BY <1>1
      <4>3. i # 1 => i - 1 \in 1 .. Len(c) BY <1>1
      <4>4. /\ node[n].next = IF i = Len(c) THEN Null ELSE c[i + 1]
            /\ node[n].prev = IF i = 1 THEN Null ELSE c[i - 1]
        BY <4>1, <1>16
      <4> HIDE DEF n
      <4> QED BY <3>1, <3>2, <4>1, <4>2, <4>3, <4>4
    <3> QED BY <3>1, <3>3, <1>3 DEF Closed
  <2>3. Joined(chain'[m], node')
    <3>1. Joined(chain[m], node)
      BY <2>1 DEF Linked
    <3>2. Joined(chain[m], node')
      BY <2>2, <3>1 DEF Joined
    <3> QED BY <2>1, <3>2
  <2> QED BY <2>1, <2>3 DEF Linked
<1>18. Linked(l)'
  <2>0. Len(c) \in Nat /\ (Len(c) = 1 \/ Len(c) >= 2)
    <3>1. \A k \in Nat : i \in 1 .. k => k = 1 \/ k >= 2
      OBVIOUS
    <3> QED BY <3>1, <1>1
  <2>1. /\ list'[l].first = IF list[l].first = n THEN node[n].next ELSE list[l].first
        /\ list'[l].last = IF list[l].last = n THEN node[n].prev ELSE list[l].last
        /\ list'[l].active = active
    BY <1>0, <1>12 DEF Shape, TypeOK
  <2>2. /\ list[l].first = c[1]
        /\ list[l].last = c[Len(c)]
    BY <1>0, <1>1, <1>7 DEF AllLinked, Linked
  <2>3. n = c[i] /\ \A k \in 1 .. Len(c) : c[k] = n => k = i
    BY <1>1 DEF Once, n
  <2>4. list'[l].first = IF Len(d) = 0 THEN Null ELSE d[1]
    <3>1. CASE i = 1
      <4>1. Len(c) >= 2 => d[1] = c[i + 1]
        <5>1. Len(c) >= 2 => 1 \in 1 .. Len(c) - 1 BY <2>0
        <5> QED BY <3>1, <5>1, <1>9
      <4>2. node[n].next = IF i = Len(c) THEN Null ELSE c[i + 1]
        BY <2>3, <1>16
      <4>3. list'[l].first = node[n].next
        BY <3>1, <2>1, <2>2, <2>3
      <4>4. CASE Len(c) = 1
        BY <3>1, <4>2, <4>3, <4>4, <1>9
      <4>5. CASE Len(c) >= 2
        <5>1. Len(d) # 0 /\ i # Len(c) BY <3>1, <4>5, <1>9, <2>0
        <5> QED BY <5>1, <4>1, <4>2, <4>3, <4>5
      <4> QED BY <4>4, <4>5, <2>0
    <3>2. CASE i # 1
      <4>1. 1 \in 1 .. Len(c) - 1 /\ d[1] = c[1] /\ c[1] # n BY <3>2, <2>3, <1>1, <1>9
      <4> QED BY <4>1, <2>1, <2>2, <1>1, <1>9
    <3> QED BY <3>1, <3>2
  <2>5. list'[l].last = IF Len(d) = 0 THEN Null ELSE d[Len(d)]
    <3>1. CASE i = Len(c)
      <4>1. Len(c) >= 2 => d[Len(c) - 1] = c[Len(c) - 1]
        <5>1. Len(c) >= 2 => Len(c) - 1 \in 1 .. Len(c) - 1 /\ Len(c) - 1 < i BY <3>1, <2>0
        <5> QED BY <5>1, <1>9
      <4>2. node[n].prev = IF i = 1 THEN Null ELSE c[i - 1]
        BY <2>3, <1>16
      <4>3. list'[l].last = node[n].prev
        BY <3>1, <2>1, <2>2, <2>3
      <4>4. CASE Len(c) = 1
        BY <3>1, <4>2, <4>3, <4>4, <1>9
      <4>5. CASE Len(c) >= 2
        <5>1. Len(d) # 0 /\ i # 1 /\ Len(d) = i - 1 BY <3>1, <4>5, <1>9, <2>0
        <5> QED BY <3>1, <5>1, <4>1, <4>2, <4>3, <4>5
      <4> QED BY <4>4, <4>5, <2>0
    <3>2. CASE i # Len(c)
      <4>1. Len(c) - 1 \in 1 .. Len(c) - 1 /\ (Len(c) - 1) + 1 = Len(c) BY <3>2, <1>1
      <4>2. d[Len(c) - 1] = c[Len(c)] /\ c[Len(c)] # n BY <3>2, <4>1, <2>3, <1>1, <1>9
      <4> QED BY <4>1, <4>2, <2>1, <2>2, <1>1, <1>9
    <3> QED BY <3>1, <3>2
  <2>6. list'[l].active = Null \/ \E k \in 1 .. Len(d) : list'[l].active = d[k]
    <3>1. ASSUME NEW k \in 1 .. Len(c), k # i, active = c[k]
          PROVE  \E j \in 1 .. Len(d) : active = d[j]
      <4>1. CASE k < i
        <5>1. k \in 1 .. Len(d) /\ d[k] = c[k] BY <4>1, <1>1, <1>9
        <5> QED BY <5>1, <3>1
      <4>2. CASE k > i
        <5>1. k - 1 \in 1 .. Len(d) /\ (k - 1) + 1 = k BY <4>2, <1>1, <1>9
        <5>2. d[k - 1] = c[k] BY <4>2, <5>1, <1>1, <1>9
        <5> QED BY <5>1, <5>2, <3>1
      <4> QED BY <4>1, <4>2, <3>1, <1>1
    <3> QED BY <3>1, <2>1
  <2> QED BY <2>4, <2>5, <2>6, <1>8, <1>10 DEF Linked
<1>19. LinksAgree'
  <2>1. TypeOK' => (LinksAgree' <=> AllLinked')
    BY LinksByPlace, PTL
  <2>2. AllLinked'
    BY <1>17, <1>18 DEF AllLinked
  <2> QED BY <2>1, <2>2, <1>14
<1> QED BY <1>2, <1>3, <1>6, <1>11, <1>14, <1>15, <1>19 DEF Shape, d, n
-----------------------------------------------------------------------------
(* What an insertion at a place and a deletion from one leave, as far as   *)
(* the other proofs need it.                                               *)
LinkAt(l, n, x, i) ==
    Link(l, n, x, IF i = 1 THEN Null ELSE chain[l][i - 1],
                  IF i = Len(chain[l]) + 1 THEN Null ELSE chain[l][i], InsertAt(chain[l], i, n))

AfterInsert(l, n, x, i) ==
    /\ n \in Node /\ n \notin allocated /\ allocated' = allocated \cup {n}
    /\ chain' = [chain EXCEPT ![l] = InsertAt(chain[l], i, n)]
    /\ node'[n].data = x /\ \A m \in Node \ {n} : node'[m].data = node[m].data
    /\ \A m \in List : list'[m].active = list[m].active
    /\ exists' = exists /\ result' = << >>

AfterDelete(l, i, active) ==
    /\ chain[l][i] \in allocated /\ allocated' = allocated \ {chain[l][i]}
    /\ chain' = [chain EXCEPT ![l] = RemoveAt(chain[l], i)]
    /\ \A m \in Node \ {chain[l][i]} : node'[m].data = node[m].data
    /\ \A m \in List : list'[m].active = IF m = l THEN active ELSE list[m].active
    /\ exists' = exists /\ result' = <<node[chain[l][i]].data>>

LEMMA InsertPreservesShape ==
    ASSUME Shape, NEW l \in exists, NEW n, NEW x \in Data, NEW i \in 1 .. Len(chain[l]) + 1,
           LinkAt(l, n, x, i)
    PROVE  Shape' /\ AfterInsert(l, n, x, i)
<1> DEFINE c == chain[l]
           before == IF i = 1 THEN Null ELSE c[i - 1]
           after == IF i = Len(c) + 1 THEN Null ELSE c[i]
           d == InsertAt(c, i, n)
<1>0. l \in List
  BY DEF Shape, TypeOK
<1>1. Link(l, n, x, before, after, d)
  BY DEF LinkAt
<1>2. Shape'
  BY <1>1, LinkPreserves
<1>3. before \in allocated \cup {Null} /\ after \in allocated \cup {Null}
  <2>1. Len(c) \in Nat /\ \A k \in 1 .. Len(c) : c[k] \in allocated
    BY <1>0, ItemsOfList
  <2> QED BY <2>1
<1> HIDE DEF before, after, d
<1>4. /\ n \in Node /\ n \notin allocated
      /\ Spliced(node, node', n, x, before, after)
  BY <1>0, <1>1, <1>3, PointersAfterLink
<1>5. \A m \in List : list'[m].active = list[m].active
  BY <1>0, <1>1 DEF Link, Shape, TypeOK
<1>6. /\ allocated' = allocated \cup {n} /\ chain' = [chain EXCEPT ![l] = d]
      /\ exists' = exists /\ result' = << >>
  BY <1>1 DEF Link
<1>7. node'[n].data = x /\ \A m \in Node \ {n} : node'[m].data = node[m].data
  BY <1>4 DEF Spliced
<1> QED BY <1>2, <1>4, <1>5, <1>6, <1>7 DEF AfterInsert, d

LEMMA DeletePreservesShape ==
    ASSUME Shape, NEW l \in exists, NEW i \in 1 .. Len(chain[l]), NEW active,
           active = Null \/ \E k \in 1 .. Len(chain[l]) : k # i /\ active = chain[l][k],
           Unlink(l, chain[l][i], active)
    PROVE  Shape' /\ AfterDelete(l, i, active)
<1>0. l \in List
  BY DEF Shape, TypeOK
<1>1. /\ Shape' /\ Closed(node, node', chain[l][i])
      /\ chain' = [chain EXCEPT ![l] = RemoveAt(chain[l], i)]
      /\ chain[l][i] \in allocated /\ allocated' = allocated \ {chain[l][i]}
  BY UnlinkPreserves
<1>2. \A m \in List : list'[m].active = IF m = l THEN active ELSE list[m].active
  BY <1>0 DEF Unlink, Shape, TypeOK
<1>3. \A m \in Node \ {chain[l][i]} : node'[m].data = node[m].data
  BY <1>1 DEF Closed
<1>4. exists' = exists /\ result' = <<node[chain[l][i]].data>>
  BY DEF Unlink
<1> QED BY <1>1, <1>2, <1>3, <1>4 DEF AfterDelete
-----------------------------------------------------------------------------
(* Which place each operation works at.                                    *)
LEMMA EndsOfList ==
    ASSUME Shape, NEW l \in List
    PROVE  /\ list[l].first = IF 1 = Len(chain[l]) + 1 THEN Null ELSE chain[l][1]
           /\ list[l].last = IF Len(chain[l]) + 1 = 1 THEN Null ELSE chain[l][(Len(chain[l]) + 1) - 1]
           /\ list[l].first = Null <=> Len(chain[l]) = 0
           /\ list[l].last = Null <=> Len(chain[l]) = 0
<1>1. Linked(l)
  BY LinksByPlace DEF Shape, AllLinked
<1>2. Len(chain[l]) \in Nat /\ \A k \in 1 .. Len(chain[l]) : chain[l][k] # Null
  BY ItemsOfList
<1>3. Len(chain[l]) # 0 => chain[l][1] # Null /\ chain[l][Len(chain[l])] # Null
  BY <1>2
<1> QED BY <1>1, <1>2, <1>3 DEF Linked

LEMMA NeighboursOfItem ==
    ASSUME Shape, NEW l \in List, NEW i \in 1 .. Len(chain[l])
    PROVE  /\ node[chain[l][i]].next = IF i = Len(chain[l]) THEN Null ELSE chain[l][i + 1]
           /\ node[chain[l][i]].prev = IF i = 1 THEN Null ELSE chain[l][i - 1]
  BY LinksByPlace DEF Shape, AllLinked, Linked, Joined

LEMMA ActiveIsAPlace ==
    ASSUME Shape, NEW l \in List, Active(l)
    PROVE  \E i \in 1 .. Len(chain[l]) : list[l].active = chain[l][i] /\ Place(l, list[l].active) = i
<1>1. PICK i \in 1 .. Len(chain[l]) : list[l].active = chain[l][i]
  BY LinksByPlace DEF Shape, AllLinked, Linked, Active
<1>2. Place(l, chain[l][i]) = i
  BY PlaceOfItem
<1> QED BY <1>1, <1>2

LEMMA InsertFirstAt ==
    ASSUME Shape, NEW l \in exists, NEW n, NEW x, insert_first(l, n, x)
    PROVE  LinkAt(l, n, x, 1)
<1>0. l \in List /\ n \in Node
  BY DEF Shape, TypeOK, insert_first, Link
<1>1. <<n>> \o chain[l] = InsertAt(chain[l], 1, n)
  BY <1>0, ItemsOfList, EndsArePlaces
<1>2. list[l].first = IF 1 = Len(chain[l]) + 1 THEN Null ELSE chain[l][1]
  BY <1>0, EndsOfList
<1> QED BY <1>1, <1>2 DEF insert_first, LinkAt

LEMMA InsertLastAt ==
    ASSUME Shape, NEW l \in exists, NEW n, NEW x, insert_last(l, n, x)
    PROVE  LinkAt(l, n, x, Len(chain[l]) + 1)
<1>0. l \in List /\ n \in Node
  BY DEF Shape, TypeOK, insert_last, Link
<1>1. Append(chain[l], n) = InsertAt(chain[l], Len(chain[l]) + 1, n)
  BY <1>0, ItemsOfList, EndsArePlaces
<1>2. list[l].last = IF Len(chain[l]) + 1 = 1 THEN Null ELSE chain[l][(Len(chain[l]) + 1) - 1]
  BY <1>0, EndsOfList
<1> QED BY <1>1, <1>2 DEF insert_last, LinkAt

LEMMA PostInsertAt ==
    ASSUME Shape, NEW l \in exists, NEW n, NEW x, NEW i \in 1 .. Len(chain[l]),
           list[l].active = chain[l][i], post_insert(l, n, x)
    PROVE  LinkAt(l, n, x, i + 1)
<1>0. l \in List /\ Len(chain[l]) \in Nat
  BY ItemsOfList DEF Shape, TypeOK
<1>1. Place(l, list[l].active) = i
  BY <1>0, PlaceOfItem
<1>2. node[list[l].active].next = IF i + 1 = Len(chain[l]) + 1 THEN Null ELSE chain[l][i + 1]
  BY <1>0, NeighboursOfItem
<1>3. list[l].active = IF i + 1 = 1 THEN Null ELSE chain[l][(i + 1) - 1]
  BY <1>0
<1> QED BY <1>1, <1>2, <1>3 DEF post_insert, LinkAt

LEMMA PreInsertAt ==
    ASSUME Shape, NEW l \in exists, NEW n, NEW x, NEW i \in 1 .. Len(chain[l]),
           list[l].active = chain[l][i], pre_insert(l, n, x)
    PROVE  LinkAt(l, n, x, i)
<1>0. l \in List /\ Len(chain[l]) \in Nat
  BY ItemsOfList DEF Shape, TypeOK
<1>1. Place(l, list[l].active) = i
  BY <1>0, PlaceOfItem
<1>2. node[list[l].active].prev = IF i = 1 THEN Null ELSE chain[l][i - 1]
  BY <1>0, NeighboursOfItem
<1>3. list[l].active = IF i = Len(chain[l]) + 1 THEN Null ELSE chain[l][i]
  BY <1>0
<1> QED BY <1>1, <1>2, <1>3 DEF pre_insert, LinkAt

DeletesAt(l, i, active) ==
    /\ i \in 1 .. Len(chain[l])
    /\ active = Null \/ \E k \in 1 .. Len(chain[l]) : k # i /\ active = chain[l][k]
    /\ Unlink(l, chain[l][i], active)

LEMMA UnlessIsAnother ==
    ASSUME Shape, NEW l \in List, NEW i \in 1 .. Len(chain[l])
    PROVE  \/ Unless(l, chain[l][i]) = Null
           \/ \E k \in 1 .. Len(chain[l]) : k # i /\ Unless(l, chain[l][i]) = chain[l][k]
<1>1. CASE list[l].active = Null \/ list[l].active = chain[l][i]
  BY <1>1 DEF Unless
<1>2. CASE list[l].active # Null /\ list[l].active # chain[l][i]
  <2>1. PICK k \in 1 .. Len(chain[l]) : list[l].active = chain[l][k]
    BY <1>2, ActiveIsAPlace DEF Active
  <2> QED BY <1>2, <2>1 DEF Unless
<1> QED BY <1>1, <1>2

LEMMA DeleteFirstAt ==
    ASSUME Shape, NEW l \in exists, list[l].first # Null, delete_first(l)
    PROVE  DeletesAt(l, 1, Unless(l, chain[l][1]))
<1>0. l \in List /\ Len(chain[l]) \in Nat
  BY ItemsOfList DEF Shape, TypeOK
<1>1. list[l].first = chain[l][1] /\ 1 \in 1 .. Len(chain[l])
  BY <1>0, EndsOfList
<1> QED BY <1>0, <1>1, UnlessIsAnother DEF delete_first, DeletesAt

LEMMA DeleteLastAt ==
    ASSUME Shape, NEW l \in exists, list[l].last # Null, delete_last(l)
    PROVE  DeletesAt(l, Len(chain[l]), Unless(l, chain[l][Len(chain[l])]))
<1>0. l \in List /\ Len(chain[l]) \in Nat
  BY ItemsOfList DEF Shape, TypeOK
<1>1. list[l].last = chain[l][Len(chain[l])] /\ Len(chain[l]) \in 1 .. Len(chain[l])
  BY <1>0, EndsOfList
<1> QED BY <1>0, <1>1, UnlessIsAnother DEF delete_last, DeletesAt

\* The items at the places around one, or NULL
After(l, i) == IF i = Len(chain[l]) THEN Null ELSE chain[l][i + 1]
Before(l, i) == IF i = 1 THEN Null ELSE chain[l][i - 1]

LEMMA DeleteActiveAt ==
    ASSUME Shape, NEW l \in exists, NEW i \in 1 .. Len(chain[l]), list[l].active = chain[l][i]
    PROVE  /\ delete_and_succ(l) => DeletesAt(l, i, After(l, i))
           /\ delete_and_pred(l) => DeletesAt(l, i, Before(l, i))
<1>0. l \in List /\ Len(chain[l]) \in Nat
  BY ItemsOfList DEF Shape, TypeOK
<1>1. node[list[l].active].next = After(l, i) /\ node[list[l].active].prev = Before(l, i)
  BY <1>0, NeighboursOfItem DEF After, Before
<1>2. After(l, i) = Null \/ \E k \in 1 .. Len(chain[l]) : k # i /\ After(l, i) = chain[l][k]
  <2>1. i # Len(chain[l]) => i + 1 \in 1 .. Len(chain[l]) /\ i + 1 # i BY <1>0
  <2> QED BY <2>1 DEF After
<1>3. Before(l, i) = Null \/ \E k \in 1 .. Len(chain[l]) : k # i /\ Before(l, i) = chain[l][k]
  <2>1. i # 1 => i - 1 \in 1 .. Len(chain[l]) /\ i - 1 # i BY <1>0
  <2> QED BY <2>1 DEF Before
<1> QED BY <1>1, <1>2, <1>3 DEF delete_and_succ, delete_and_pred, DeletesAt

(* Moving the activity to an item of the list, or away.                    *)
LEMMA ActivatePreserves ==
    ASSUME Shape, NEW l \in exists, NEW n, n = Null \/ n \in ToSet(chain[l]), activate(l, n)
    PROVE  Shape'
<1>0. l \in List /\ n \in Pointer
  BY ItemsOfList DEF Shape, TypeOK, Pointer
<1>1. TypeOK'
  BY <1>0 DEF activate, Shape, TypeOK
<1>2. ItemsOwnedOnce'
  BY DEF activate, Shape, ItemsOwnedOnce
<1>3. AllLinked'
  <2>1. AllLinked
    BY LinksByPlace DEF Shape
  <2> SUFFICES ASSUME NEW m \in List PROVE Linked(m)'
    BY DEF AllLinked
  <2>2. /\ list'[m].first = list[m].first /\ list'[m].last = list[m].last
        /\ list'[m].active = IF m = l THEN n ELSE list[m].active
    BY <1>0 DEF activate, Shape, TypeOK
  <2>3. n = Null \/ \E k \in 1 .. Len(chain[l]) : n = chain[l][k]
    BY <1>0, ItemsOfList
  <2>4. chain' = chain /\ node' = node
    BY DEF activate
  <2> QED BY <2>1, <2>2, <2>3, <2>4 DEF AllLinked, Linked, Joined
<1>4. LinksAgree'
  <2>1. TypeOK' => (LinksAgree' <=> AllLinked')
    BY LinksByPlace, PTL
  <2> QED BY <2>1, <1>1, <1>3
<1> QED BY <1>1, <1>2, <1>4 DEF Shape

LEMMA InitPreserves ==
    ASSUME Shape, NEW l, dllist_init(l)
    PROVE  Shape'
<1>0. l \in List /\ l \notin exists /\ chain[l] = << >> /\ NoPointers \in [first : Pointer, last : Pointer, active : Pointer]
  BY DEF dllist_init, Shape, ItemsOwnedOnce, NoPointers, Pointer
<1>1. TypeOK'
  BY <1>0 DEF dllist_init, Shape, TypeOK
<1>2. ItemsOwnedOnce'
  <2>1. UNION {ToSet(chain[m]) : m \in exists \cup {l}} = UNION {ToSet(chain[m]) : m \in exists}
    <3>1. ToSet(chain[l]) = {} BY <1>0 DEF ToSet
    <3> QED BY <3>1
  <2> QED BY <1>0, <2>1 DEF dllist_init, Shape, ItemsOwnedOnce
<1>3. AllLinked'
  <2>1. AllLinked
    BY LinksByPlace DEF Shape
  <2> SUFFICES ASSUME NEW m \in List PROVE Linked(m)'
    BY DEF AllLinked
  <2>2. list'[m] = IF m = l THEN NoPointers ELSE list[m]
    BY <1>0 DEF dllist_init, Shape, TypeOK
  <2>3. chain' = chain /\ node' = node
    BY DEF dllist_init
  <2>4. CASE m = l
    BY <1>0, <2>2, <2>3, <2>4, EmptySeq DEF Linked, Joined, NoPointers
  <2>5. CASE m # l
    BY <2>1, <2>2, <2>3, <2>5 DEF AllLinked, Linked
  <2> QED BY <2>4, <2>5
<1>4. LinksAgree'
  <2>1. TypeOK' => (LinksAgree' <=> AllLinked')
    BY LinksByPlace, PTL
  <2> QED BY <2>1, <1>1, <1>3
<1> QED BY <1>1, <1>2, <1>4 DEF Shape
-----------------------------------------------------------------------------
(* Operations of one step, while no loop runs and every datum has one item.*)
DataOnce ==
    /\ \A n, m \in allocated : node[n].data = node[m].data => n = m
    /\ alive = {node[n].data : n \in allocated}
    /\ alive \subseteq Data

LEMMA IdleIsIInv == pc = Idle => (IInv <=> Shape /\ DataOnce)
<1>1. Idle \in Steps /\ Idle.op = "idle"
  BY DEF Idle, Steps, Loops
<1> QED BY <1>1 DEF IInv, DataOnce, LoopsOnTheirWay, DataSharedByCopies, Moving

LEMMA IdleAgain ==
    ASSUME pc' = Idle, Shape', DataOnce'
    PROVE  IInv'
<1>1. (pc = Idle)' => (IInv' <=> Shape' /\ DataOnce')
  BY IdleIsIInv, PTL
<1> QED BY <1>1 DEF Idle

LEMMA IdleKeeps ==
    ASSUME pc = Idle, pc' = pc, Shape', DataOnce'
    PROVE  IInv'
  BY IdleAgain

LEMMA InsertPreserves ==
    ASSUME IInv, NEW l \in List, Ready(l), NEW n \in Node, NEW x \in Data, Inserted(x),
           NEW i \in 1 .. Len(chain[l]) + 1, LinkAt(l, n, x, i)
    PROVE  IInv'
<1>1. pc = Idle /\ l \in exists /\ Shape /\ DataOnce
  BY IdleIsIInv DEF Ready
<1>2. Shape' /\ AfterInsert(l, n, x, i)
  BY <1>1, InsertPreservesShape
<1>3. x \notin alive /\ alive' = alive \cup {x} /\ pc' = pc
  BY DEF Inserted
<1>4. /\ allocated' = allocated \cup {n} /\ n \notin allocated /\ node'[n].data = x
      /\ \A m \in allocated : node'[m].data = node[m].data
  BY <1>1, <1>2 DEF AfterInsert, Shape, TypeOK
<1>5. DataOnce'
  <2>1. \A m \in allocated : node[m].data \in alive
    BY <1>1 DEF DataOnce
  <2>2. ASSUME NEW j \in allocated', NEW m \in allocated', node'[j].data = node'[m].data
        PROVE  j = m
    BY <1>1, <1>3, <1>4, <2>1, <2>2 DEF DataOnce
  <2>3. alive' = {node'[m].data : m \in allocated'}
    <3>1. alive = {node[m].data : m \in allocated} BY <1>1 DEF DataOnce
    <3>2. {node'[m].data : m \in allocated \cup {n}} = {node[m].data : m \in allocated} \cup {x}
      BY <1>4
    <3> QED BY <1>3, <1>4, <3>1, <3>2
  <2>4. alive' \subseteq Data
    BY <1>1, <1>3 DEF DataOnce
  <2> QED BY <2>2, <2>3, <2>4 DEF DataOnce
<1> QED BY <1>1, <1>2, <1>3, <1>5, IdleKeeps

LEMMA DeleteKeepsData ==
    ASSUME Shape, DataOnce, NEW l \in List, NEW i \in 1 .. Len(chain[l]), NEW active,
           AfterDelete(l, i, active), Deleted
    PROVE  DataOnce'
<1> DEFINE n == chain[l][i]
<1>3. /\ n \in allocated /\ allocated' = allocated \ {n}
      /\ \A m \in allocated \ {n} : node'[m].data = node[m].data
      /\ result' = <<node[n].data>>
  BY DEF AfterDelete, Shape, TypeOK
<1> HIDE DEF n
<1>4. alive' = alive \ {node[n].data}
  <2>1. ToSet(<<node[n].data>>) = {node[n].data}
    BY DEF ToSet
  <2> QED BY <1>3, <2>1 DEF Deleted
<1>5. \A j, m \in allocated : node[j].data = node[m].data => j = m
  BY DEF DataOnce
<1>6. ASSUME NEW j \in allocated', NEW m \in allocated', node'[j].data = node'[m].data
      PROVE  j = m
  BY <1>3, <1>5, <1>6
<1>7. alive' = {node'[m].data : m \in allocated'}
  <2>1. alive = {node[m].data : m \in allocated} BY DEF DataOnce
  <2>2. {node'[m].data : m \in allocated \ {n}} = {node[m].data : m \in allocated \ {n}}
    BY <1>3
  <2>3. {node[m].data : m \in allocated \ {n}} = {node[m].data : m \in allocated} \ {node[n].data}
    BY <1>3, <1>5
  <2> QED BY <1>3, <1>4, <2>1, <2>2, <2>3
<1>8. alive' \subseteq Data
  BY <1>4 DEF DataOnce
<1> QED BY <1>6, <1>7, <1>8 DEF DataOnce

LEMMA DeletePreserves ==
    ASSUME IInv, NEW l \in List, Ready(l), Deleted, NEW i, NEW active, DeletesAt(l, i, active)
    PROVE  IInv'
<1>1. pc = Idle /\ l \in exists /\ Shape /\ DataOnce
  BY IdleIsIInv DEF Ready
<1>2. i \in 1 .. Len(chain[l]) /\ Shape' /\ AfterDelete(l, i, active)
  BY <1>1, DeletePreservesShape DEF DeletesAt
<1>3. DataOnce'
  BY <1>1, <1>2, DeleteKeepsData
<1> QED BY <1>1, <1>2, <1>3, IdleKeeps DEF Deleted

LEMMA UpdatePreserves ==
    ASSUME IInv, NEW l \in List, NEW x \in Data, dllist_update(l, x)
    PROVE  IInv'
<1> DEFINE a == list[l].active
<1>1. pc = Idle /\ pc' = pc /\ l \in exists /\ Shape /\ DataOnce
  BY IdleIsIInv DEF Ready, dllist_update
<1>2. a \in allocated /\ a \in Node
  BY <1>1, ActiveIsAPlace, ItemsOfList DEF dllist_update
<1> HIDE DEF a
<1>3. /\ node' = [node EXCEPT ![a].data = x] /\ x \notin alive
      /\ alive' = (alive \ ToSet(<<node[a].data>>)) \cup {x}
      /\ UNCHANGED <<exists, list, allocated, chain>>
  BY DEF dllist_update, a
<1>4. /\ node' \in Heap
      /\ \A m \in Node : /\ node'[m].data = IF m = a THEN x ELSE node[m].data
                         /\ node'[m].next = node[m].next /\ node'[m].prev = node[m].prev
  BY <1>1, <1>2, <1>3 DEF Shape, TypeOK, Heap
<1>5. Shape'
  <2>1. TypeOK' /\ ItemsOwnedOnce'
    BY <1>1, <1>3, <1>4 DEF Shape, TypeOK, ItemsOwnedOnce
  <2>2. AllLinked'
    <3>1. AllLinked
      BY <1>1, LinksByPlace DEF Shape
    <3>2. \A m \in List : \A k \in 1 .. Len(chain[m]) : chain[m][k] \in Node
      BY <1>1, ItemsOfList
    <3> QED BY <1>3, <1>4, <3>1, <3>2 DEF AllLinked, Linked, Joined
  <2>3. TypeOK' => (LinksAgree' <=> AllLinked')
    BY LinksByPlace, PTL
  <2> QED BY <2>1, <2>2, <2>3 DEF Shape
<1>6. DataOnce'
  <2>1. /\ \A j, m \in allocated : node[j].data = node[m].data => j = m
        /\ \A m \in allocated : node[m].data \in alive /\ m \in Node
    BY <1>1 DEF DataOnce, Shape, TypeOK
  <2>2. ASSUME NEW j \in allocated', NEW m \in allocated', node'[j].data = node'[m].data
        PROVE  j = m
    BY <1>3, <1>4, <2>1, <2>2
  <2>3. alive' = {node'[m].data : m \in allocated'}
    <3>1. alive = {node[m].data : m \in allocated} BY <1>1 DEF DataOnce
    <3>2. ToSet(<<node[a].data>>) = {node[a].data} BY DEF ToSet
    <3>3. {node'[m].data : m \in allocated} = {node[m].data : m \in allocated \ {a}} \cup {x}
      BY <1>2, <1>4, <2>1
    <3>4. {node[m].data : m \in allocated \ {a}} = {node[m].data : m \in allocated} \ {node[a].data}
      BY <1>2, <2>1
    <3> QED BY <1>3, <3>1, <3>2, <3>3, <3>4
  <2>4. alive' \subseteq Data
    BY <1>1, <1>3 DEF DataOnce
  <2> QED BY <2>2, <2>3, <2>4 DEF DataOnce
<1> QED BY <1>1, <1>5, <1>6, IdleKeeps

(* Operations that move the activity only.                                 *)
LEMMA WhereToGo ==
    ASSUME Shape, NEW l \in List
    PROVE  /\ list[l].first = Null \/ list[l].first \in ToSet(chain[l])
           /\ list[l].last = Null \/ list[l].last \in ToSet(chain[l])
           /\ Active(l) => LET a == node[list[l].active]
                           IN  /\ a.next = Null \/ a.next \in ToSet(chain[l])
                               /\ a.prev = Null \/ a.prev \in ToSet(chain[l])
<1>1. Len(chain[l]) \in Nat /\ ToSet(chain[l]) = {chain[l][k] : k \in 1 .. Len(chain[l])}
  BY ItemsOfList
<1>2. /\ list[l].first = Null \/ list[l].first \in ToSet(chain[l])
      /\ list[l].last = Null \/ list[l].last \in ToSet(chain[l])
  <2>1. Linked(l)
    BY LinksByPlace DEF Shape, AllLinked
  <2> QED BY <1>1, <2>1 DEF Linked
<1>3. ASSUME Active(l), NEW a, a = list[l].active
      PROVE  /\ node[a].next = Null \/ node[a].next \in ToSet(chain[l])
             /\ node[a].prev = Null \/ node[a].prev \in ToSet(chain[l])
  <2>1. PICK i \in 1 .. Len(chain[l]) : a = chain[l][i]
    BY <1>3, ActiveIsAPlace
  <2>2. /\ node[a].next = IF i = Len(chain[l]) THEN Null ELSE chain[l][i + 1]
        /\ node[a].prev = IF i = 1 THEN Null ELSE chain[l][i - 1]
    BY <2>1, NeighboursOfItem
  <2>3. \A k \in 1 .. Len(chain[l]) : chain[l][k] \in ToSet(chain[l])
    BY <1>1
  <2>4. i # Len(chain[l]) => i + 1 \in 1 .. Len(chain[l])
    BY <1>1
  <2>5. i # 1 => i - 1 \in 1 .. Len(chain[l])
    BY <1>1
  <2> QED BY <2>2, <2>3, <2>4, <2>5
<1> QED BY <1>2, <1>3

LEMMA MovePreserves ==
    ASSUME IInv, NEW l \in List, Ready(l), Same, NEW n, n = Null \/ n \in ToSet(chain[l]),
           activate(l, n)
    PROVE  IInv'
<1>1. pc = Idle /\ l \in exists /\ Shape /\ DataOnce
  BY IdleIsIInv DEF Ready
<1>2. Shape'
  BY <1>1, ActivatePreserves
<1>3. DataOnce' /\ pc' = pc
  BY <1>1 DEF DataOnce, activate, Same
<1> QED BY <1>1, <1>2, <1>3, IdleKeeps

LEMMA NewListPreserves ==
    ASSUME IInv, NEW l \in List, NewList(l)
    PROVE  IInv'
<1>1. pc = Idle /\ Shape /\ DataOnce /\ dllist_init(l) /\ pc' = pc
  BY IdleIsIInv DEF NewList
<1>2. DataOnce'
  BY <1>1 DEF DataOnce, dllist_init
<1> QED BY <1>1, <1>2, InitPreserves, IdleKeeps

LEMMA AskPreserves ==
    ASSUME IInv, NEW l \in List, Ask(l)
    PROVE  IInv'
<1>1. pc = Idle /\ Shape /\ DataOnce /\ UNCHANGED <<exists, list, node, allocated, chain, alive, pc>>
  BY IdleIsIInv DEF Ask, Ready, Same
<1>2. Shape'
  BY <1>1 DEF Shape, TypeOK, LinksAgree, ItemOf, ItemsOwnedOnce
<1>3. DataOnce'
  BY <1>1 DEF DataOnce
<1> QED BY <1>1, <1>2, <1>3, IdleKeeps
-----------------------------------------------------------------------------
(* The loops.  What a loop finds when it starts and when it moves on       *)
LEMMA RewindAt ==
    ASSUME Shape, NEW l \in exists, activate(l, list[l].first)
    PROVE  Shape' /\ ActiveAt(l, 1)' /\ list'[l].active = list'[l].first
<1>0. l \in List /\ Len(chain[l]) \in Nat /\ DOMAIN chain[l] = 1 .. Len(chain[l])
  BY ItemsOfList DEF Shape, TypeOK
<1>1. Shape'
  BY <1>0, WhereToGo, ActivatePreserves
<1>2. list'[l].active = list[l].first /\ list'[l].first = list[l].first /\ chain' = chain
  BY <1>0 DEF activate, Shape, TypeOK
<1>3. list[l].first = IF 1 = Len(chain[l]) + 1 THEN Null ELSE chain[l][1]
  BY <1>0, EndsOfList
<1>4. Len(chain[l]) # 0 => 1 \in DOMAIN chain[l]
  BY <1>0
<1> QED BY <1>0, <1>1, <1>2, <1>3, <1>4 DEF ActiveAt

LEMMA ActiveIsHere ==
    ASSUME Shape, NEW l \in List, NEW k, ActiveAt(l, k)
    PROVE  /\ Active(l) => k \in 1 .. Len(chain[l]) /\ list[l].active = chain[l][k]
           /\ ~Active(l) => k = Len(chain[l]) + 1
<1>1. DOMAIN chain[l] = 1 .. Len(chain[l]) /\ \A j \in 1 .. Len(chain[l]) : chain[l][j] # Null
  BY ItemsOfList
<1> QED BY <1>1 DEF ActiveAt, Active

LEMMA Advance ==
    ASSUME Shape, NEW l \in exists, NEW k \in 1 .. Len(chain[l]), list[l].active = chain[l][k], succ(l)
    PROVE  Shape' /\ ActiveAt(l, k + 1)'
<1>0. l \in List /\ Len(chain[l]) \in Nat /\ DOMAIN chain[l] = 1 .. Len(chain[l]) /\ Active(l)
  BY ItemsOfList DEF Shape, TypeOK, Active
<1>1. activate(l, node[list[l].active].next)
  BY DEF succ
<1>2. Shape'
  BY <1>0, <1>1, WhereToGo, ActivatePreserves
<1>3. list'[l].active = node[chain[l][k]].next /\ chain' = chain
  BY <1>0, <1>1 DEF activate, Shape, TypeOK
<1>4. node[chain[l][k]].next = IF k = Len(chain[l]) THEN Null ELSE chain[l][k + 1]
  BY <1>0, NeighboursOfItem
<1>5. k # Len(chain[l]) => k + 1 \in DOMAIN chain[l]
  BY <1>0
<1> QED BY <1>2, <1>3, <1>4, <1>5 DEF ActiveAt

\* While no list is moved, every datum has one item.
LEMMA StillIsOnce == ~Moving => (DataSharedByCopies <=> DataOnce)
  BY DEF Moving, DataSharedByCopies, DataOnce

LEMMA StillIsOnceNext == ~Moving' => (DataSharedByCopies' <=> DataOnce')
  BY StillIsOnce, PTL

LEMMA LengthPreserves ==
    ASSUME IInv, NEW l \in List, dllist_length(l)
    PROVE  IInv'
<1>1. pc = Idle /\ l \in exists /\ Shape /\ DataOnce /\ activate(l, list[l].first)
  BY IdleIsIInv DEF dllist_length, Ready
<1>2. pc' = [op |-> "length", src |-> l, dst |-> Null, n |-> 0]
  BY DEF dllist_length, Start
<1>3. Shape' /\ ActiveAt(l, 1)' /\ exists' = exists
  BY <1>1, RewindAt DEF activate
<1>4. DataSharedByCopies'
  BY <1>1, <1>2, StillIsOnceNext DEF Moving, DataOnce, activate, dllist_length
<1>5. LoopsOnTheirWay'
  BY <1>1, <1>2, <1>3 DEF LoopsOnTheirWay, Steps, Loops, Moving
<1> QED BY <1>3, <1>4, <1>5 DEF IInv

LEMMA FreePreserves ==
    ASSUME IInv, NEW l \in List, dllist_free(l)
    PROVE  IInv'
<1>1. pc = Idle /\ l \in exists /\ Shape /\ DataOnce /\ activate(l, list[l].first)
  BY IdleIsIInv DEF dllist_free, Ready
<1>2. pc' = [op |-> "free", src |-> l, dst |-> Null, n |-> 0]
  BY DEF dllist_free, Start
<1>3. Shape' /\ list'[l].active = list'[l].first /\ exists' = exists
  BY <1>1, RewindAt DEF activate
<1>4. DataSharedByCopies'
  BY <1>1, <1>2, StillIsOnceNext DEF Moving, DataOnce, activate, dllist_free
<1>5. LoopsOnTheirWay'
  BY <1>1, <1>2, <1>3 DEF LoopsOnTheirWay, Steps, Loops, Moving
<1> QED BY <1>3, <1>4, <1>5 DEF IInv

LEMMA CopyPreserves ==
    ASSUME IInv, NEW l \in List, NEW m \in List, sem_value_copy(l, m)
    PROVE  IInv'
<1>1. pc = Idle /\ l \in exists /\ Shape /\ DataOnce /\ dllist_init(m)
  BY IdleIsIInv DEF sem_value_copy, Ready
<1>2. pc' = [op |-> "copy", src |-> l, dst |-> m, n |-> 0]
  BY DEF sem_value_copy, Start
<1>3. Shape' /\ exists' = exists \cup {m} /\ m \notin exists /\ chain' = chain /\ chain[m] = << >>
  BY <1>1, InitPreserves DEF dllist_init, Shape, ItemsOwnedOnce
<1>4. DataSharedByCopies'
  BY <1>1, <1>2, StillIsOnceNext DEF Moving, DataOnce, dllist_init
<1>5. LoopsOnTheirWay'
  BY <1>1, <1>2, <1>3 DEF LoopsOnTheirWay, Steps, Loops, Moving
<1> QED BY <1>3, <1>4, <1>5 DEF IInv

(* Counting                                                                *)
LEMMA CountPreserves == IInv /\ Count => IInv'
<1> SUFFICES ASSUME IInv, Count PROVE IInv'
  OBVIOUS
<1>1. /\ Shape /\ DataOnce /\ pc.op = "length" /\ pc.n \in Nat /\ pc.src \in exists
      /\ pc \in Steps
  BY StillIsOnce DEF Count, At, IInv, LoopsOnTheirWay, Moving, Steps
<1>2. PICK l \in exists, k \in Nat : l = pc.src /\ k = pc.n + 1
  BY <1>1
<1>3. l \in List /\ ActiveAt(l, k) /\ Active(l) /\ succ(l)
  BY <1>1, <1>2 DEF Count, IInv, LoopsOnTheirWay, Shape, TypeOK
<1>4. k \in 1 .. Len(chain[l]) /\ list[l].active = chain[l][k]
  BY <1>1, <1>3, ActiveIsHere
<1>5. Shape' /\ ActiveAt(l, k + 1)' /\ exists' = exists
  BY <1>1, <1>3, <1>4, Advance DEF succ, activate
<1>6. /\ pc' \in Steps
      /\ pc'.op = "length" /\ pc'.src = l /\ pc'.n = k
  BY <1>1, <1>2 DEF Count, Steps
<1>7. DataSharedByCopies'
  BY <1>1, <1>3, <1>6, StillIsOnceNext DEF Moving, DataOnce, succ, activate, Count
<1>8. LoopsOnTheirWay'
  BY <1>5, <1>6 DEF LoopsOnTheirWay, Moving
<1> QED BY <1>5, <1>7, <1>8 DEF IInv

LEMMA CountedPreserves == IInv /\ Counted => IInv'
<1> SUFFICES ASSUME IInv, Counted PROVE IInv'
  OBVIOUS
<1>1. Shape /\ DataOnce
  BY StillIsOnce DEF Counted, At, IInv, Moving
<1>2. pc' = Idle /\ UNCHANGED <<exists, list, node, allocated, alive, chain>>
  BY DEF Counted
<1>3. Shape' /\ DataOnce'
  BY <1>1, <1>2 DEF Shape, TypeOK, LinksAgree, ItemOf, ItemsOwnedOnce, DataOnce
<1> QED BY <1>2, <1>3, IdleAgain

(* Freeing a list, item by item                                            *)
LEMMA DeleteFirstActive ==
    ASSUME Shape, NEW l \in exists, Active(l), list[l].active = list[l].first, delete_and_succ(l)
    PROVE  /\ 1 \in 1 .. Len(chain[l]) /\ list[l].active = chain[l][1]
           /\ Shape' /\ AfterDelete(l, 1, After(l, 1))
           /\ list'[l].active = list'[l].first
<1>0. l \in List /\ Len(chain[l]) \in Nat
  BY ItemsOfList DEF Shape, TypeOK
<1>1. 1 \in 1 .. Len(chain[l]) /\ list[l].active = chain[l][1]
  BY <1>0, EndsOfList DEF Active
<1>2. DeletesAt(l, 1, After(l, 1))
  BY <1>1, DeleteActiveAt
<1>3. Shape' /\ AfterDelete(l, 1, After(l, 1))
  BY <1>1, <1>2, DeletePreservesShape DEF DeletesAt
<1>4. list'[l].active = list'[l].first
  BY <1>0 DEF delete_and_succ, Unlink, Shape, TypeOK
<1> QED BY <1>1, <1>3, <1>4

LEMMA FreeItemPreserves == IInv /\ FreeItem => IInv'
<1> SUFFICES ASSUME IInv, FreeItem PROVE IInv'
  OBVIOUS
<1>1. /\ Shape /\ DataOnce /\ pc.op = "free" /\ pc.src \in exists /\ pc' = pc
      /\ pc \in Steps
  BY StillIsOnce DEF FreeItem, At, IInv, LoopsOnTheirWay, Moving, Deleted
<1>2. PICK l \in exists : l = pc.src
  BY <1>1
<1>3. /\ l \in List /\ list[l].active = list[l].first
      /\ Active(l) /\ delete_and_succ(l) /\ Deleted
  BY <1>1, <1>2 DEF FreeItem, IInv, LoopsOnTheirWay, Shape, TypeOK
<1>4. /\ 1 \in 1 .. Len(chain[l]) /\ Shape' /\ AfterDelete(l, 1, After(l, 1))
      /\ list'[l].active = list'[l].first /\ exists' = exists
  BY <1>1, <1>3, DeleteFirstActive DEF AfterDelete
<1>5. DataOnce'
  BY <1>1, <1>3, <1>4, DeleteKeepsData
<1>6. DataSharedByCopies'
  BY <1>1, <1>5, StillIsOnceNext DEF Moving
<1>7. LoopsOnTheirWay'
  BY <1>1, <1>2, <1>4 DEF LoopsOnTheirWay, Moving
<1> QED BY <1>4, <1>6, <1>7 DEF IInv

LEMMA FreeListPreserves == IInv /\ FreeList => IInv'
<1> SUFFICES ASSUME IInv, FreeList PROVE IInv'
  OBVIOUS
<1>1. Shape /\ DataOnce /\ pc.src \in exists /\ pc.src \in List
  BY StillIsOnce DEF FreeList, At, IInv, LoopsOnTheirWay, Moving, Shape, TypeOK
<1>2. /\ pc' = Idle /\ exists' = exists \ {pc.src}
      /\ UNCHANGED <<list, node, allocated, alive, chain>>
  BY DEF FreeList
<1>3. chain[pc.src] = << >>
  <2>1. list[pc.src].first = Null
    BY DEF FreeList, At, Active, IInv, LoopsOnTheirWay
  <2>2. Len(chain[pc.src]) = 0 /\ chain[pc.src] \in Seq(Node)
    BY <1>1, <2>1, EndsOfList, ItemsOfList
  <2> QED BY <2>2, EmptySeq
<1>4. ItemsOwnedOnce'
  <2>1. ToSet(chain[pc.src]) = {}
    BY <1>3 DEF ToSet
  <2>2. UNION {ToSet(chain[m]) : m \in exists \ {pc.src}} = UNION {ToSet(chain[m]) : m \in exists}
    BY <2>1
  <2> QED BY <1>1, <1>2, <1>3, <2>2 DEF Shape, ItemsOwnedOnce
<1>5. Shape' /\ DataOnce'
  BY <1>1, <1>2, <1>4 DEF Shape, TypeOK, LinksAgree, ItemOf, DataOnce
<1> QED BY <1>2, <1>5, IdleAgain
-----------------------------------------------------------------------------
(* Moving a list into a copy.  While it is copied, the k-th copy has the   *)
(* data of the k-th item, and nothing else shares data; once it is copied, *)
(* every item left has a copy.                                             *)
Shared(s, d) ==
    /\ \A n, m \in allocated : node[n].data = node[m].data =>
          \/ n = m
          \/ n \in ToSet(chain[s]) /\ m \in ToSet(chain[d])
          \/ m \in ToSet(chain[s]) /\ n \in ToSet(chain[d])
    /\ alive = {node[n].data : n \in allocated}
    /\ alive \subseteq Data

CopiedSoFar(s, d) == Shared(s, d) /\ \A k \in DOMAIN chain[d] : SameData(d, k, s, k)
AllCopied(s, d) ==
    Shared(s, d) /\ \A j \in DOMAIN chain[s] : \E k \in DOMAIN chain[d] : SameData(s, j, d, k)

MovesFrom(op, s, d) ==
    pc \in Steps /\ pc.op = op /\ pc.src = s /\ pc.dst = d /\ s \in exists /\ d \in exists /\ s # d

LEMMA WhileCopying ==
    ASSUME IInv, pc.op \in {"insert", "advance"}
    PROVE  \E s, d \in List :
               /\ MovesFrom(pc.op, s, d) /\ CopiedSoFar(s, d)
               /\ pc.op = "insert" => ActiveAt(s, Len(chain[d]) + 1)
               /\ pc.op = "advance" => /\ Len(chain[d]) \in DOMAIN chain[s]
                                       /\ list[s].active = chain[s][Len(chain[d])]
<1>1. MovesFrom(pc.op, pc.src, pc.dst) /\ pc.src \in List /\ pc.dst \in List
  BY DEF IInv, LoopsOnTheirWay, Moving, MovesFrom, Shape, TypeOK
<1>2. CopiedSoFar(pc.src, pc.dst)
  BY DEF IInv, DataSharedByCopies, Moving, CopiedSoFar, Shared
<1> QED BY <1>1, <1>2 DEF IInv, LoopsOnTheirWay

LEMMA WhileDraining ==
    ASSUME IInv, pc.op \in {"copied", "drain"}
    PROVE  \E s, d \in List :
               /\ MovesFrom(pc.op, s, d) /\ AllCopied(s, d)
               /\ pc.op = "drain" => list[s].active = list[s].first
<1>1. MovesFrom(pc.op, pc.src, pc.dst) /\ pc.src \in List /\ pc.dst \in List
  BY DEF IInv, LoopsOnTheirWay, Moving, MovesFrom, Shape, TypeOK
<1>2. AllCopied(pc.src, pc.dst)
  BY DEF IInv, DataSharedByCopies, Moving, AllCopied, Shared
<1> QED BY <1>1, <1>2 DEF IInv, LoopsOnTheirWay

\* What a step has to leave, once the loop is at op
LEMMA InsertNext ==
    ASSUME NEW s, NEW d, Shape', MovesFrom("insert", s, d)', CopiedSoFar(s, d)', ActiveAt(s, Len(chain[d]) + 1)'
    PROVE  IInv'
<1>1. LoopsOnTheirWay'
  BY DEF LoopsOnTheirWay, Moving, MovesFrom, ActiveAt
<1>2. DataSharedByCopies'
  BY DEF DataSharedByCopies, Moving, MovesFrom, CopiedSoFar, Shared, SameData
<1> QED BY <1>1, <1>2 DEF IInv

LEMMA AdvanceNext ==
    ASSUME NEW s, NEW d, Shape', MovesFrom("advance", s, d)', CopiedSoFar(s, d)',
           Len(chain'[d]) \in DOMAIN chain'[s], list'[s].active = chain'[s][Len(chain'[d])]
    PROVE  IInv'
<1>1. LoopsOnTheirWay'
  BY DEF LoopsOnTheirWay, Moving, MovesFrom
<1>2. DataSharedByCopies'
  BY DEF DataSharedByCopies, Moving, MovesFrom, CopiedSoFar, Shared, SameData
<1> QED BY <1>1, <1>2 DEF IInv

LEMMA DrainNext ==
    ASSUME NEW s, NEW d, NEW op \in {"copied", "drain"}, Shape', MovesFrom(op, s, d)', AllCopied(s, d)',
           op = "drain" => list'[s].active = list'[s].first
    PROVE  IInv'
<1>1. LoopsOnTheirWay'
  BY DEF LoopsOnTheirWay, Moving, MovesFrom
<1>2. DataSharedByCopies'
  BY DEF DataSharedByCopies, Moving, MovesFrom, AllCopied, Shared, SameData
<1> QED BY <1>1, <1>2 DEF IInv

LEMMA CopyFirstPreserves == IInv /\ CopyFirst => IInv'
<1> SUFFICES ASSUME IInv, CopyFirst PROVE IInv'
  OBVIOUS
<1>1. /\ Shape /\ DataOnce /\ pc \in Steps /\ pc.op = "copy" /\ pc.src \in exists
      /\ pc.dst \in exists \ {pc.src} /\ chain[pc.dst] = << >>
  BY StillIsOnce DEF CopyFirst, Rewind, At, IInv, LoopsOnTheirWay, Moving
<1>2. PICK s \in exists, d \in exists : s = pc.src /\ d = pc.dst
  BY <1>1
<1>3. activate(s, list[s].first) /\ pc' = [pc EXCEPT !.op = "insert"] /\ alive' = alive
  BY <1>2 DEF CopyFirst, Rewind, Goto
<1>4. Shape' /\ ActiveAt(s, 1)'
  BY <1>1, <1>3, RewindAt
<1>5. chain'[d] = << >> /\ Len(chain'[d]) + 1 = 1
  BY <1>1, <1>2, <1>3 DEF activate
<1>6. ActiveAt(s, Len(chain[d]) + 1)'
  BY <1>4, <1>5
<1>7. MovesFrom("insert", s, d)'
  BY <1>1, <1>2, <1>3 DEF MovesFrom, Steps, Loops, activate
<1>8. CopiedSoFar(s, d)'
  BY <1>1, <1>3, <1>5 DEF CopiedSoFar, Shared, DataOnce, activate
<1> QED BY <1>4, <1>6, <1>7, <1>8, InsertNext

LEMMA CopyNextPreserves == IInv /\ CopyNext => IInv'
<1> SUFFICES ASSUME IInv, CopyNext PROVE IInv'
  OBVIOUS
<1>1. PICK s, d \in List :
          /\ MovesFrom("advance", s, d) /\ CopiedSoFar(s, d)
          /\ Len(chain[d]) \in DOMAIN chain[s] /\ list[s].active = chain[s][Len(chain[d])]
  BY WhileCopying DEF CopyNext, At
<1>2. succ(s) /\ pc' = [pc EXCEPT !.op = "insert"] /\ alive' = alive /\ s \in exists /\ Shape
  BY <1>1 DEF CopyNext, Goto, MovesFrom, IInv
<1>3. PICK k \in 1 .. Len(chain[s]) : k = Len(chain[d])
  BY <1>1, <1>2, ItemsOfList
<1>4. Shape' /\ ActiveAt(s, k + 1)' /\ UNCHANGED <<exists, node, allocated, chain>>
  BY <1>1, <1>2, <1>3, Advance DEF succ, activate
<1>5. ActiveAt(s, Len(chain[d]) + 1)'
  BY <1>3, <1>4
<1>6. MovesFrom("insert", s, d)'
  BY <1>1, <1>2, <1>4 DEF MovesFrom, Steps, Loops
<1>7. CopiedSoFar(s, d)'
  BY <1>1, <1>2, <1>4 DEF CopiedSoFar, Shared, SameData
<1> QED BY <1>4, <1>5, <1>6, <1>7, InsertNext

LEMMA CopiedPreserves == IInv /\ Copied => IInv'
<1> SUFFICES ASSUME IInv, Copied PROVE IInv'
  OBVIOUS
<1>1. PICK s, d \in List :
          MovesFrom("insert", s, d) /\ CopiedSoFar(s, d) /\ ActiveAt(s, Len(chain[d]) + 1)
  BY WhileCopying DEF Copied, At
<1>2. /\ ~Active(s) /\ pc' = [pc EXCEPT !.op = "copied"] /\ Shape
      /\ UNCHANGED <<exists, list, node, allocated, alive, chain>>
  BY <1>1 DEF Copied, Goto, MovesFrom, IInv
<1>3. Len(chain[d]) = Len(chain[s])
  BY <1>1, <1>2, ActiveIsHere, ItemsOfList
<1>4. Shape'
  BY <1>2 DEF Shape, TypeOK, LinksAgree, ItemOf, ItemsOwnedOnce
<1>5. MovesFrom("copied", s, d)'
  BY <1>1, <1>2 DEF MovesFrom, Steps, Loops
<1>6. AllCopied(s, d)'
  <2>1. DOMAIN chain[s] = DOMAIN chain[d]
    BY <1>2, <1>3, ItemsOfList
  <2> QED BY <1>1, <1>2, <2>1 DEF AllCopied, CopiedSoFar, Shared, SameData
<1> QED BY <1>4, <1>5, <1>6, DrainNext

LEMMA DrainFirstPreserves == IInv /\ DrainFirst => IInv'
<1> SUFFICES ASSUME IInv, DrainFirst PROVE IInv'
  OBVIOUS
<1>1. PICK s, d \in List : MovesFrom("copied", s, d) /\ AllCopied(s, d)
  BY WhileDraining DEF DrainFirst, Rewind, At
<1>2. /\ activate(s, list[s].first) /\ pc' = [pc EXCEPT !.op = "drain"] /\ alive' = alive
      /\ Shape /\ s \in exists
  BY <1>1 DEF DrainFirst, Rewind, Goto, MovesFrom, IInv
<1>3. Shape' /\ list'[s].active = list'[s].first /\ UNCHANGED <<exists, node, allocated, chain>>
  BY <1>1, <1>2, RewindAt DEF activate
<1>4. MovesFrom("drain", s, d)'
  BY <1>1, <1>2, <1>3 DEF MovesFrom, Steps, Loops
<1>5. AllCopied(s, d)'
  BY <1>1, <1>2, <1>3 DEF AllCopied, Shared, SameData
<1> QED BY <1>3, <1>4, <1>5, DrainNext

LEMMA DrainedPreserves == IInv /\ Drained => IInv'
<1> SUFFICES ASSUME IInv, Drained PROVE IInv'
  OBVIOUS
<1>1. PICK s, d \in List :
          MovesFrom("drain", s, d) /\ AllCopied(s, d) /\ list[s].active = list[s].first
  BY WhileDraining DEF Drained, At
<1>2. /\ ~Active(s) /\ pc' = Idle /\ Shape
      /\ UNCHANGED <<exists, list, node, allocated, alive, chain>>
  BY <1>1 DEF Drained, MovesFrom, IInv
<1>3. Shape'
  BY <1>2 DEF Shape, TypeOK, LinksAgree, ItemOf, ItemsOwnedOnce
<1>4. ToSet(chain[s]) = {}
  <2>1. Len(chain[s]) = 0
    BY <1>1, <1>2, EndsOfList DEF Active
  <2>2. ToSet(chain[s]) = {chain[s][k] : k \in 1 .. Len(chain[s])}
    BY <1>2, ItemsOfList
  <2> QED BY <2>1, <2>2
<1>5. DataOnce'
  BY <1>1, <1>2, <1>4 DEF DataOnce, AllCopied, Shared
<1> QED BY <1>2, <1>3, <1>5, IdleAgain

(* The item that is copied gets the data of the active one.                *)
LEMMA InsertCopy ==
    ASSUME Shape, NEW s \in List, NEW d \in exists, s # d, CopiedSoFar(s, d),
           NEW k \in 1 .. Len(chain[s]), k = Len(chain[d]) + 1, list[s].active = chain[s][k],
           NEW n, LinkAt(d, n, node[chain[s][k]].data, k), alive' = alive
    PROVE  /\ Shape' /\ CopiedSoFar(s, d)' /\ Len(chain'[d]) = k /\ exists' = exists
           /\ chain'[s] = chain[s] /\ list'[s].active = chain[s][k]
<1> DEFINE a == chain[s][k]
           x == node[chain[s][k]].data
           e == chain[d]
<1>1. /\ d \in List /\ e \in Seq(Node) /\ Len(e) \in Nat /\ a \in allocated /\ a \in Node
      /\ DOMAIN chain[s] = 1 .. Len(chain[s]) /\ DOMAIN e = 1 .. Len(e)
      /\ ToSet(e) = {e[j] : j \in 1 .. Len(e)} /\ allocated \subseteq Node
      /\ ToSet(chain[s]) = {chain[s][j] : j \in 1 .. Len(chain[s])}
  BY ItemsOfList DEF Shape, TypeOK
<1>2. x \in alive /\ x \in Data
  BY <1>1 DEF CopiedSoFar, Shared
<1>3. Shape' /\ AfterInsert(d, n, x, k)
  BY <1>1, <1>2, InsertPreservesShape
<1>4. /\ n \in Node /\ n \notin allocated /\ allocated' = allocated \cup {n}
      /\ chain'[d] = InsertAt(e, k, n) /\ chain'[s] = chain[s]
      /\ node'[n].data = x /\ \A m \in allocated : node'[m].data = node[m].data
      /\ list'[s].active = a /\ exists' = exists
  BY <1>1, <1>3 DEF AfterInsert, Shape, TypeOK
<1>5. /\ Len(chain'[d]) = k /\ DOMAIN chain'[d] = 1 .. k /\ chain'[d][k] = n
      /\ \A j \in 1 .. Len(e) : chain'[d][j] = e[j]
  <2>1. InsertedAt(Node, e, k, n, InsertAt(e, k, n))
    BY <1>1, <1>4, InsertAtProperties
  <2>2. InsertAt(e, k, n) \in Seq(Node) /\ Len(InsertAt(e, k, n)) = k
    BY <2>1 DEF InsertedAt
  <2>3. InsertAt(e, k, n)[k] = n /\ \A j \in 1 .. Len(e) : InsertAt(e, k, n)[j] = e[j]
    BY <1>1, <2>1 DEF InsertedAt
  <2> QED BY <1>4, <2>2, <2>3, LenProperties
<1>6. ToSet(chain'[d]) = ToSet(e) \cup {n}
  BY <1>1, <1>4, ToSetOfInsertAt
<1>7. \A j \in 1 .. Len(e) : e[j] \in allocated /\ chain[s][j] \in allocated /\ SameData(d, j, s, j)
  BY <1>1, ItemsOfList DEF CopiedSoFar
<1>8. \A j \in DOMAIN chain'[d] : SameData(d, j, s, j)'
  <2> SUFFICES ASSUME NEW j \in 1 .. k
               PROVE  node'[chain'[d][j]].data = node'[chain[s][j]].data
    BY <1>4, <1>5 DEF SameData
  <2>1. CASE j = k
    BY <1>1, <1>4, <1>5, <2>1
  <2>2. CASE j # k
    <3>1. j \in 1 .. Len(e) BY <1>1, <2>2
    <3>2. node[e[j]].data = node[chain[s][j]].data
      BY <1>7, <3>1 DEF SameData
    <3>3. chain'[d][j] = e[j] /\ e[j] \in allocated /\ chain[s][j] \in allocated
      BY <1>5, <1>7, <3>1
    <3> HIDE DEF a, x, e
    <3> QED BY <1>4, <3>2, <3>3
  <2> QED BY <2>1, <2>2
<1>9. ASSUME NEW m \in allocated, node[m].data = x, m # a
      PROVE  m \in ToSet(e)
  <2>1. a \in ToSet(chain[s]) /\ a \notin ToSet(e)
    BY <1>1, ListsDoNotShare
  <2> QED BY <1>1, <1>9, <2>1 DEF CopiedSoFar, Shared
<1>10. ASSUME NEW m \in allocated, node[m].data = x
       PROVE  m \in ToSet(chain[s])
  <2>1. a \in ToSet(chain[s])
    BY <1>1
  <2>2. CASE m # a
    <3>1. PICK j \in 1 .. Len(e) : m = e[j]
      BY <1>1, <1>9, <1>10, <2>2
    <3>2. j \in 1 .. Len(chain[s]) /\ j # k
      BY <1>1, <3>1
    <3>3. chain[s][j] \in allocated /\ chain[s][j] # a /\ node[chain[s][j]].data = x
      BY <1>7, <1>10, <3>1, <3>2, ItemsOfList DEF Once, SameData
    <3>4. chain[s][j] \in ToSet(e)
      BY <1>9, <3>3
    <3> QED BY <1>1, <3>2, <3>4, ListsDoNotShare
  <2> QED BY <2>1, <2>2
<1>11. Shared(s, d)'
  <2>1. ASSUME NEW i \in allocated', NEW m \in allocated', node'[i].data = node'[m].data, i # m
        PROVE  \/ i \in ToSet(chain'[s]) /\ m \in ToSet(chain'[d])
               \/ m \in ToSet(chain'[s]) /\ i \in ToSet(chain'[d])
    <3>1. CASE i \in allocated /\ m \in allocated
      BY <1>4, <1>6, <2>1, <3>1 DEF CopiedSoFar, Shared
    <3>2. CASE i = n /\ m \in allocated
      BY <1>4, <1>6, <1>10, <2>1, <3>2
    <3>3. CASE m = n /\ i \in allocated
      BY <1>4, <1>6, <1>10, <2>1, <3>3
    <3> QED BY <1>4, <2>1, <3>1, <3>2, <3>3
  <2>2. alive' = {node'[m].data : m \in allocated'} /\ alive' \subseteq Data
    <3>1. alive = {node[m].data : m \in allocated} /\ alive \subseteq Data
      BY DEF CopiedSoFar, Shared
    <3>2. {node'[m].data : m \in allocated \cup {n}} = {node[m].data : m \in allocated} \cup {x}
      BY <1>4
    <3> QED BY <1>2, <1>4, <3>1, <3>2
  <2> QED BY <2>1, <2>2 DEF Shared
<1> QED BY <1>3, <1>4, <1>5, <1>8, <1>11 DEF CopiedSoFar

LEMMA CopyItemPreserves == \A n \in Node : IInv /\ CopyItem(n) => IInv'
<1> SUFFICES ASSUME NEW n \in Node, IInv, CopyItem(n) PROVE IInv'
  OBVIOUS
<1>1. PICK s, d \in List :
          MovesFrom("insert", s, d) /\ CopiedSoFar(s, d) /\ ActiveAt(s, Len(chain[d]) + 1)
  BY WhileCopying DEF CopyItem, At
<1>2. /\ Active(s) /\ pc' = [pc EXCEPT !.op = "advance"] /\ alive' = alive /\ Shape
      /\ s \in exists /\ d \in exists /\ s # d
      /\ IF list[d].first = Null THEN insert_first(d, n, node[list[s].active].data)
         ELSE insert_last(d, n, node[list[s].active].data)
  BY <1>1 DEF CopyItem, Goto, MovesFrom, IInv, DataOf, Active
<1>3. PICK k \in 1 .. Len(chain[s]) : k = Len(chain[d]) + 1 /\ list[s].active = chain[s][k]
  BY <1>1, <1>2, ActiveIsHere
<1>4. LinkAt(d, n, node[chain[s][k]].data, k)
  <2>1. CASE list[d].first = Null
    <3>1. k = 1
      BY <1>1, <1>2, <1>3, <2>1, EndsOfList
    <3> QED BY <1>2, <1>3, <2>1, <3>1, InsertFirstAt
  <2>2. CASE list[d].first # Null
    BY <1>2, <1>3, <2>2, InsertLastAt
  <2> QED BY <2>1, <2>2
<1>5. /\ Shape' /\ CopiedSoFar(s, d)' /\ Len(chain'[d]) = k /\ exists' = exists
      /\ chain'[s] = chain[s] /\ list'[s].active = chain[s][k]
  <2>1. Shape /\ d \in exists /\ s # d /\ alive' = alive
    BY <1>2
  <2>2. CopiedSoFar(s, d)
    BY <1>1
  <2> QED BY <1>3, <1>4, <2>1, <2>2, InsertCopy
<1>6. MovesFrom("advance", s, d)'
  BY <1>1, <1>2, <1>5 DEF MovesFrom, Steps, Loops
<1>7. Len(chain'[d]) \in DOMAIN chain'[s] /\ list'[s].active = chain'[s][Len(chain'[d])]
  BY <1>1, <1>2, <1>5, ItemsOfList
<1> QED BY <1>5, <1>6, <1>7, AdvanceNext

LEMMA DrainItemPreserves == IInv /\ DrainItem => IInv'
<1> SUFFICES ASSUME IInv, DrainItem PROVE IInv'
  OBVIOUS
<1>1. PICK s, d \in List :
          MovesFrom("drain", s, d) /\ AllCopied(s, d) /\ list[s].active = list[s].first
  BY WhileDraining DEF DrainItem, At
<1>2. /\ Active(s) /\ delete_and_succ(s) /\ pc' = pc /\ alive' = alive /\ Shape
      /\ s \in exists /\ s # d
  BY <1>1 DEF DrainItem, MovesFrom, IInv, Same
<1> DEFINE c == chain[s]
           a == chain[s][1]
<1>3. /\ 1 \in 1 .. Len(c) /\ Shape' /\ AfterDelete(s, 1, After(s, 1))
      /\ list'[s].active = list'[s].first
  BY <1>1, <1>2, DeleteFirstActive
<1>4. /\ a \in allocated /\ allocated' = allocated \ {a} /\ exists' = exists
      /\ \A m \in allocated \ {a} : node'[m].data = node[m].data
      /\ chain'[s] = RemoveAt(c, 1) /\ chain'[d] = chain[d]
  BY <1>1, <1>2, <1>3 DEF AfterDelete, Shape, TypeOK
<1>5. /\ c \in Seq(Node) /\ Len(c) \in Nat /\ DOMAIN c = 1 .. Len(c) /\ Once(c)
      /\ \A j \in 1 .. Len(c) : c[j] \in allocated
      /\ DOMAIN chain[d] = 1 .. Len(chain[d])
      /\ \A j \in 1 .. Len(chain[d]) : chain[d][j] \in allocated
  BY <1>1, <1>2, ItemsOfList
<1>6. /\ DOMAIN chain'[s] = 1 .. Len(c) - 1
      /\ \A j \in 1 .. Len(c) - 1 : chain'[s][j] = c[j + 1]
  <2>1. RemovedAt(Node, c, 1, RemoveAt(c, 1))
    BY <1>3, <1>5, RemoveAtProperties
  <2>2. RemoveAt(c, 1) \in Seq(Node) /\ Len(RemoveAt(c, 1)) = Len(c) - 1
    BY <2>1 DEF RemovedAt
  <2>3. \A j \in 1 .. Len(c) - 1 : RemoveAt(c, 1)[j] = c[j + 1]
    BY <1>5, <2>1 DEF RemovedAt
  <2> QED BY <1>4, <2>2, <2>3, LenProperties
<1>7. ToSet(chain'[s]) = ToSet(c) \ {a}
  BY <1>3, <1>4, <1>5, ToSetOfRemoveAt DEF Once
<1>8. \A k \in 1 .. Len(chain[d]) : chain[d][k] # a
  BY <1>1, <1>2, <1>3, ListsDoNotShare
<1>9. \A j \in DOMAIN chain'[s] : \E k \in DOMAIN chain'[d] : SameData(s, j, d, k)'
  <2>0. DOMAIN chain'[s] = 1 .. Len(c) - 1 /\ DOMAIN chain'[d] = 1 .. Len(chain[d])
    BY <1>4, <1>5, <1>6
  <2> SUFFICES ASSUME NEW j \in 1 .. Len(c) - 1
               PROVE  \E k \in 1 .. Len(chain[d]) : node'[chain'[s][j]].data = node'[chain'[d][k]].data
    BY <2>0 DEF SameData
  <2>1. j + 1 \in 1 .. Len(c) /\ j + 1 # 1
    BY <1>5
  <2>2. PICK k \in 1 .. Len(chain[d]) : node[c[j + 1]].data = node[chain[d][k]].data
    BY <1>1, <1>5, <2>1 DEF AllCopied, SameData
  <2>3. c[j + 1] # a /\ c[j + 1] \in allocated
    BY <1>3, <1>5, <2>1 DEF Once
  <2> QED BY <1>4, <1>5, <1>6, <1>8, <2>2, <2>3
<1>10. Shared(s, d)'
  <2>1. ASSUME NEW i \in allocated', NEW m \in allocated', node'[i].data = node'[m].data, i # m
        PROVE  \/ i \in ToSet(chain'[s]) /\ m \in ToSet(chain'[d])
               \/ m \in ToSet(chain'[s]) /\ i \in ToSet(chain'[d])
    BY <1>1, <1>4, <1>7, <2>1 DEF AllCopied, Shared
  <2>2. alive' = {node'[m].data : m \in allocated'} /\ alive' \subseteq Data
    <3>1. alive = {node[m].data : m \in allocated} /\ alive \subseteq Data
      BY <1>1 DEF AllCopied, Shared
    <3>2. {node'[m].data : m \in allocated \ {a}} = {node[m].data : m \in allocated \ {a}}
      BY <1>4
    <3>3. PICK k \in 1 .. Len(chain[d]) : node[a].data = node[chain[d][k]].data
      BY <1>1, <1>3, <1>5 DEF AllCopied, SameData
    <3>4. chain[d][k] \in allocated \ {a}
      BY <1>5, <1>8
    <3>5. {node[m].data : m \in allocated \ {a}} = {node[m].data : m \in allocated}
      BY <3>3, <3>4
    <3> QED BY <1>2, <1>4, <3>1, <3>2, <3>5
  <2> QED BY <2>1, <2>2 DEF Shared
<1>11. MovesFrom("drain", s, d)'
  BY <1>1, <1>2, <1>4 DEF MovesFrom
<1> QED BY <1>3, <1>9, <1>10, <1>11, DrainNext DEF AllCopied
-----------------------------------------------------------------------------
LEMMA InitEstablishes == Init => IInv
<1> SUFFICES ASSUME Init PROVE IInv
  OBVIOUS
<1>1. TypeOK
  BY DEF Init, TypeOK, Heap, Pointer, NoPointers, Blank
<1>2. ItemsOwnedOnce
  <2>1. UNION {ToSet(chain[l]) : l \in exists} = {}
    BY DEF Init
  <2> QED BY <2>1 DEF Init, ItemsOwnedOnce
<1>3. LinksAgree
  <2>1. AllLinked
    BY EmptySeq DEF Init, AllLinked, Linked, Joined, NoPointers
  <2> QED BY <1>1, <2>1, LinksByPlace
<1>4. DataOnce
  BY DEF Init, DataOnce
<1> QED BY <1>1, <1>2, <1>3, <1>4, IdleIsIInv DEF Init, Shape

LEMMA InsertionsPreserve ==
    ASSUME IInv, NEW l \in List, NEW n \in Node, NEW x \in Data,
           \/ dllist_insert_first(l, n, x) \/ dllist_insert_last(l, n, x)
           \/ dllist_post_insert(l, n, x) \/ dllist_pre_insert(l, n, x)
    PROVE  IInv'
<1>1. Ready(l) /\ Inserted(x) /\ Shape /\ l \in exists /\ Len(chain[l]) \in Nat
  BY ItemsOfList DEF IInv, Ready, dllist_insert_first, dllist_insert_last, dllist_post_insert,
                     dllist_pre_insert
<1>2. CASE dllist_insert_first(l, n, x)
  <2>1. LinkAt(l, n, x, 1) /\ 1 \in 1 .. Len(chain[l]) + 1
    BY <1>1, <1>2, InsertFirstAt DEF dllist_insert_first
  <2> QED BY <1>1, <2>1, InsertPreserves
<1>3. CASE dllist_insert_last(l, n, x)
  <2>1. LinkAt(l, n, x, Len(chain[l]) + 1) /\ Len(chain[l]) + 1 \in 1 .. Len(chain[l]) + 1
    BY <1>1, <1>3, InsertLastAt DEF dllist_insert_last
  <2> QED BY <1>1, <2>1, InsertPreserves
<1>4. CASE dllist_post_insert(l, n, x) \/ dllist_pre_insert(l, n, x)
  <2>1. PICK i \in 1 .. Len(chain[l]) : list[l].active = chain[l][i]
    BY <1>1, <1>4, ActiveIsAPlace DEF dllist_post_insert, dllist_pre_insert
  <2>2. i \in 1 .. Len(chain[l]) + 1 /\ i + 1 \in 1 .. Len(chain[l]) + 1
    BY <1>1
  <2>3. LinkAt(l, n, x, i) \/ LinkAt(l, n, x, i + 1)
    BY <1>1, <1>4, <2>1, PostInsertAt, PreInsertAt DEF dllist_post_insert, dllist_pre_insert
  <2> QED BY <1>1, <2>2, <2>3, InsertPreserves
<1> QED BY <1>2, <1>3, <1>4

LEMMA DeletionsPreserve ==
    ASSUME IInv, NEW l \in List,
           \/ dllist_delete_first(l) \/ dllist_delete_last(l)
           \/ dllist_delete_and_succ(l) \/ dllist_delete_and_pred(l)
    PROVE  IInv'
<1>1. Ready(l) /\ Deleted /\ Shape /\ l \in exists
  BY DEF IInv, Ready, dllist_delete_first, dllist_delete_last, dllist_delete_and_succ,
         dllist_delete_and_pred
<1>2. \E i, active : DeletesAt(l, i, active)
  <2>1. CASE dllist_delete_first(l)
    BY <1>1, <2>1, DeleteFirstAt DEF dllist_delete_first
  <2>2. CASE dllist_delete_last(l)
    BY <1>1, <2>2, DeleteLastAt DEF dllist_delete_last
  <2>3. CASE dllist_delete_and_succ(l) \/ dllist_delete_and_pred(l)
    <3>1. PICK i \in 1 .. Len(chain[l]) : list[l].active = chain[l][i]
      BY <1>1, <2>3, ActiveIsAPlace DEF dllist_delete_and_succ, dllist_delete_and_pred
    <3> QED BY <1>1, <2>3, <3>1, DeleteActiveAt DEF dllist_delete_and_succ, dllist_delete_and_pred
  <2> QED BY <2>1, <2>2, <2>3
<1> QED BY <1>1, <1>2, DeletePreserves

LEMMA MovesPreserve ==
    ASSUME IInv, NEW l \in List,
           \/ dllist_activate_first(l) \/ dllist_activate_last(l)
           \/ dllist_succ(l) \/ dllist_pred(l) \/ WithoutActive(l)
    PROVE  IInv'
<1>1. Ready(l) /\ Same /\ Shape
  BY DEF IInv, dllist_activate_first, dllist_activate_last, dllist_succ, dllist_pred, WithoutActive
<1>2. \E n : (n = Null \/ n \in ToSet(chain[l])) /\ activate(l, n)
  <2>1. CASE dllist_activate_first(l) \/ dllist_activate_last(l) \/ WithoutActive(l)
    BY <1>1, <2>1, WhereToGo DEF dllist_activate_first, dllist_activate_last, WithoutActive
  <2>2. CASE dllist_succ(l) \/ dllist_pred(l)
    BY <1>1, <2>2, WhereToGo DEF dllist_succ, dllist_pred, succ, pred
  <2> QED BY <2>1, <2>2
<1> QED BY <1>1, <1>2, MovePreserves

LEMMA NextPreserves == IInv /\ [Next]_vars => IInv'
<1> SUFFICES ASSUME IInv, [Next]_vars PROVE IInv'
  OBVIOUS
<1>1. ASSUME NEW l \in List, NEW n \in Node, NEW x \in Data,
             \/ dllist_insert_first(l, n, x) \/ dllist_insert_last(l, n, x)
             \/ dllist_post_insert(l, n, x) \/ dllist_pre_insert(l, n, x)
      PROVE  IInv'
  BY <1>1, InsertionsPreserve
<1>2. ASSUME NEW l \in List,
             \/ dllist_delete_first(l) \/ dllist_delete_last(l)
             \/ dllist_delete_and_succ(l) \/ dllist_delete_and_pred(l)
      PROVE  IInv'
  BY <1>2, DeletionsPreserve
<1>3. ASSUME NEW l \in List,
             \/ dllist_activate_first(l) \/ dllist_activate_last(l)
             \/ dllist_succ(l) \/ dllist_pred(l) \/ WithoutActive(l)
      PROVE  IInv'
  BY <1>3, MovesPreserve
<1>4. ASSUME NEW l \in List,
             \/ NewList(l) \/ Ask(l) \/ \E x \in Data : dllist_update(l, x)
      PROVE  IInv'
  BY <1>4, NewListPreserves, AskPreserves, UpdatePreserves
<1>5. ASSUME NEW l \in List,
             dllist_length(l) \/ dllist_free(l) \/ \E m \in List : sem_value_copy(l, m)
      PROVE  IInv'
  BY <1>5, LengthPreserves, FreePreserves, CopyPreserves
<1>6. CASE LoopStep
  <2>1. CASE Count \/ Counted \/ FreeItem \/ FreeList
    BY <2>1, CountPreserves, CountedPreserves, FreeItemPreserves, FreeListPreserves
  <2>2. CASE CopyFirst \/ (\E n \in Node : CopyItem(n)) \/ CopyNext \/ Copied
    BY <2>2, CopyFirstPreserves, CopyItemPreserves, CopyNextPreserves, CopiedPreserves
  <2>3. CASE DrainFirst \/ DrainItem \/ Drained
    BY <2>3, DrainFirstPreserves, DrainItemPreserves, DrainedPreserves
  <2> QED BY <1>6, <2>1, <2>2, <2>3 DEF LoopStep
<1>7. CASE UNCHANGED vars
  <2>1. Shape'
    BY <1>7 DEF vars, IInv, Shape, TypeOK, LinksAgree, ItemOf, ItemsOwnedOnce
  <2>2. LoopsOnTheirWay'
    BY <1>7 DEF vars, IInv, LoopsOnTheirWay, ActiveAt, Moving
  <2>3. DataSharedByCopies'
    BY <1>7 DEF vars, IInv, DataSharedByCopies, SameData, Moving
  <2> QED BY <2>1, <2>2, <2>3 DEF IInv
<1> QED BY <1>1, <1>2, <1>3, <1>4, <1>5, <1>6, <1>7 DEF Next

LEMMA SpecInvariant == Spec => []IInv
<1>1. Init => IInv
  BY InitEstablishes
<1>2. IInv /\ [Next]_vars => IInv'
  BY NextPreserves
<1> QED BY <1>1, <1>2, PTL DEF Spec

(* Whatever order of operations, the pointers of every list are those of   *)
(* its items in order: insertions, deletions and copies in dllist.c leave  *)
(* no dangling or skipped neighbour, and no activity outside the list.     *)
THEOREM ListsStayLinked == Spec => []LinksAgree
<1>1. IInv => LinksAgree
  BY DEF IInv, Shape
<1> QED BY <1>1, SpecInvariant, PTL

(* Every item on the heap has one place in one list and every datum has    *)
(* one item, except while sem_value_copy moves a list: then item and copy  *)
(* share it, so that dllist_free and the deletions free nothing twice.     *)
THEOREM DataHaveOneOwner == Spec => []OwnedOnce
<1>1. ASSUME IInv PROVE DataOwnedOnce
  <2>1. alive = {node[n].data : n \in allocated}
    BY <1>1 DEF IInv, DataSharedByCopies
  <2>2. ASSUME NEW x \in alive, ~(Moving /\ \A n \in Holders(x) :
                                      n \in ToSet(chain[pc.src]) \cup ToSet(chain[pc.dst]))
        PROVE  Cardinality(Holders(x)) = 1
    <3>1. PICK n \in allocated : node[n].data = x
      BY <2>1
    <3>2. ASSUME NEW m \in Holders(x) PROVE m = n
      <4>1. m \in allocated /\ node[m].data = node[n].data
        BY <3>1, <3>2 DEF Holders
      <4>2. CASE ~Moving
        BY <1>1, <3>1, <4>1, <4>2 DEF IInv, DataSharedByCopies
      <4>3. CASE Moving
        <5>1. PICK h \in allocated : /\ node[h].data = x
                                     /\ h \notin ToSet(chain[pc.src]) \cup ToSet(chain[pc.dst])
          BY <2>2, <4>3 DEF Holders
        <5>2. h = n /\ h = m
          BY <1>1, <3>1, <4>1, <5>1 DEF IInv, DataSharedByCopies
        <5> QED BY <5>2
      <4> QED BY <4>2, <4>3
    <3>3. Holders(x) = {n}
      BY <3>1, <3>2 DEF Holders
    <3> QED BY <3>3, FS_Singleton
  <2> QED BY <2>1, <2>2 DEF DataOwnedOnce
<1>2. IInv => OwnedOnce
  BY <1>1 DEF IInv, Shape, OwnedOnce
<1> QED BY <1>2, SpecInvariant, PTL
-----------------------------------------------------------------------------
(* The lists implement sequences with a cursor.  What the sequences are,   *)
(* and where the cursor is                                                 *)
ItemsAre(l) ==
    /\ Items(l) \in Seq(Data) /\ Len(Items(l)) = Len(chain[l])
    /\ \A k \in 1 .. Len(chain[l]) : Items(l)[k] = node[chain[l][k]].data

CursorIs(l) ==
    /\ list[l].active = Null => Cursor(l) = 0
    /\ \A k \in 1 .. Len(chain[l]) : list[l].active = chain[l][k] => Cursor(l) = k

AllAre == \A l \in List : ItemsAre(l) /\ CursorIs(l)

LEMMA SequencesWithCursor == IInv => AllAre
<1> SUFFICES ASSUME IInv, NEW l \in List PROVE ItemsAre(l) /\ CursorIs(l)
  BY DEF AllAre
<1>1. /\ Shape /\ Len(chain[l]) \in Nat /\ DOMAIN chain[l] = 1 .. Len(chain[l])
      /\ \A k \in 1 .. Len(chain[l]) : chain[l][k] \in allocated /\ chain[l][k] \in Node
  BY ItemsOfList DEF IInv
<1>2. ItemsAre(l)
  <2>1. \A k \in 1 .. Len(chain[l]) : node[chain[l][k]].data \in Data
    BY <1>1 DEF IInv, DataSharedByCopies
  <2>2. Items(l) = [k \in 1 .. Len(chain[l]) |-> node[chain[l][k]].data]
    BY <1>1 DEF Items
  <2>3. Items(l) \in [1 .. Len(chain[l]) -> Data]
    BY <2>1, <2>2
  <2>4. Items(l) \in Seq(Data) /\ Len(Items(l)) = Len(chain[l])
    BY <1>1, <2>3, SeqDef, LenProperties
  <2> QED BY <2>2, <2>4 DEF ItemsAre
<1>3. CursorIs(l)
  <2>1. \A k \in 1 .. Len(chain[l]) : chain[l][k] # Null /\ Place(l, chain[l][k]) = k
    BY <1>1, PlaceOfItem
  <2> QED BY <2>1 DEF CursorIs, Cursor
<1> QED BY <1>2, <1>3

LEMMA SequencesWithCursorNext == IInv' => AllAre'
  BY SequencesWithCursor, PTL

LEMMA CursorCases ==
    ASSUME IInv, NEW l \in List
    PROVE  /\ Cursor(l) \in 0 .. Len(chain[l])
           /\ Cursor(l) = 0 <=> ~Active(l)
           /\ Cursor(l) # 0 => list[l].active = chain[l][Cursor(l)]
<1>1. AllAre /\ Shape /\ Len(chain[l]) \in Nat
  BY SequencesWithCursor, ItemsOfList DEF IInv
<1>2. CASE ~Active(l)
  BY <1>1, <1>2 DEF AllAre, CursorIs, Active
<1>3. CASE Active(l)
  <2>1. PICK k \in 1 .. Len(chain[l]) : list[l].active = chain[l][k]
    BY <1>1, <1>3, ActiveIsAPlace
  <2>2. Cursor(l) = k
    BY <1>1, <2>1 DEF AllAre, CursorIs
  <2> QED BY <1>1, <1>3, <2>1, <2>2
<1> QED BY <1>2, <1>3

\* One list becomes s with its cursor at k; the others stay.
Turned(l, s, k) ==
    /\ \A m \in List : Items(m)' = IF m = l THEN s ELSE Items(m)
    /\ \A m \in List : Cursor(m)' = IF m = l THEN k ELSE Cursor(m)

LEMMA TurnedBecomes ==
    ASSUME NEW l \in List, NEW s, NEW k, Turned(l, s, k)
    PROVE  sequences' = [sequences EXCEPT ![l] = s] /\ cursors' = [cursors EXCEPT ![l] = k]
<1>1. sequences' = [m \in List |-> Items(m)'] /\ cursors' = [m \in List |-> Cursor(m)']
  BY DEF sequences, cursors
<1>2. [m \in List |-> Items(m)'] = [[m \in List |-> Items(m)] EXCEPT ![l] = s]
  BY DEF Turned
<1>3. [m \in List |-> Cursor(m)'] = [[m \in List |-> Cursor(m)] EXCEPT ![l] = k]
  BY DEF Turned
<1> QED BY <1>1, <1>2, <1>3 DEF sequences, cursors

LEMMA CursorStays ==
    ASSUME IInv, IInv', NEW m \in List, chain'[m] = chain[m], list'[m].active = list[m].active
    PROVE  Cursor(m)' = Cursor(m)
<1>1. /\ list'[m].active = Null => Cursor(m)' = 0
      /\ \A k \in 1 .. Len(chain[m]) : list'[m].active = chain[m][k] => Cursor(m)' = k
  BY SequencesWithCursorNext DEF AllAre, CursorIs
<1>2. Cursor(m) \in 0 .. Len(chain[m]) /\ Len(chain[m]) \in Nat
  BY CursorCases, ItemsOfList DEF IInv
<1>3. CASE Active(m)
  <2>1. Cursor(m) \in 1 .. Len(chain[m]) /\ list[m].active = chain[m][Cursor(m)]
    BY <1>2, <1>3, CursorCases
  <2> QED BY <1>1, <2>1
<1>4. CASE ~Active(m)
  BY <1>1, <1>4, CursorCases DEF Active
<1> QED BY <1>3, <1>4

\* A sequence of data follows the sequence of the items that hold them.
Held(c, s, data) == Len(s) = Len(c) /\ \A k \in 1 .. Len(c) : s[k] = data[c[k]]

LEMMA DataFollowInsertion ==
    ASSUME NEW S, NEW T, NEW c \in Seq(S), NEW n \in S, NEW i \in 1 .. Len(c) + 1,
           NEW s \in Seq(T), NEW x \in T, NEW u \in Seq(T),
           NEW data, data[n] = x, Held(c, s, data), Held(InsertAt(c, i, n), u, data)
    PROVE  u = InsertAt(s, i, x)
<1> DEFINE d == InsertAt(c, i, n)
           t == InsertAt(s, i, x)
<1>1. /\ Len(c) \in Nat /\ Len(d) = Len(c) + 1
      /\ \A k \in 1 .. Len(c) + 1 : d[k] = IF k < i THEN c[k] ELSE IF k = i THEN n ELSE c[k - 1]
  <2>1. InsertedAt(S, c, i, n, d)
    BY InsertAtProperties
  <2> QED BY <2>1, LenProperties DEF InsertedAt
<1>2. /\ t \in Seq(T) /\ Len(t) = Len(c) + 1
      /\ \A k \in 1 .. Len(c) + 1 : t[k] = IF k < i THEN s[k] ELSE IF k = i THEN x ELSE s[k - 1]
  <2>1. Len(s) = Len(c)
    BY DEF Held
  <2>2. InsertedAt(T, s, i, x, t)
    BY <2>1, InsertAtProperties
  <2> QED BY <2>1, <2>2 DEF InsertedAt
<1>3. /\ Len(u) = Len(c) + 1 /\ \A k \in 1 .. Len(c) : s[k] = data[c[k]]
      /\ \A k \in 1 .. Len(c) + 1 : u[k] = data[d[k]]
  BY <1>1 DEF Held
<1> HIDE DEF d, t
<1>4. ASSUME NEW k \in 1 .. Len(c) + 1 PROVE u[k] = t[k]
  <2>1. CASE k < i
    <3>1. k \in 1 .. Len(c) BY <1>1, <2>1
    <3>2. d[k] = c[k] /\ t[k] = s[k] BY <1>1, <1>2, <2>1
    <3> QED BY <1>3, <3>1, <3>2
  <2>2. CASE k = i
    BY <1>1, <1>2, <1>3, <2>2
  <2>3. CASE k > i
    <3>1. k - 1 \in 1 .. Len(c) /\ ~(k < i) /\ k # i BY <1>1, <2>3
    <3>2. d[k] = c[k - 1] /\ t[k] = s[k - 1]
      BY <1>1, <1>2, <3>1
    <3> QED BY <1>3, <3>1, <3>2
  <2> QED BY <1>1, <2>1, <2>2, <2>3
<1>5. u = t
  <2>1. Len(u) = Len(t) /\ \A k \in 1 .. Len(u) : u[k] = t[k]
    BY <1>2, <1>3, <1>4
  <2>2. u \in Seq(T) /\ t \in Seq(T)
    BY <1>2
  <2> QED BY <2>1, <2>2, SeqEqual
<1> QED BY <1>5 DEF t

LEMMA DataFollowRemoval ==
    ASSUME NEW S, NEW T, NEW c \in Seq(S), NEW i \in 1 .. Len(c), NEW s \in Seq(T), NEW u \in Seq(T),
           NEW data, Held(c, s, data), Held(RemoveAt(c, i), u, data)
    PROVE  u = RemoveAt(s, i)
<1> DEFINE d == RemoveAt(c, i)
           t == RemoveAt(s, i)
<1>1. /\ Len(c) \in Nat /\ Len(d) = Len(c) - 1
      /\ \A k \in 1 .. Len(c) - 1 : d[k] = IF k < i THEN c[k] ELSE c[k + 1]
  <2>1. RemovedAt(S, c, i, d)
    BY RemoveAtProperties
  <2> QED BY <2>1, LenProperties DEF RemovedAt
<1>2. /\ t \in Seq(T) /\ Len(t) = Len(c) - 1
      /\ \A k \in 1 .. Len(c) - 1 : t[k] = IF k < i THEN s[k] ELSE s[k + 1]
  <2>1. Len(s) = Len(c)
    BY DEF Held
  <2>2. RemovedAt(T, s, i, t)
    BY <2>1, RemoveAtProperties
  <2> QED BY <2>1, <2>2 DEF RemovedAt
<1>3. /\ Len(u) = Len(c) - 1 /\ \A k \in 1 .. Len(c) : s[k] = data[c[k]]
      /\ \A k \in 1 .. Len(c) - 1 : u[k] = data[d[k]]
  BY <1>1 DEF Held
<1> HIDE DEF d, t
<1>4. ASSUME NEW k \in 1 .. Len(c) - 1 PROVE u[k] = t[k]
  <2>1. CASE k < i
    <3>1. k \in 1 .. Len(c) BY <1>1
    <3>2. d[k] = c[k] /\ t[k] = s[k]
      BY <1>1, <1>2, <2>1
    <3> QED BY <1>3, <3>1, <3>2
  <2>2. CASE ~(k < i)
    <3>1. k + 1 \in 1 .. Len(c) /\ k + 1 # i BY <1>1, <2>2
    <3>2. d[k] = c[k + 1] /\ t[k] = s[k + 1]
      BY <1>1, <1>2, <2>2
    <3> QED BY <1>3, <3>1, <3>2
  <2> QED BY <2>1, <2>2
<1>5. u = t
  <2>1. Len(u) = Len(t) /\ \A k \in 1 .. Len(u) : u[k] = t[k]
    BY <1>2, <1>3, <1>4
  <2>2. u \in Seq(T) /\ t \in Seq(T)
    BY <1>2
  <2> QED BY <2>1, <2>2, SeqEqual
<1> QED BY <1>5 DEF t

LEMMA InsertTurns ==
    ASSUME IInv, IInv', NEW l \in List, NEW n, NEW x \in Data, NEW i \in 1 .. Len(chain[l]) + 1,
           AfterInsert(l, n, x, i)
    PROVE  Turned(l, InsertAt(Items(l), i, x),
                  IF Cursor(l) = 0 THEN 0 ELSE IF Cursor(l) < i THEN Cursor(l) ELSE Cursor(l) + 1)
<1> DEFINE c == chain[l]
           d == InsertAt(chain[l], i, n)
           new == [m \in Node |-> node'[m].data]
<1>1. /\ AllAre /\ AllAre' /\ Shape /\ Shape'
  BY SequencesWithCursor, SequencesWithCursorNext DEF IInv
<1>2. /\ n \in Node /\ n \notin allocated /\ chain' = [chain EXCEPT ![l] = d]
      /\ node'[n].data = x /\ \A m \in allocated : m \in Node /\ node'[m].data = node[m].data
      /\ \A m \in List : list'[m].active = list[m].active
  BY <1>1 DEF AfterInsert, Shape, TypeOK
<1>3. /\ c \in Seq(Node) /\ Len(c) \in Nat
      /\ \A m \in List : \A k \in 1 .. Len(chain[m]) : chain[m][k] \in allocated
  BY <1>1, ItemsOfList
<1>4. chain'[l] = d /\ \A m \in List \ {l} : chain'[m] = chain[m]
  BY <1>1, <1>2 DEF Shape, TypeOK
<1>5. /\ Len(d) = Len(c) + 1
      /\ \A k \in 1 .. Len(c) + 1 : d[k] \in Node
      /\ \A k \in 1 .. Len(c) + 1 : d[k] = IF k < i THEN c[k] ELSE IF k = i THEN n ELSE c[k - 1]
  <2>1. InsertedAt(Node, c, i, n, d)
    BY <1>2, <1>3, InsertAtProperties
  <2> QED BY <2>1, ElementOfSeq DEF InsertedAt
<1>6. Items(l)' = InsertAt(Items(l), i, x)
  <2>1. /\ Items(l)' \in Seq(Data) /\ Len(Items(l)') = Len(c) + 1
        /\ \A k \in 1 .. Len(c) + 1 : Items(l)'[k] = node'[d[k]].data
    BY <1>1, <1>4, <1>5 DEF AllAre, ItemsAre
  <2>2. /\ Items(l) \in Seq(Data) /\ Len(Items(l)) = Len(c)
        /\ \A k \in 1 .. Len(c) : Items(l)[k] = node[c[k]].data
    BY <1>1 DEF AllAre, ItemsAre
  <2>3. new[n] = x /\ Held(c, Items(l), new)
    BY <1>2, <1>3, <2>2 DEF Held
  <2>4. Held(d, Items(l)', new)
    BY <1>5, <2>1 DEF Held
  <2> HIDE DEF new
  <2> QED BY <1>2, <1>3, <2>1, <2>2, <2>3, <2>4, DataFollowInsertion
<1>7. \A m \in List \ {l} : Items(m)' = Items(m) /\ Cursor(m)' = Cursor(m)
  <2>1. \A m \in List \ {l} : Items(m)' = Items(m)
    BY <1>1, <1>2, <1>3, <1>4, ItemsOfList DEF Items
  <2>2. \A m \in List \ {l} : Cursor(m)' = Cursor(m)
    BY <1>2, <1>4, CursorStays
  <2> QED BY <2>1, <2>2
<1>8. Cursor(l)' = IF Cursor(l) = 0 THEN 0 ELSE IF Cursor(l) < i THEN Cursor(l) ELSE Cursor(l) + 1
  <2>1. PICK p \in 0 .. Len(c) : p = Cursor(l)
    BY CursorCases
  <2>2. /\ p = 0 => list[l].active = Null
        /\ p # 0 => list[l].active = c[p]
    BY <2>1, CursorCases DEF Active
  <2>3. /\ list[l].active = Null => Cursor(l)' = 0
        /\ \A k \in 1 .. Len(c) + 1 : list[l].active = d[k] => Cursor(l)' = k
    BY <1>1, <1>2, <1>4, <1>5 DEF AllAre, CursorIs
  <2> HIDE DEF c, d
  <2>4. CASE p = 0
    BY <2>1, <2>2, <2>3, <2>4
  <2>5. CASE p # 0 /\ p < i
    <3>1. p \in 1 .. Len(c) + 1
      BY <1>3, <2>5
    <3> QED BY <1>5, <2>1, <2>2, <2>3, <2>5, <3>1
  <2>6. CASE p # 0 /\ ~(p < i)
    <3>1. p + 1 \in 1 .. Len(c) + 1 /\ ~(p + 1 < i) /\ p + 1 # i /\ (p + 1) - 1 = p
      BY <1>3, <2>6 DEF c
    <3>2. d[p + 1] = c[p]
      BY <1>5, <3>1
    <3> QED BY <2>1, <2>2, <2>3, <2>6, <3>1, <3>2
  <2> QED BY <2>4, <2>5, <2>6
<1> QED BY <1>6, <1>7, <1>8 DEF Turned

LEMMA DeleteTurns ==
    ASSUME IInv, IInv', NEW l \in List, NEW i \in 1 .. Len(chain[l]), NEW active,
           AfterDelete(l, i, active),
           NEW p \in 0 .. Len(chain[l]), p # i, active = IF p = 0 THEN Null ELSE chain[l][p]
    PROVE  Turned(l, RemoveAt(Items(l), i), IF p < i THEN p ELSE p - 1)
<1> DEFINE c == chain[l]
           d == RemoveAt(chain[l], i)
           n == chain[l][i]
           old == [m \in Node |-> node[m].data]
<1>1. /\ AllAre /\ AllAre' /\ Shape /\ Shape'
  BY SequencesWithCursor, SequencesWithCursorNext DEF IInv
<1>2. /\ chain' = [chain EXCEPT ![l] = d]
      /\ \A m \in allocated \ {n} : m \in Node /\ node'[m].data = node[m].data
      /\ \A m \in List : list'[m].active = IF m = l THEN active ELSE list[m].active
  BY <1>1 DEF AfterDelete, Shape, TypeOK
<1>3. /\ c \in Seq(Node) /\ Len(c) \in Nat /\ Once(c)
      /\ \A m \in List : \A k \in 1 .. Len(chain[m]) : chain[m][k] \in allocated
  BY <1>1, ItemsOfList
<1>4. chain'[l] = d /\ \A m \in List \ {l} : chain'[m] = chain[m]
  BY <1>1, <1>2 DEF Shape, TypeOK
<1>5. /\ Len(d) = Len(c) - 1
      /\ \A k \in 1 .. Len(c) - 1 : d[k] \in Node
      /\ \A k \in 1 .. Len(c) - 1 : d[k] = IF k < i THEN c[k] ELSE c[k + 1]
  <2>1. RemovedAt(Node, c, i, d)
    BY <1>3, RemoveAtProperties
  <2> QED BY <2>1, ElementOfSeq DEF RemovedAt
<1>6. \A k \in 1 .. Len(c) : k # i => c[k] \in allocated \ {n}
  BY <1>3 DEF Once
<1>7. Items(l)' = RemoveAt(Items(l), i)
  <2>1. /\ Items(l)' \in Seq(Data) /\ Len(Items(l)') = Len(c) - 1
        /\ \A k \in 1 .. Len(c) - 1 : Items(l)'[k] = node'[d[k]].data
    <3>1. /\ Items(l)' \in Seq(Data) /\ Len(Items(l)') = Len(chain'[l])
          /\ \A k \in 1 .. Len(chain'[l]) : Items(l)'[k] = node'[chain'[l][k]].data
      BY <1>1 DEF AllAre, ItemsAre
    <3> HIDE DEF c, d
    <3> QED BY <1>4, <1>5, <3>1
  <2>2. /\ Items(l) \in Seq(Data) /\ Len(Items(l)) = Len(c)
        /\ \A k \in 1 .. Len(c) : Items(l)[k] = node[c[k]].data
    BY <1>1 DEF AllAre, ItemsAre
  <2>3. Held(c, Items(l), old)
    BY <1>1, <1>3, <2>2 DEF Held, Shape, TypeOK
  <2>4. \A k \in 1 .. Len(c) - 1 : d[k] \in allocated \ {n}
    <3>1. \A k \in 1 .. Len(c) - 1 : /\ k < i => k \in 1 .. Len(c) /\ k # i
                                     /\ ~(k < i) => k + 1 \in 1 .. Len(c) /\ k + 1 # i
      BY <1>3
    <3> QED BY <1>5, <1>6, <3>1
  <2>5. Held(d, Items(l)', old)
    BY <1>2, <1>5, <2>1, <2>4 DEF Held
  <2> HIDE DEF old
  <2> QED BY <1>3, <2>1, <2>2, <2>3, <2>5, DataFollowRemoval
<1>8. \A m \in List \ {l} : Items(m)' = Items(m) /\ Cursor(m)' = Cursor(m)
  <2>1. \A m \in List \ {l} : \A k \in 1 .. Len(chain[m]) : chain[m][k] \in allocated \ {n}
    BY <1>1, <1>3, ListsDoNotShare
  <2>2. \A m \in List : DOMAIN chain[m] = 1 .. Len(chain[m])
    BY <1>1, ItemsOfList
  <2> HIDE DEF n
  <2>3. \A m \in List \ {l} : Items(m)' = Items(m)
    BY <1>2, <1>4, <2>1, <2>2 DEF Items
  <2>4. \A m \in List \ {l} : Cursor(m)' = Cursor(m)
    BY <1>2, <1>4, CursorStays
  <2> QED BY <2>3, <2>4
<1>9. Cursor(l)' = IF p < i THEN p ELSE p - 1
  <2>1. /\ active = Null => Cursor(l)' = 0
        /\ \A k \in 1 .. Len(c) - 1 : active = d[k] => Cursor(l)' = k
    BY <1>1, <1>2, <1>4, <1>5 DEF AllAre, CursorIs
  <2> HIDE DEF d
  <2>2. CASE p = 0
    BY <2>1, <2>2
  <2>3. CASE p # 0 /\ p < i
    <3>1. p \in 1 .. Len(c) - 1 /\ d[p] = c[p]
      BY <1>3, <1>5, <2>3
    <3> QED BY <2>1, <2>3, <3>1
  <2>4. CASE p # 0 /\ ~(p < i)
    <3>1. p - 1 \in 1 .. Len(c) - 1 /\ ~(p - 1 < i) /\ (p - 1) + 1 = p
      BY <1>3, <2>4
    <3>2. d[p - 1] = c[p]
      BY <1>5, <3>1
    <3> QED BY <2>1, <2>4, <3>1, <3>2
  <2> QED BY <2>2, <2>3, <2>4
<1> QED BY <1>7, <1>8, <1>9 DEF Turned

LEMMA ActivateTurns ==
    ASSUME IInv, IInv', NEW l \in List, NEW n, activate(l, n), NEW p \in 0 .. Len(chain[l]),
           n = IF p = 0 THEN Null ELSE chain[l][p]
    PROVE  Turned(l, Items(l), p)
<1>1. /\ AllAre' /\ Shape /\ chain' = chain /\ node' = node
      /\ \A m \in List : list'[m].active = IF m = l THEN n ELSE list[m].active
  BY SequencesWithCursorNext DEF IInv, activate, Shape, TypeOK
<1>2. \A m \in List : Items(m)' = Items(m)
  BY <1>1 DEF Items
<1>3. Cursor(l)' = p
  BY <1>1 DEF AllAre, CursorIs
<1>4. \A m \in List \ {l} : Cursor(m)' = Cursor(m)
  BY <1>1, CursorStays
<1> QED BY <1>2, <1>3, <1>4 DEF Turned

LEMMA UnchangedTurns ==
    ASSUME IInv, IInv', UNCHANGED <<list, node, chain>>, NEW l \in List
    PROVE  Turned(l, Items(l), Cursor(l))
<1>1. \A m \in List : Items(m)' = Items(m)
  BY DEF Items
<1>2. \A m \in List : Cursor(m)' = Cursor(m)
  BY CursorStays
<1> QED BY <1>1, <1>2 DEF Turned

\* What the abstract list is, and what it becomes
Here(l, s, p) == l \in exists /\ sequences[l] = s /\ cursors[l] = p
Comes(l, s, k) ==
    exists' = exists /\ sequences' = [sequences EXCEPT ![l] = s] /\ cursors' = [cursors EXCEPT ![l] = k]

LEMMA ListHere ==
    ASSUME IInv, NEW l \in exists
    PROVE  \E s \in Seq(Data), p \in Nat :
               /\ p <= Len(s)
               /\ Here(l, s, p) /\ s = Items(l) /\ Len(s) = Len(chain[l]) /\ Len(s) \in Nat
               /\ p = 0 <=> ~Active(l)
               /\ p # 0 => list[l].active = chain[l][p]
               /\ p = Cursor(l)
               /\ \A k \in 1 .. Len(s) : s[k] = node[chain[l][k]].data
<1>1. l \in List /\ Shape /\ AllAre
  BY SequencesWithCursor DEF IInv, Shape, TypeOK
<1>2. Items(l) \in Seq(Data) /\ Len(Items(l)) = Len(chain[l]) /\ Len(chain[l]) \in Nat
  BY <1>1, ItemsOfList DEF AllAre, ItemsAre
<1>3. \A k \in 1 .. Len(chain[l]) : Items(l)[k] = node[chain[l][k]].data
  BY <1>1 DEF AllAre, ItemsAre
<1>4. Here(l, Items(l), Cursor(l))
  BY <1>1 DEF Here, sequences, cursors
<1> QED BY <1>1, <1>2, <1>3, <1>4, CursorCases

(* An insertion at a place of the list inserts into its sequence there.    *)
LEMMA InsertComes ==
    ASSUME IInv, IInv', NEW l \in exists, NEW n, NEW x \in Data, NEW i \in 1 .. Len(chain[l]) + 1,
           LinkAt(l, n, x, i), NEW s, NEW p, s = Items(l), p = Cursor(l)
    PROVE  /\ Comes(l, InsertAt(s, i, x), IF p = 0 THEN 0 ELSE IF p < i THEN p ELSE p + 1)
           /\ result' = << >>
<1>0. l \in List /\ Shape
  BY DEF IInv, Shape, TypeOK
<1>1. AfterInsert(l, n, x, i)
  BY <1>0, InsertPreservesShape
<1>2. Turned(l, InsertAt(Items(l), i, x),
             IF Cursor(l) = 0 THEN 0 ELSE IF Cursor(l) < i THEN Cursor(l) ELSE Cursor(l) + 1)
  BY <1>0, <1>1, InsertTurns
<1>3. /\ sequences' = [sequences EXCEPT ![l] = InsertAt(Items(l), i, x)]
      /\ cursors' = [cursors EXCEPT ![l] =
             IF Cursor(l) = 0 THEN 0 ELSE IF Cursor(l) < i THEN Cursor(l) ELSE Cursor(l) + 1]
  BY <1>0, <1>2, TurnedBecomes
<1> QED BY <1>1, <1>3 DEF Comes, AfterInsert

LEMMA InsertEndsRefine ==
    ASSUME IInv, IInv', NEW l \in exists, NEW n, NEW x \in Data
    PROVE  /\ insert_first(l, n, x) => Abstract!InsertFirst(l, x)
           /\ insert_last(l, n, x) => Abstract!InsertLast(l, x)
<1>1. PICK s \in Seq(Data), p \in Nat :
          /\ p <= Len(s) /\ Here(l, s, p) /\ s = Items(l)
          /\ Len(s) = Len(chain[l]) /\ Len(s) \in Nat /\ p = Cursor(l)
  BY ListHere
<1>2. /\ 1 \in 1 .. Len(chain[l]) + 1 /\ Len(chain[l]) + 1 \in 1 .. Len(chain[l]) + 1
      /\ p # 0 => ~(p < 1)
      /\ p < Len(chain[l]) + 1
  BY <1>1
<1>3. <<x>> \o s = InsertAt(s, 1, x) /\ Append(s, x) = InsertAt(s, Len(chain[l]) + 1, x)
  BY <1>1, EndsArePlaces
<1>4. ASSUME insert_first(l, n, x) PROVE Abstract!InsertFirst(l, x)
  <2>1. LinkAt(l, n, x, 1)
    BY <1>4, InsertFirstAt DEF IInv
  <2>2. /\ Comes(l, InsertAt(s, 1, x), IF p = 0 THEN 0 ELSE IF p < 1 THEN p ELSE p + 1)
        /\ result' = << >>
    BY <1>1, <1>2, <2>1, InsertComes
  <2> QED BY <1>1, <1>2, <1>3, <2>2 DEF Here, Comes, Abstract!InsertFirst, Abstract!Becomes
<1>5. ASSUME insert_last(l, n, x) PROVE Abstract!InsertLast(l, x)
  <2>1. LinkAt(l, n, x, Len(chain[l]) + 1)
    BY <1>5, InsertLastAt DEF IInv
  <2>2. /\ Comes(l, InsertAt(s, Len(chain[l]) + 1, x),
                 IF p = 0 THEN 0 ELSE IF p < Len(chain[l]) + 1 THEN p ELSE p + 1)
        /\ result' = << >>
    BY <1>1, <1>2, <2>1, InsertComes
  <2> QED BY <1>1, <1>2, <1>3, <2>2 DEF Here, Comes, Abstract!InsertLast, Abstract!Becomes
<1> QED BY <1>4, <1>5

LEMMA InsertAroundRefines ==
    ASSUME IInv, IInv', NEW l \in exists, NEW n, NEW x \in Data, Active(l)
    PROVE  /\ post_insert(l, n, x) => Abstract!PostInsert(l, x)
           /\ pre_insert(l, n, x) => Abstract!PreInsert(l, x)
<1>1. PICK s \in Seq(Data), p \in Nat :
          /\ p <= Len(s) /\ Here(l, s, p) /\ s = Items(l) /\ Len(s) = Len(chain[l])
          /\ Len(s) \in Nat /\ p # 0 /\ list[l].active = chain[l][p] /\ p = Cursor(l)
  BY ListHere
<1>2. /\ p \in 1 .. Len(chain[l]) /\ p \in 1 .. Len(chain[l]) + 1
      /\ p + 1 \in 1 .. Len(chain[l]) + 1 /\ p < p + 1 /\ ~(p < p)
  BY <1>1
<1>3. ASSUME post_insert(l, n, x) PROVE Abstract!PostInsert(l, x)
  <2>1. LinkAt(l, n, x, p + 1)
    BY <1>1, <1>2, <1>3, PostInsertAt DEF IInv
  <2>2. /\ Comes(l, InsertAt(s, p + 1, x), IF p = 0 THEN 0 ELSE IF p < p + 1 THEN p ELSE p + 1)
        /\ result' = << >>
    BY <1>1, <1>2, <2>1, InsertComes
  <2>3. Comes(l, InsertAt(s, p + 1, x), p)
    BY <1>1, <1>2, <2>2 DEF Comes
  <2> QED BY <1>1, <2>2, <2>3
          DEF Here, Comes, Abstract!PostInsert, Abstract!Becomes, InsertAt, Abstract!InsertAt
<1>4. ASSUME pre_insert(l, n, x) PROVE Abstract!PreInsert(l, x)
  <2>1. LinkAt(l, n, x, p)
    BY <1>1, <1>2, <1>4, PreInsertAt DEF IInv
  <2>2. /\ Comes(l, InsertAt(s, p, x), IF p = 0 THEN 0 ELSE IF p < p THEN p ELSE p + 1)
        /\ result' = << >>
    BY <1>1, <1>2, <2>1, InsertComes
  <2>3. Comes(l, InsertAt(s, p, x), p + 1)
    BY <1>1, <1>2, <2>2 DEF Comes
  <2> QED BY <1>1, <2>2, <2>3
          DEF Here, Comes, Abstract!PreInsert, Abstract!Becomes, InsertAt, Abstract!InsertAt
<1> QED BY <1>3, <1>4

(* A deletion takes the item out of the sequence, and the cursor goes      *)
(* where the list says.                                                    *)
LEMMA DeleteComes ==
    ASSUME IInv, IInv', NEW l \in exists, NEW i, NEW active, DeletesAt(l, i, active),
           NEW q \in Nat, q <= Len(chain[l]), q # i, active = IF q = 0 THEN Null ELSE chain[l][q],
           NEW s, s = Items(l)
    PROVE  /\ Comes(l, RemoveAt(s, i), IF q < i THEN q ELSE q - 1)
           /\ result' = <<s[i]>>
<1>0. l \in List /\ Shape /\ i \in 1 .. Len(chain[l]) /\ Len(chain[l]) \in Nat /\ AllAre
  BY ItemsOfList, SequencesWithCursor DEF IInv, Shape, TypeOK, DeletesAt
<1>1. AfterDelete(l, i, active)
  BY <1>0, DeletePreservesShape DEF DeletesAt
<1>2. Turned(l, RemoveAt(Items(l), i), IF q < i THEN q ELSE q - 1)
  <2>1. q \in 0 .. Len(chain[l])
    BY <1>0
  <2> QED BY <1>0, <1>1, <2>1, DeleteTurns
<1>3. /\ sequences' = [sequences EXCEPT ![l] = RemoveAt(Items(l), i)]
      /\ cursors' = [cursors EXCEPT ![l] = IF q < i THEN q ELSE q - 1]
  BY <1>0, <1>2, TurnedBecomes
<1>4. Items(l)[i] = node[chain[l][i]].data
  BY <1>0 DEF AllAre, ItemsAre
<1> QED BY <1>1, <1>3, <1>4 DEF Comes, AfterDelete

LEMMA DeleteFirstRefines ==
    ASSUME IInv, IInv', NEW l \in exists, list[l].first # Null, delete_first(l)
    PROVE  Abstract!DeleteFirst(l)
<1>1. PICK s \in Seq(Data), p \in Nat :
          /\ p <= Len(s) /\ Here(l, s, p) /\ s = Items(l) /\ Len(s) = Len(chain[l])
          /\ p = 0 => list[l].active = Null
          /\ p # 0 => list[l].active = chain[l][p]
  BY ListHere DEF Active
<1>2. /\ l \in List /\ Shape /\ Len(chain[l]) \in Nat /\ Len(chain[l]) # 0 /\ Once(chain[l])
      /\ \A k \in 1 .. Len(chain[l]) : chain[l][k] # Null
  BY ItemsOfList, EndsOfList DEF IInv, Shape, TypeOK
<1>3. DeletesAt(l, 1, Unless(l, chain[l][1]))
  BY <1>2, DeleteFirstAt
<1>4. PICK q \in Nat : q = IF p = 1 THEN 0 ELSE p
  OBVIOUS
<1>5. q <= Len(chain[l]) /\ q # 1 /\ Unless(l, chain[l][1]) = IF q = 0 THEN Null ELSE chain[l][q]
  <2>1. CASE p = 0
    BY <1>1, <1>2, <1>4, <2>1 DEF Unless
  <2>2. CASE p = 1
    BY <1>1, <1>2, <1>4, <2>2 DEF Unless
  <2>3. CASE p # 0 /\ p # 1
    <3>1. p \in 1 .. Len(chain[l]) /\ 1 \in 1 .. Len(chain[l])
      BY <1>1, <1>2, <2>3
    <3>2. chain[l][p] # chain[l][1]
      BY <1>2, <2>3, <3>1 DEF Once
    <3> QED BY <1>1, <1>4, <2>3, <3>2 DEF Unless
  <2> QED BY <2>1, <2>2, <2>3
<1>6. Comes(l, RemoveAt(s, 1), IF q < 1 THEN q ELSE q - 1) /\ result' = <<s[1]>>
  BY <1>1, <1>3, <1>5, DeleteComes
<1>7. (IF q < 1 THEN q ELSE q - 1) = IF p = 0 THEN 0 ELSE p - 1
  BY <1>4
<1>8. s # << >> /\ RemoveAt(s, 1) = Tail(s) /\ Head(s) = s[1]
  BY <1>1, <1>2, EndsTakenOut, EmptySeq
<1>9. Comes(l, Tail(s), IF p = 0 THEN 0 ELSE p - 1)
  BY <1>6, <1>7, <1>8 DEF Comes
<1> QED BY <1>1, <1>6, <1>8, <1>9 DEF Here, Comes, Abstract!DeleteFirst, Abstract!Becomes

LEMMA DeleteLastRefines ==
    ASSUME IInv, IInv', NEW l \in exists, list[l].last # Null, delete_last(l)
    PROVE  Abstract!DeleteLast(l)
<1>1. PICK s \in Seq(Data), p \in Nat :
          /\ p <= Len(s) /\ Here(l, s, p) /\ s = Items(l) /\ Len(s) = Len(chain[l])
          /\ p = 0 => list[l].active = Null
          /\ p # 0 => list[l].active = chain[l][p]
  BY ListHere DEF Active
<1>2. /\ l \in List /\ Shape /\ Len(chain[l]) \in Nat /\ Len(chain[l]) # 0 /\ Once(chain[l])
      /\ \A k \in 1 .. Len(chain[l]) : chain[l][k] # Null
  BY ItemsOfList, EndsOfList DEF IInv, Shape, TypeOK
<1>3. PICK i \in Nat : i = Len(chain[l])
  BY <1>2
<1>4. DeletesAt(l, i, Unless(l, chain[l][i]))
  BY <1>2, <1>3, DeleteLastAt
<1>5. PICK q \in Nat : q = IF p = i THEN 0 ELSE p
  OBVIOUS
<1>6. q <= Len(chain[l]) /\ q # i /\ Unless(l, chain[l][i]) = IF q = 0 THEN Null ELSE chain[l][q]
  <2>1. CASE p = 0
    BY <1>1, <1>2, <1>3, <1>5, <2>1 DEF Unless
  <2>2. CASE p = i
    BY <1>1, <1>2, <1>3, <1>5, <2>2 DEF Unless
  <2>3. CASE p # 0 /\ p # i
    <3>1. p \in 1 .. Len(chain[l]) /\ i \in 1 .. Len(chain[l])
      BY <1>1, <1>2, <1>3, <2>3
    <3>2. chain[l][p] # chain[l][i]
      BY <1>2, <2>3, <3>1 DEF Once
    <3> QED BY <1>1, <1>5, <2>3, <3>2 DEF Unless
  <2> QED BY <2>1, <2>2, <2>3
<1>7. Comes(l, RemoveAt(s, i), IF q < i THEN q ELSE q - 1) /\ result' = <<s[i]>>
  BY <1>1, <1>4, <1>6, DeleteComes
<1>8. (IF q < i THEN q ELSE q - 1) = (IF p = Len(s) THEN 0 ELSE p) /\ i = Len(s)
  BY <1>1, <1>2, <1>3, <1>5
<1>9. s # << >> /\ RemoveAt(s, i) = SubSeq(s, 1, Len(s) - 1)
  BY <1>1, <1>2, <1>8, EndsTakenOut, EmptySeq
<1>10. Comes(l, SubSeq(s, 1, Len(s) - 1), IF p = Len(s) THEN 0 ELSE p) /\ result' = <<s[Len(s)]>>
  BY <1>7, <1>8, <1>9 DEF Comes
<1> QED BY <1>1, <1>9, <1>10
        DEF Here, Comes, Abstract!DeleteLast, Abstract!Becomes, Abstract!Front, Abstract!Last

LEMMA DeleteActiveRefines ==
    ASSUME IInv, IInv', NEW l \in exists, Active(l)
    PROVE  /\ delete_and_succ(l) => Abstract!DeleteAndSucc(l)
           /\ delete_and_pred(l) => Abstract!DeleteAndPred(l)
<1>1. PICK s \in Seq(Data), p \in Nat :
          /\ p <= Len(s) /\ Here(l, s, p) /\ s = Items(l) /\ Len(s) = Len(chain[l])
          /\ p # 0 /\ list[l].active = chain[l][p]
  BY ListHere
<1>2. Len(chain[l]) \in Nat /\ p \in 1 .. Len(chain[l])
  BY <1>1, ItemsOfList DEF IInv, Shape, TypeOK
<1>3. ASSUME delete_and_succ(l) PROVE Abstract!DeleteAndSucc(l)
  <2>1. DeletesAt(l, p, After(l, p))
    BY <1>1, <1>2, <1>3, DeleteActiveAt DEF IInv
  <2>2. PICK q \in Nat : q = IF p = Len(s) THEN 0 ELSE p + 1
    OBVIOUS
  <2>3. q <= Len(chain[l]) /\ q # p /\ After(l, p) = IF q = 0 THEN Null ELSE chain[l][q]
    BY <1>1, <1>2, <2>2 DEF After
  <2>4. Comes(l, RemoveAt(s, p), IF q < p THEN q ELSE q - 1) /\ result' = <<s[p]>>
    BY <1>1, <2>1, <2>3, DeleteComes
  <2>5. (IF q < p THEN q ELSE q - 1) = IF p = Len(s) THEN 0 ELSE p
    BY <1>1, <1>2, <2>2
  <2>6. Comes(l, RemoveAt(s, p), IF p = Len(s) THEN 0 ELSE p)
    BY <2>4, <2>5 DEF Comes
  <2> QED BY <1>1, <2>4, <2>6
          DEF Here, Comes, Abstract!DeleteAndSucc, Abstract!Becomes, RemoveAt, Abstract!RemoveAt
<1>4. ASSUME delete_and_pred(l) PROVE Abstract!DeleteAndPred(l)
  <2>1. DeletesAt(l, p, Before(l, p))
    BY <1>1, <1>2, <1>4, DeleteActiveAt DEF IInv
  <2>2. PICK q \in Nat : q = p - 1
    BY <1>1
  <2>3. q <= Len(chain[l]) /\ q # p /\ Before(l, p) = IF q = 0 THEN Null ELSE chain[l][q]
    BY <1>1, <1>2, <2>2 DEF Before
  <2>4. Comes(l, RemoveAt(s, p), IF q < p THEN q ELSE q - 1) /\ result' = <<s[p]>>
    BY <1>1, <2>1, <2>3, DeleteComes
  <2>5. (IF q < p THEN q ELSE q - 1) = p - 1
    BY <1>1, <2>2
  <2>6. Comes(l, RemoveAt(s, p), p - 1)
    BY <2>4, <2>5 DEF Comes
  <2> QED BY <1>1, <2>4, <2>6
          DEF Here, Comes, Abstract!DeleteAndPred, Abstract!Becomes, RemoveAt, Abstract!RemoveAt
<1> QED BY <1>3, <1>4

LEMMA UpdateRefines ==
    ASSUME IInv, IInv', NEW l \in List, NEW x \in Data, dllist_update(l, x)
    PROVE  Abstract!Update(l, x)
<1>0. l \in exists /\ Active(l)
  BY DEF dllist_update, Ready
<1>1. PICK s \in Seq(Data), p \in Nat :
          /\ p <= Len(s) /\ Here(l, s, p) /\ s = Items(l) /\ Len(s) = Len(chain[l]) /\ Len(s) \in Nat
          /\ p # 0 /\ list[l].active = chain[l][p]
          /\ \A k \in 1 .. Len(s) : s[k] = node[chain[l][k]].data
  BY <1>0, ListHere
<1> DEFINE a == chain[l][p]
<1>2. /\ p \in 1 .. Len(s) /\ Once(chain[l]) /\ Shape
      /\ \A m \in List : \A k \in 1 .. Len(chain[m]) : chain[m][k] \in Node
      /\ \A m \in List : DOMAIN chain[m] = 1 .. Len(chain[m])
  BY <1>1, ItemsOfList DEF IInv
<1>3. /\ \A m \in Node : node'[m].data = IF m = a THEN x ELSE node[m].data
      /\ result' = <<node[a].data>> /\ UNCHANGED <<exists, list, chain>>
  BY <1>1, <1>2 DEF dllist_update, Shape, TypeOK, Heap
<1>4. Items(l)' = [s EXCEPT ![p] = x]
  <2>1. /\ Items(l)' \in Seq(Data) /\ Len(Items(l)') = Len(s)
        /\ \A k \in 1 .. Len(s) : Items(l)'[k] = node'[chain[l][k]].data
    BY <1>1, <1>3, SequencesWithCursorNext DEF AllAre, ItemsAre
  <2> DEFINE u == [s EXCEPT ![p] = x]
  <2>2. u \in Seq(Data) /\ Len(u) = Len(s) /\ \A k \in 1 .. Len(s) : u[k] = IF k = p THEN x ELSE s[k]
    BY <1>2, ExceptSeq
  <2>3. \A k \in 1 .. Len(s) : Items(l)'[k] = u[k]
    BY <1>1, <1>2, <1>3, <2>1, <2>2 DEF Once
  <2> HIDE DEF u
  <2>4. Len(Items(l)') = Len(u) /\ \A k \in 1 .. Len(Items(l)') : Items(l)'[k] = u[k]
    BY <2>1, <2>2, <2>3
  <2>5. Items(l)' = u
    BY <2>1, <2>2, <2>4, SeqEqual
  <2> QED BY <2>5 DEF u
<1>5. \A m \in List \ {l} : Items(m)' = Items(m)
  <2>1. \A m \in List \ {l} : \A k \in 1 .. Len(chain[m]) : chain[m][k] # a
    BY <1>1, <1>2, ListsDoNotShare
  <2> QED BY <1>2, <1>3, <2>1 DEF Items
<1>6. \A m \in List : Cursor(m)' = Cursor(m)
  BY <1>3, CursorStays
<1>7. sequences' = [sequences EXCEPT ![l] = [s EXCEPT ![p] = x]] /\ cursors' = [cursors EXCEPT ![l] = p]
  <2>1. sequences' = [m \in List |-> Items(m)'] /\ cursors' = [m \in List |-> Cursor(m)']
    BY DEF sequences, cursors
  <2>2. [m \in List |-> Items(m)'] = [[m \in List |-> Items(m)] EXCEPT ![l] = [s EXCEPT ![p] = x]]
    BY <1>4, <1>5
  <2>3. [m \in List |-> Cursor(m)'] = [m \in List |-> Cursor(m)]
    BY <1>6
  <2> QED BY <1>1, <2>1, <2>2, <2>3 DEF sequences, cursors, Here
<1> QED BY <1>1, <1>2, <1>3, <1>7 DEF Here, Abstract!Update, Abstract!Becomes

(* Operations that move the cursor, or nothing                             *)
LEMMA ActivateComes ==
    ASSUME IInv, IInv', NEW l \in exists, NEW n, activate(l, n), NEW q \in Nat, q <= Len(chain[l]),
           n = IF q = 0 THEN Null ELSE chain[l][q], NEW s, s = Items(l)
    PROVE  Comes(l, s, q) /\ result' = << >>
<1>0. l \in List /\ Len(chain[l]) \in Nat /\ q \in 0 .. Len(chain[l])
  BY ItemsOfList DEF IInv, Shape, TypeOK
<1>1. Turned(l, Items(l), q)
  BY <1>0, ActivateTurns
<1>2. sequences' = [sequences EXCEPT ![l] = Items(l)] /\ cursors' = [cursors EXCEPT ![l] = q]
  BY <1>0, <1>1, TurnedBecomes
<1> QED BY <1>2 DEF Comes, activate

LEMMA StaysSame ==
    ASSUME IInv, IInv', UNCHANGED <<list, node, chain>>
    PROVE  sequences' = sequences /\ cursors' = cursors
<1>1. \A m \in List : Items(m)' = Items(m)
  BY DEF Items
<1>2. \A m \in List : Cursor(m)' = Cursor(m)
  BY CursorStays
<1>3. sequences' = [m \in List |-> Items(m)'] /\ cursors' = [m \in List |-> Cursor(m)']
  BY DEF sequences, cursors
<1> QED BY <1>1, <1>2, <1>3 DEF sequences, cursors

LEMMA ActivateEndsRefines ==
    ASSUME IInv, IInv', NEW l \in exists
    PROVE  /\ activate(l, list[l].first) => Abstract!ActivateFirst(l)
           /\ activate(l, list[l].last) => Abstract!ActivateLast(l)
<1>1. PICK s \in Seq(Data), p \in Nat :
          Here(l, s, p) /\ s = Items(l) /\ Len(s) = Len(chain[l]) /\ Len(s) \in Nat
  BY ListHere
<1>2. /\ list[l].first = IF Len(s) = 0 THEN Null ELSE chain[l][1]
      /\ list[l].last = IF Len(s) = 0 THEN Null ELSE chain[l][Len(s)]
  BY <1>1, LinksByPlace DEF IInv, Shape, TypeOK, AllLinked, Linked
<1>3. s = << >> <=> Len(s) = 0
  BY EmptySeq
<1>4. ASSUME activate(l, list[l].first) PROVE Abstract!ActivateFirst(l)
  <2>1. PICK q \in Nat : q = IF Len(s) = 0 THEN 0 ELSE 1
    OBVIOUS
  <2>2. q <= Len(chain[l]) /\ list[l].first = IF q = 0 THEN Null ELSE chain[l][q]
    BY <1>1, <1>2, <2>1
  <2>3. Comes(l, s, q) /\ result' = << >>
    BY <1>1, <1>4, <2>2, ActivateComes
  <2>4. q = (IF s = << >> THEN 0 ELSE 1) /\ q \in 0 .. Len(s)
    BY <1>1, <1>3, <2>1
  <2> QED BY <1>1, <2>3, <2>4
          DEF Here, Comes, Abstract!ActivateFirst, Abstract!Activate, Abstract!Becomes
<1>5. ASSUME activate(l, list[l].last) PROVE Abstract!ActivateLast(l)
  <2>1. Len(s) <= Len(chain[l]) /\ list[l].last = IF Len(s) = 0 THEN Null ELSE chain[l][Len(s)]
    BY <1>1, <1>2
  <2>2. Comes(l, s, Len(s)) /\ result' = << >>
    BY <1>1, <1>5, <2>1, ActivateComes
  <2> QED BY <1>1, <2>2
          DEF Here, Comes, Abstract!ActivateLast, Abstract!Activate, Abstract!Becomes
<1> QED BY <1>4, <1>5

LEMMA Remainders ==
    ASSUME NEW k \in Nat, NEW m \in Nat, k < m
    PROVE  k % m = k /\ m % m = 0
<1>1. k % m = k
  BY SMTT(30)
<1>2. m % m = 0
  BY SMTT(30)
<1> QED BY <1>1, <1>2

LEMMA ActivateNextRefines ==
    ASSUME IInv, IInv', NEW l \in exists, Active(l)
    PROVE  /\ succ(l) => Abstract!Succ(l)
           /\ pred(l) => Abstract!Pred(l)
<1>1. PICK s \in Seq(Data), p \in Nat :
          /\ p <= Len(s) /\ Here(l, s, p) /\ s = Items(l) /\ Len(s) = Len(chain[l]) /\ Len(s) \in Nat
          /\ p # 0 /\ list[l].active = chain[l][p]
  BY ListHere
<1>2. p \in 1 .. Len(chain[l]) /\ l \in List
  BY <1>1 DEF IInv, Shape, TypeOK
<1>3. /\ node[list[l].active].next = IF p = Len(s) THEN Null ELSE chain[l][p + 1]
      /\ node[list[l].active].prev = IF p = 1 THEN Null ELSE chain[l][p - 1]
  BY <1>1, <1>2, NeighboursOfItem DEF IInv
<1>4. ASSUME succ(l) PROVE Abstract!Succ(l)
  <2>1. PICK q \in Nat : q = IF p = Len(s) THEN 0 ELSE p + 1
    OBVIOUS
  <2>2. /\ q <= Len(chain[l]) /\ q \in 0 .. Len(s)
        /\ node[list[l].active].next = IF q = 0 THEN Null ELSE chain[l][q]
    BY <1>1, <1>3, <2>1
  <2>3. (p + 1) % (Len(s) + 1) = q
    <3>1. PICK k \in Nat, m \in Nat : k = p + 1 /\ m = Len(s) + 1
      BY <1>1
    <3>2. k # m => k < m /\ k = q
      BY <1>1, <2>1, <3>1
    <3>3. k = m => 0 < m /\ q = 0
      BY <1>1, <2>1, <3>1
    <3>4. k % m = q
      BY <3>2, <3>3, Remainders
    <3> QED BY <3>1, <3>4
  <2>4. Comes(l, s, q) /\ result' = << >>
    BY <1>1, <1>4, <2>2, ActivateComes DEF succ
  <2> QED BY <1>1, <2>2, <2>3, <2>4
          DEF Here, Comes, Abstract!Succ, Abstract!Activate, Abstract!Becomes
<1>5. ASSUME pred(l) PROVE Abstract!Pred(l)
  <2>1. PICK q \in Nat : q = p - 1
    BY <1>1
  <2>2. /\ q <= Len(chain[l]) /\ q \in 0 .. Len(s)
        /\ node[list[l].active].prev = IF q = 0 THEN Null ELSE chain[l][q]
    BY <1>1, <1>3, <2>1
  <2>3. Comes(l, s, q) /\ result' = << >>
    BY <1>1, <1>5, <2>2, ActivateComes DEF pred
  <2> QED BY <1>1, <2>1, <2>2, <2>3
          DEF Here, Comes, Abstract!Pred, Abstract!Activate, Abstract!Becomes
<1> QED BY <1>4, <1>5

LEMMA NothingRefines ==
    ASSUME IInv, IInv', NEW l \in exists, ~Active(l), activate(l, Null)
    PROVE  Abstract!Nothing(l)
<1>1. PICK s \in Seq(Data), p \in Nat :
          Here(l, s, p) /\ s = Items(l) /\ Len(s) = Len(chain[l]) /\ Len(s) \in Nat /\ p = 0
  BY ListHere
<1>2. Comes(l, s, 0) /\ result' = << >>
  BY <1>1, ActivateComes
<1> QED BY <1>1, <1>2 DEF Here, Comes, Abstract!Nothing, Abstract!Becomes

LEMMA AskRefines ==
    ASSUME IInv, IInv', NEW l \in List, Ask(l)
    PROVE  Abstract!Ask(l)
<1>0. l \in exists /\ UNCHANGED <<exists, list, node, chain>>
  BY DEF Ask, Ready
<1>1. PICK s \in Seq(Data), p \in Nat :
          /\ p <= Len(s) /\ Here(l, s, p) /\ s = Items(l) /\ Len(s) = Len(chain[l]) /\ Len(s) \in Nat
          /\ p = 0 => list[l].active = Null
          /\ p # 0 => list[l].active = chain[l][p]
          /\ \A k \in 1 .. Len(s) : s[k] = node[chain[l][k]].data
  BY <1>0, ListHere DEF Active
<1>2. /\ list[l].first = IF Len(s) = 0 THEN Null ELSE chain[l][1]
      /\ list[l].last = IF Len(s) = 0 THEN Null ELSE chain[l][Len(s)]
      /\ \A k \in 1 .. Len(s) : chain[l][k] # Null
      /\ DOMAIN s = 1 .. Len(s)
  BY <1>1, LinksByPlace, ItemsOfList, LenProperties DEF IInv, Shape, TypeOK, AllLinked, Linked
<1>3. /\ DataOf(list[l].first) = IF 1 \in DOMAIN s THEN s[1] ELSE Null
      /\ DataOf(list[l].last) = IF Len(s) \in DOMAIN s THEN s[Len(s)] ELSE Null
      /\ DataOf(list[l].active) = IF p \in DOMAIN s THEN s[p] ELSE Null
  BY <1>1, <1>2 DEF DataOf
<1>4. sequences' = sequences /\ cursors' = cursors
  BY <1>0, StaysSame
<1>5. result' = <<DataOf(list[l].first), DataOf(list[l].last), DataOf(list[l].active)>>
  BY DEF Ask
<1>6. /\ sequences = [sequences EXCEPT ![l] = sequences[l]]
      /\ cursors = [cursors EXCEPT ![l] = cursors[l]]
  BY DEF sequences, cursors
<1> QED BY <1>0, <1>1, <1>3, <1>4, <1>5, <1>6
        DEF Here, Abstract!Ask, Abstract!Becomes, Abstract!ItemAt

LEMMA InitRefines ==
    ASSUME IInv, IInv', NEW l, dllist_init(l)
    PROVE  Abstract!dllist_init(l)
<1>1. /\ l \in List /\ l \notin exists /\ chain[l] = << >> /\ chain' = chain /\ node' = node
      /\ list'[l].active = Null /\ \A m \in List \ {l} : list'[m].active = list[m].active
  BY DEF dllist_init, IInv, Shape, TypeOK, ItemsOwnedOnce, NoPointers
<1>2. Cursor(l) = 0 /\ Cursor(l)' = 0
  <2>1. Len(chain[l]) = 0
    BY <1>1
  <2> QED BY <1>1, <2>1, CursorCases, SequencesWithCursorNext DEF AllAre, CursorIs
<1>3. \A m \in List : Items(m)' = Items(m) /\ Cursor(m)' = Cursor(m)
  <2>1. \A m \in List : Items(m)' = Items(m)
    BY <1>1 DEF Items
  <2>2. \A m \in List \ {l} : Cursor(m)' = Cursor(m)
    BY <1>1, CursorStays
  <2> QED BY <1>2, <2>1, <2>2
<1>4. sequences' = sequences /\ cursors' = cursors
  <2>1. sequences' = [m \in List |-> Items(m)'] /\ cursors' = [m \in List |-> Cursor(m)']
    BY DEF sequences, cursors
  <2> QED BY <1>3, <2>1 DEF sequences, cursors
<1> QED BY <1>1, <1>4 DEF dllist_init, Abstract!dllist_init

LEMMA CountedRefines ==
    ASSUME IInv, IInv', Counted
    PROVE  \E l \in List : Abstract!Length(l)
<1>1. PICK l \in exists, n \in Nat : l = pc.src /\ n = pc.n /\ ActiveAt(l, n + 1)
  BY DEF Counted, At, IInv, LoopsOnTheirWay, Steps
<1>2. /\ l \in List /\ ~Active(l) /\ result' = <<n>> /\ UNCHANGED <<exists, list, node, chain>>
  BY <1>1 DEF Counted, IInv, Shape, TypeOK
<1>3. PICK s \in Seq(Data), p \in Nat :
          Here(l, s, p) /\ p = 0 /\ s = Items(l) /\ Len(s) = Len(chain[l]) /\ Len(s) \in Nat
  BY <1>2, ListHere
<1>4. n = Len(s)
  <2>1. n + 1 = Len(chain[l]) + 1
    BY <1>1, <1>2, ActiveIsHere DEF IInv
  <2> QED BY <1>1, <1>3, <2>1
<1>5. sequences' = sequences /\ cursors' = cursors
  BY <1>2, StaysSame
<1>6. /\ sequences = [sequences EXCEPT ![l] = sequences[l]]
      /\ cursors = [cursors EXCEPT ![l] = cursors[l]]
  BY <1>2 DEF sequences, cursors
<1>7. 0 \in 0 .. Len(s)
  BY <1>3
<1>8. Abstract!Length(l)
  BY <1>2, <1>3, <1>4, <1>5, <1>6, <1>7 DEF Here, Abstract!Length, Abstract!Activate, Abstract!Becomes
<1> QED BY <1>2, <1>8

LEMMA FreeListRefines ==
    ASSUME IInv, IInv', FreeList
    PROVE  \E l \in List : Abstract!dllist_free(l)
<1>1. PICK l \in exists : l = pc.src /\ list[l].active = list[l].first
  BY DEF FreeList, At, IInv, LoopsOnTheirWay
<1>2. /\ l \in List /\ ~Active(l) /\ exists' = exists \ {l} /\ UNCHANGED <<list, node, chain, result>>
  BY <1>1 DEF FreeList, IInv, Shape, TypeOK
<1>3. PICK s \in Seq(Data), p \in Nat : Here(l, s, p) /\ p = 0 /\ Len(s) = Len(chain[l])
  BY <1>2, ListHere
<1>4. s = << >>
  <2>1. Len(chain[l]) = 0
    BY <1>1, <1>2, EndsOfList DEF Active, IInv
  <2> QED BY <1>3, <2>1, EmptySeq
<1>5. sequences' = sequences /\ cursors' = cursors
  BY <1>2, StaysSame
<1>6. Abstract!dllist_free(l)
  BY <1>2, <1>3, <1>4, <1>5 DEF Here, Abstract!dllist_free
<1> QED BY <1>2, <1>6

LEMMA LoopStepRefines ==
    ASSUME IInv, IInv', LoopStep
    PROVE  Abstract!Next \/ UNCHANGED Abstract!vars
<1>1. \A l \in exists : l \in List
  BY DEF IInv, Shape, TypeOK
<1>2. CASE Count
  <2>1. PICK l \in exists : l = pc.src
    BY <1>2 DEF Count, At, IInv, LoopsOnTheirWay
  <2>2. Abstract!Succ(l)
    BY <1>2, <2>1, ActivateNextRefines DEF Count
  <2> QED BY <1>1, <2>2 DEF Abstract!Next
<1>3. CASE Counted
  BY <1>3, CountedRefines DEF Abstract!Next
<1>4. CASE FreeItem
  <2>1. PICK l \in exists : l = pc.src
    BY <1>4 DEF FreeItem, At, IInv, LoopsOnTheirWay
  <2>2. Abstract!DeleteAndSucc(l)
    BY <1>4, <2>1, DeleteActiveRefines DEF FreeItem
  <2> QED BY <1>1, <2>2 DEF Abstract!Next
<1>5. CASE FreeList
  BY <1>5, FreeListRefines DEF Abstract!Next
<1>6. CASE CopyFirst \/ DrainFirst
  <2>1. PICK l \in exists : l = pc.src
    BY <1>6 DEF CopyFirst, DrainFirst, Rewind, At, IInv, LoopsOnTheirWay
  <2>2. Abstract!ActivateFirst(l)
    BY <1>6, <2>1, ActivateEndsRefines DEF CopyFirst, DrainFirst, Rewind
  <2> QED BY <1>1, <2>2 DEF Abstract!Next
<1>7. CASE \E n \in Node : CopyItem(n)
  <2>1. PICK n \in Node : CopyItem(n)
    BY <1>7
  <2>2. PICK s \in exists, d \in exists : s = pc.src /\ d = pc.dst
    BY <2>1 DEF CopyItem, At, IInv, LoopsOnTheirWay, Moving
  <2>3. PICK x : x = node[list[s].active].data
    OBVIOUS
  <2>4. x \in Data
    <3>1. Active(s)
      BY <2>1, <2>2 DEF CopyItem
    <3>2. list[s].active \in allocated
      BY <1>1, <3>1, ActiveIsAPlace, ItemsOfList DEF IInv
    <3> QED BY <2>3, <3>2 DEF IInv, DataSharedByCopies
  <2>5. insert_first(d, n, x) \/ insert_last(d, n, x)
    BY <2>1, <2>2, <2>3 DEF CopyItem, DataOf, Active
  <2>6. Abstract!InsertFirst(d, x) \/ Abstract!InsertLast(d, x)
    BY <2>4, <2>5, InsertEndsRefine
  <2> QED BY <1>1, <2>4, <2>6 DEF Abstract!Next
<1>8. CASE CopyNext
  <2>1. PICK l \in List : pc.src = l /\ l \in exists /\ Active(l)
    <3>1. PICK s, d \in List :
              /\ MovesFrom("advance", s, d)
              /\ Len(chain[d]) \in DOMAIN chain[s] /\ list[s].active = chain[s][Len(chain[d])]
      BY <1>8, WhileCopying DEF CopyNext, At
    <3>2. list[s].active # Null
      BY <3>1, ItemsOfList DEF IInv
    <3> QED BY <3>1, <3>2 DEF MovesFrom, Active
  <2>2. Abstract!Succ(l)
    BY <1>8, <2>1, ActivateNextRefines DEF CopyNext
  <2> QED BY <2>2 DEF Abstract!Next
<1>9. CASE DrainItem
  <2>1. PICK l \in exists : l = pc.src
    BY <1>9 DEF DrainItem, At, IInv, LoopsOnTheirWay
  <2>2. Abstract!DeleteAndSucc(l)
    BY <1>9, <2>1, DeleteActiveRefines DEF DrainItem
  <2> QED BY <1>1, <2>2 DEF Abstract!Next
<1>10. CASE Copied \/ Drained
  BY <1>10, StaysSame DEF Copied, Drained, Abstract!vars
<1> QED BY <1>2, <1>3, <1>4, <1>5, <1>6, <1>7, <1>8, <1>9, <1>10 DEF LoopStep

LEMMA OneStepRefines ==
    ASSUME IInv, IInv', NEW l \in List
    PROVE  /\ NewList(l) \/ Ask(l) => Abstract!Next
           /\ \A n \in Node, x \in Data :
                 \/ dllist_insert_first(l, n, x) \/ dllist_insert_last(l, n, x)
                 \/ dllist_post_insert(l, n, x) \/ dllist_pre_insert(l, n, x)
                 => Abstract!Next
           /\ \/ dllist_delete_first(l) \/ dllist_delete_last(l)
              \/ dllist_delete_and_succ(l) \/ dllist_delete_and_pred(l)
              => Abstract!Next
           /\ \A x \in Data : dllist_update(l, x) => Abstract!Next
           /\ \/ dllist_activate_first(l) \/ dllist_activate_last(l)
              \/ dllist_succ(l) \/ dllist_pred(l) \/ WithoutActive(l)
              => Abstract!Next
           /\ dllist_length(l) \/ dllist_free(l) \/ (\E m \in List : sem_value_copy(l, m)) => Abstract!Next
<1>1. ASSUME NewList(l) \/ Ask(l) PROVE Abstract!Next
  <2>1. CASE NewList(l)
    <3>1. Abstract!dllist_init(l) BY <2>1, InitRefines DEF NewList
    <3> QED BY <3>1 DEF Abstract!Next
  <2>2. CASE Ask(l)
    <3>1. Abstract!Ask(l) BY <2>2, AskRefines
    <3> QED BY <3>1 DEF Abstract!Next
  <2> QED BY <1>1, <2>1, <2>2
<1>2. ASSUME NEW n \in Node, NEW x \in Data,
             \/ dllist_insert_first(l, n, x) \/ dllist_insert_last(l, n, x)
             \/ dllist_post_insert(l, n, x) \/ dllist_pre_insert(l, n, x)
      PROVE  Abstract!Next
  <2>1. Abstract!InsertFirst(l, x) \/ Abstract!InsertLast(l, x) \/ Abstract!PostInsert(l, x)
        \/ Abstract!PreInsert(l, x)
    BY <1>2, InsertEndsRefine, InsertAroundRefines
       DEF Ready, dllist_insert_first, dllist_insert_last, dllist_post_insert, dllist_pre_insert
  <2> QED BY <2>1 DEF Abstract!Next
<1>3. ASSUME \/ dllist_delete_first(l) \/ dllist_delete_last(l)
             \/ dllist_delete_and_succ(l) \/ dllist_delete_and_pred(l)
      PROVE  Abstract!Next
  <2>1. Abstract!DeleteFirst(l) \/ Abstract!DeleteLast(l) \/ Abstract!DeleteAndSucc(l)
        \/ Abstract!DeleteAndPred(l)
    BY <1>3, DeleteFirstRefines, DeleteLastRefines, DeleteActiveRefines
       DEF Ready, dllist_delete_first, dllist_delete_last, dllist_delete_and_succ, dllist_delete_and_pred
  <2> QED BY <2>1 DEF Abstract!Next
<1>4. ASSUME NEW x \in Data, dllist_update(l, x) PROVE Abstract!Next
  <2>1. Abstract!Update(l, x) BY <1>4, UpdateRefines
  <2> QED BY <2>1 DEF Abstract!Next
<1>5. ASSUME \/ dllist_activate_first(l) \/ dllist_activate_last(l)
             \/ dllist_succ(l) \/ dllist_pred(l) \/ WithoutActive(l)
      PROVE  Abstract!Next
  <2>1. Abstract!ActivateFirst(l) \/ Abstract!ActivateLast(l) \/ Abstract!Succ(l) \/ Abstract!Pred(l)
        \/ Abstract!Nothing(l)
    BY <1>5, ActivateEndsRefines, ActivateNextRefines, NothingRefines
       DEF Ready, dllist_activate_first, dllist_activate_last, dllist_succ, dllist_pred, WithoutActive
  <2> QED BY <2>1 DEF Abstract!Next
<1>6. ASSUME dllist_length(l) \/ dllist_free(l) PROVE Abstract!Next
  <2>1. Abstract!ActivateFirst(l)
    BY <1>6, ActivateEndsRefines DEF Ready, dllist_length, dllist_free
  <2> QED BY <2>1 DEF Abstract!Next
<1>7. ASSUME NEW m \in List, sem_value_copy(l, m) PROVE Abstract!Next
  <2>1. Abstract!dllist_init(m) BY <1>7, InitRefines DEF sem_value_copy
  <2> QED BY <2>1 DEF Abstract!Next
<1> QED BY <1>1, <1>2, <1>3, <1>4, <1>5, <1>6, <1>7

LEMMA NextRefines == IInv /\ IInv' /\ [Next]_vars => [Abstract!Next]_(Abstract!vars)
<1> SUFFICES ASSUME IInv, IInv', [Next]_vars PROVE Abstract!Next \/ UNCHANGED Abstract!vars
  OBVIOUS
<1>1. CASE UNCHANGED vars
  BY <1>1, StaysSame DEF vars, Abstract!vars
<1>2. CASE LoopStep
  BY <1>2, LoopStepRefines
<1>3. CASE Next /\ ~LoopStep
  BY <1>3, OneStepRefines DEF Next
<1> QED BY <1>1, <1>2, <1>3

LEMMA InitialListsAreEmpty == Init => Abstract!Init
<1> SUFFICES ASSUME Init PROVE Abstract!Init
  OBVIOUS
<1>1. AllAre /\ IInv
  BY InitEstablishes, SequencesWithCursor
<1>2. ASSUME NEW l \in List PROVE Items(l) = << >> /\ Cursor(l) = 0
  <2>1. chain[l] = << >> /\ list[l].active = Null
    BY DEF Init, NoPointers
  <2>2. Len(chain[l]) = 0
    BY <2>1
  <2> QED BY <1>1, <2>1, <2>2, EmptySeq DEF AllAre, ItemsAre, CursorIs
<1> QED BY <1>2 DEF Init, Abstract!Init, sequences, cursors

(* The pointers of dllist.c implement what its header promises: whatever   *)
(* an operation returns, and whomever it leaves active, is what it would   *)
(* be on a sequence with a cursor.  The loops of length, free and          *)
(* sem_value_copy are steps of that sequence, one after the other.         *)
THEOREM ListsAreSequences == Spec => ImplementsCursorLists
<1>1. Init => Abstract!Init
  BY InitialListsAreEmpty
<1>2. IInv /\ IInv' /\ [Next]_vars => [Abstract!Next]_(Abstract!vars)
  BY NextRefines
<1> QED BY <1>1, <1>2, SpecInvariant, PTL DEF Spec, ImplementsCursorLists, Abstract!Spec
=============================================================================
