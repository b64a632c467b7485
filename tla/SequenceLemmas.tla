--------------------------- MODULE SequenceLemmas ---------------------------
(***************************************************************************)
(* What the operators on sequences that the lists and chains of the models *)
(* are built from return: an element put in or taken out at a place.  And  *)
(* what is needed of functions defined by recursion: induction, as a fact  *)
(* about sets of numbers, and the existence of such a function.            *)
(***************************************************************************)
EXTENDS SequencesExt, SequenceTheorems, WellFoundedInduction, TLAPS

(* An element put in at a place moves those from that place on by one.     *)
InsertedAt(S, s, i, e, t) ==
    /\ t \in Seq(S)
    /\ Len(t) = Len(s) + 1
    /\ \A k \in 1 .. Len(s) + 1 : t[k] = IF k < i THEN s[k] ELSE IF k = i THEN e ELSE s[k - 1]

LEMMA InsertAtProperties ==
    ASSUME NEW S, NEW s \in Seq(S), NEW e \in S, NEW i \in 1 .. Len(s) + 1
    PROVE  InsertedAt(S, s, i, e, InsertAt(s, i, e))
<1> DEFINE a == SubSeq(s, 1, i - 1)
           z == SubSeq(s, i, Len(s))
<1>0. Len(s) \in Nat /\ i \in Int /\ <<e>> \in Seq(S) /\ Len(<<e>>) = 1 /\ <<e>>[1] = e
  BY LenProperties
<1>1. /\ a \in Seq(S) /\ Len(a) = i - 1
      /\ \A k \in 1 .. i - 1 : a[k] = s[k]
  BY <1>0, ElementOfSeq, SubSeqProperties
<1>2. /\ z \in Seq(S) /\ Len(z) = Len(s) - i + 1
      /\ \A k \in 1 .. Len(s) - i + 1 : z[k] = s[i + k - 1]
  BY <1>0, ElementOfSeq, SubSeqProperties
<1> HIDE DEF a, z
<1>3. /\ a \o <<e>> \in Seq(S) /\ Len(a \o <<e>>) = i
      /\ \A k \in 1 .. i : (a \o <<e>>)[k] = IF k <= i - 1 THEN a[k] ELSE <<e>>[k - (i - 1)]
  BY <1>0, <1>1, ConcatProperties
<1>4. \A k \in 1 .. i : (a \o <<e>>)[k] = IF k < i THEN s[k] ELSE e
  BY <1>0, <1>1, <1>3
<1> DEFINE b == a \o <<e>>
<1> HIDE DEF b
<1>5. /\ b \o z \in Seq(S) /\ Len(b \o z) = Len(s) + 1
      /\ \A k \in 1 .. Len(s) + 1 : (b \o z)[k] = IF k <= i THEN b[k] ELSE z[k - i]
  <2>1. b \in Seq(S) /\ Len(b) = i
    BY <1>3 DEF b
  <2>2. /\ b \o z \in Seq(S) /\ Len(b \o z) = Len(b) + Len(z)
        /\ \A k \in 1 .. Len(b) + Len(z) : (b \o z)[k] = IF k <= Len(b) THEN b[k] ELSE z[k - Len(b)]
    BY <1>2, <2>1, ConcatProperties
  <2> QED BY <1>0, <1>2, <2>1, <2>2
<1>6. \A k \in 1 .. Len(s) + 1 : (b \o z)[k] =
            IF k < i THEN s[k] ELSE IF k = i THEN e ELSE s[k - 1]
  <2>1. \A k \in 1 .. i : b[k] = IF k < i THEN s[k] ELSE e
    BY <1>4 DEF b
  <2> QED BY <1>0, <1>2, <2>1, <1>5
<1>7. InsertAt(s, i, e) = b \o z
  BY DEF InsertAt, a, z, b
<1> QED BY <1>5, <1>6, <1>7 DEF InsertedAt

(* An element taken out moves those behind it by one.                      *)
RemovedAt(S, s, i, t) ==
    /\ t \in Seq(S)
    /\ Len(t) = Len(s) - 1
    /\ \A k \in 1 .. Len(s) - 1 : t[k] = IF k < i THEN s[k] ELSE s[k + 1]

LEMMA RemoveAtProperties ==
    ASSUME NEW S, NEW s \in Seq(S), NEW i \in 1 .. Len(s)
    PROVE  RemovedAt(S, s, i, RemoveAt(s, i))
<1> DEFINE a == SubSeq(s, 1, i - 1)
           z == SubSeq(s, i + 1, Len(s))
<1>0. Len(s) \in Nat /\ i \in Int
  BY LenProperties
<1>1. /\ a \in Seq(S) /\ Len(a) = i - 1
      /\ \A k \in 1 .. i - 1 : a[k] = s[k]
  BY <1>0, ElementOfSeq, SubSeqProperties
<1>2. /\ z \in Seq(S) /\ Len(z) = Len(s) - i
      /\ \A k \in 1 .. Len(s) - i : z[k] = s[i + k]
  BY <1>0, ElementOfSeq, SubSeqProperties
<1> HIDE DEF a, z
<1>3. /\ a \o z \in Seq(S) /\ Len(a \o z) = Len(s) - 1
      /\ \A k \in 1 .. Len(s) - 1 : (a \o z)[k] = IF k <= i - 1 THEN a[k] ELSE z[k - (i - 1)]
  <2>1. /\ a \o z \in Seq(S) /\ Len(a \o z) = Len(a) + Len(z)
        /\ \A k \in 1 .. Len(a) + Len(z) : (a \o z)[k] = IF k <= Len(a) THEN a[k] ELSE z[k - Len(a)]
    BY <1>1, <1>2, ConcatProperties
  <2> QED BY <1>0, <1>1, <1>2, <2>1
<1>4. \A k \in 1 .. Len(s) - 1 : (a \o z)[k] = IF k < i THEN s[k] ELSE s[k + 1]
  BY <1>0, <1>1, <1>2, <1>3
<1>5. RemoveAt(s, i) = a \o z
  BY DEF RemoveAt, a, z
<1> QED BY <1>3, <1>4, <1>5 DEF RemovedAt

(* The ends are places like any other.                                     *)
LEMMA EndsArePlaces ==
    ASSUME NEW S, NEW s \in Seq(S), NEW e \in S
    PROVE  /\ <<e>> \o s = InsertAt(s, 1, e)
           /\ Append(s, e) = InsertAt(s, Len(s) + 1, e)
<1>0. Len(s) \in Nat /\ <<e>> \in Seq(S) /\ Len(<<e>>) = 1 /\ <<e>>[1] = e
  BY LenProperties
<1>1. <<e>> \o s = InsertAt(s, 1, e)
  <2>1. /\ <<e>> \o s \in Seq(S) /\ Len(<<e>> \o s) = Len(s) + 1
        /\ \A k \in 1 .. Len(s) + 1 : (<<e>> \o s)[k] = IF k <= 1 THEN <<e>>[k] ELSE s[k - 1]
    BY <1>0, ConcatProperties
  <2>2. 1 \in 1 .. Len(s) + 1 BY <1>0
  <2>3. \A k \in 1 .. Len(s) + 1 : (<<e>> \o s)[k] = InsertAt(s, 1, e)[k]
    <3>1. InsertedAt(S, s, 1, e, InsertAt(s, 1, e)) BY <2>2, InsertAtProperties
    <3> QED BY <1>0, <2>1, <3>1 DEF InsertedAt
  <2>4. /\ InsertAt(s, 1, e) \in Seq(S) /\ Len(InsertAt(s, 1, e)) = Len(s) + 1
    BY <2>2, InsertAtProperties DEF InsertedAt
  <2> DEFINE t == <<e>> \o s
             u == InsertAt(s, 1, e)
  <2> HIDE DEF t, u
  <2>5. t \in Seq(S) /\ u \in Seq(S) /\ Len(t) = Len(u) /\ \A k \in 1 .. Len(t) : t[k] = u[k]
    BY <2>1, <2>3, <2>4 DEF t, u
  <2> QED BY <2>5, SeqEqual DEF t, u
<1>2. Append(s, e) = InsertAt(s, Len(s) + 1, e)
  <2>1. Len(s) + 1 \in 1 .. Len(s) + 1 BY <1>0
  <2> DEFINE t == Append(s, e)
             u == InsertAt(s, Len(s) + 1, e)
  <2>2. /\ t \in Seq(S) /\ Len(t) = Len(s) + 1
        /\ \A k \in 1 .. Len(s) : t[k] = s[k]
        /\ t[Len(s) + 1] = e
    BY AppendProperties DEF t
  <2>3. /\ u \in Seq(S) /\ Len(u) = Len(s) + 1
        /\ \A k \in 1 .. Len(s) + 1 :
              u[k] = IF k < Len(s) + 1 THEN s[k] ELSE IF k = Len(s) + 1 THEN e ELSE s[k - 1]
    BY <2>1, InsertAtProperties DEF InsertedAt, u
  <2> HIDE DEF t, u
  <2>4. \A k \in 1 .. Len(t) : t[k] = u[k]
    BY <1>0, <2>2, <2>3
  <2> QED BY <2>2, <2>3, <2>4, SeqEqual DEF t, u
<1> QED BY <1>1, <1>2

(* The elements of a sequence                                              *)
LEMMA ToSetOfSeq ==
    ASSUME NEW S, NEW s \in Seq(S)
    PROVE  ToSet(s) = {s[k] : k \in 1 .. Len(s)} /\ ToSet(s) \subseteq S
  BY LenProperties, ElementOfSeq DEF ToSet

LEMMA ToSetOfInsertAt ==
    ASSUME NEW S, NEW s \in Seq(S), NEW e \in S, NEW i \in 1 .. Len(s) + 1
    PROVE  ToSet(InsertAt(s, i, e)) = ToSet(s) \cup {e}
<1> DEFINE t == InsertAt(s, i, e)
<1>0. Len(s) \in Nat BY LenProperties
<1>1. /\ t \in Seq(S)
      /\ Len(t) = Len(s) + 1
      /\ \A k \in 1 .. Len(s) + 1 : t[k] = IF k < i THEN s[k] ELSE IF k = i THEN e ELSE s[k - 1]
  BY InsertAtProperties DEF InsertedAt, t
<1> HIDE DEF t
<1>2. ToSet(s) = {s[k] : k \in 1 .. Len(s)} /\ ToSet(t) = {t[k] : k \in 1 .. Len(s) + 1}
  BY <1>1, ToSetOfSeq
<1>3. ASSUME NEW k \in 1 .. Len(s) + 1 PROVE t[k] \in ToSet(s) \cup {e}
  <2>1. CASE k < i BY <2>1, <1>0, <1>1, <1>2
  <2>2. CASE k = i BY <2>2, <1>0, <1>1, <1>2
  <2>3. CASE k > i
    <3>1. k - 1 \in 1 .. Len(s) /\ t[k] = s[k - 1] BY <2>3, <1>0, <1>1
    <3> QED BY <3>1, <1>2
  <2> QED BY <2>1, <2>2, <2>3, <1>0
<1>4. ASSUME NEW k \in 1 .. Len(s) PROVE s[k] \in ToSet(t)
  <2>1. CASE k < i
    <3>1. k \in 1 .. Len(s) + 1 /\ t[k] = s[k] BY <2>1, <1>0, <1>1
    <3> QED BY <3>1, <1>2
  <2>2. CASE k >= i
    <3>1. k + 1 \in 1 .. Len(s) + 1 /\ t[k + 1] = s[k] BY <2>2, <1>0, <1>1
    <3> QED BY <3>1, <1>2
  <2> QED BY <2>1, <2>2, <1>0
<1>5. e \in ToSet(t)
  BY <1>0, <1>1, <1>2
<1>6. ToSet(t) = ToSet(s) \cup {e}
  BY <1>2, <1>3, <1>4, <1>5
<1> QED BY <1>6 DEF t

(* Every element at one place only: taken out, it is gone.                 *)
LEMMA ToSetOfRemoveAt ==
    ASSUME NEW S, NEW s \in Seq(S), NEW i \in 1 .. Len(s),
           \A j, k \in 1 .. Len(s) : s[j] = s[k] => j = k
    PROVE  ToSet(RemoveAt(s, i)) = ToSet(s) \ {s[i]}
<1> DEFINE t == RemoveAt(s, i)
<1>0. Len(s) \in Nat BY LenProperties
<1>1. /\ t \in Seq(S)
      /\ Len(t) = Len(s) - 1
      /\ \A k \in 1 .. Len(s) - 1 : t[k] = IF k < i THEN s[k] ELSE s[k + 1]
  BY RemoveAtProperties DEF RemovedAt, t
<1> HIDE DEF t
<1>2. ToSet(s) = {s[k] : k \in 1 .. Len(s)} /\ ToSet(t) = {t[k] : k \in 1 .. Len(s) - 1}
  BY <1>1, ToSetOfSeq
<1>3. ASSUME NEW k \in 1 .. Len(s) - 1 PROVE t[k] \in ToSet(s) \ {s[i]}
  <2>1. CASE k < i BY <2>1, <1>0, <1>1, <1>2
  <2>2. CASE k >= i
    <3>1. k + 1 \in 1 .. Len(s) /\ k + 1 # i /\ t[k] = s[k + 1] BY <2>2, <1>0, <1>1
    <3> QED BY <3>1, <1>2
  <2> QED BY <2>1, <2>2, <1>0
<1>4. ASSUME NEW k \in 1 .. Len(s), k # i PROVE s[k] \in ToSet(t)
  <2>1. CASE k < i
    <3>1. k \in 1 .. Len(s) - 1 /\ t[k] = s[k] BY <2>1, <1>0, <1>1
    <3> QED BY <3>1, <1>2
  <2>2. CASE k > i
    <3>1. k - 1 \in 1 .. Len(s) - 1 /\ t[k - 1] = s[k] BY <2>2, <1>0, <1>1
    <3> QED BY <3>1, <1>2
  <2> QED BY <2>1, <2>2, <1>0, <1>4
<1>5. ASSUME NEW x \in ToSet(s) \ {s[i]} PROVE x \in ToSet(t)
  <2>1. PICK k \in 1 .. Len(s) : x = s[k] BY <1>2
  <2> QED BY <2>1, <1>4
<1>6. ASSUME NEW x \in ToSet(t) PROVE x \in ToSet(s) \ {s[i]}
  <2>1. PICK k \in 1 .. Len(s) - 1 : x = t[k] BY <1>2
  <2> QED BY <2>1, <1>3
<1>7. ToSet(t) = ToSet(s) \ {s[i]}
  BY <1>5, <1>6
<1> QED BY <1>7 DEF t

(* Taken out at an end                                                     *)
LEMMA EndsTakenOut ==
    ASSUME NEW S, NEW s \in Seq(S), Len(s) # 0
    PROVE  /\ RemoveAt(s, 1) = Tail(s) /\ Head(s) = s[1]
           /\ RemoveAt(s, Len(s)) = SubSeq(s, 1, Len(s) - 1)
<1>0. Len(s) \in Nat /\ s # << >>
  BY LenProperties, EmptySeq
<1>1. /\ SubSeq(s, 1, 1 - 1) = << >> /\ Tail(s) = SubSeq(s, 1 + 1, Len(s))
      /\ Tail(s) \in Seq(S) /\ Head(s) = s[1]
  BY <1>0, SubSeqEmpty, TailIsSubSeq, HeadTailProperties
<1>2. /\ SubSeq(s, Len(s) + 1, Len(s)) = << >>
      /\ SubSeq(s, 1, Len(s) - 1) \in Seq(S)
  BY <1>0, SubSeqEmpty, SubSeqProperties, ElementOfSeq
<1> QED BY <1>1, <1>2, ConcatEmptySeq DEF RemoveAt
-----------------------------------------------------------------------------
(* Induction.  The theorem of the library takes a predicate; a set will do.*)

LEMMA LeastElement ==
    ASSUME NEW T, T \subseteq Nat, T # {}
    PROVE  \E n \in T : \A m \in T : n <= m
<1> DEFINE R == OpToRel(<, Nat)
<1>1. IsWellFoundedOn(R, Nat)
  BY NatLessThanWellFounded
<1>2. \A m, n \in Nat : m < n => <<m, n>> \in R
  BY DEF OpToRel
<1> HIDE DEF R
<1>3. PICK n \in T : \A m \in T : ~(<<m, n>> \in R)
  BY <1>1, WFMin
<1>4. ASSUME NEW m \in T PROVE n <= m
  <2>1. m \in Nat /\ n \in Nat
    BY <1>3
  <2>2. ~(m < n)
    BY <1>2, <1>3, <2>1
  <2> QED BY <2>1, <2>2
<1> QED BY <1>3, <1>4

LEMMA Induction ==
    ASSUME NEW S, 0 \in S, \A n \in Nat : n \in S => n + 1 \in S
    PROVE  Nat \subseteq S
<1> SUFFICES ASSUME Nat \ S # {} PROVE FALSE
  OBVIOUS
<1>1. PICK n \in Nat \ S : \A m \in Nat \ S : n <= m
  <2>1. Nat \ S \subseteq Nat
    OBVIOUS
  <2> QED BY <2>1, LeastElement
<1>2. n - 1 \in Nat /\ ~(n <= n - 1) /\ (n - 1) + 1 = n
  BY <1>1
<1>3. n - 1 \in S
  BY <1>1, <1>2
<1> QED BY <1>1, <1>2, <1>3

\* A function that begins with x and takes the steps of G
Follows(f, T, x, n, G) ==
    /\ f \in [0 .. n -> T]
    /\ f[0] = x /\ \A k \in 1 .. n : f[k] = G[k][f[k - 1]]

LEMMA FollowerExists ==
    ASSUME NEW T, NEW x \in T, NEW n \in Nat, NEW G, \A k \in 1 .. n : \A y \in T : G[k][y] \in T
    PROVE  \E f : Follows(f, T, x, n, G)
<1> DEFINE S == {m \in Nat : m <= n => \E f : Follows(f, T, x, m, G)}
<1>1. 0 \in S
  <2> DEFINE f == [i \in 0 .. 0 |-> x]
  <2>1. f \in [0 .. 0 -> T] /\ f[0] = x /\ \A k \in 1 .. 0 : FALSE
    OBVIOUS
  <2> HIDE DEF f
  <2>2. Follows(f, T, x, 0, G)
    BY <2>1 DEF Follows
  <2> QED BY <2>2
<1>2. ASSUME NEW m \in Nat, m \in S PROVE m + 1 \in S
  <2> SUFFICES ASSUME m + 1 <= n PROVE \E f : Follows(f, T, x, m + 1, G)
    OBVIOUS
  <2>1. PICK f : Follows(f, T, x, m, G)
    BY <1>2
  <2> DEFINE g == [i \in 0 .. m + 1 |-> IF i = m + 1 THEN G[m + 1][f[m]] ELSE f[i]]
  <2>2. f[m] \in T /\ G[m + 1][f[m]] \in T
    <3>1. m \in 0 .. m /\ m + 1 \in 1 .. n
      OBVIOUS
    <3> QED BY <2>1, <3>1 DEF Follows
  <2>3. g \in [0 .. m + 1 -> T]
    BY <2>1, <2>2 DEF Follows
  <2>4. g[0] = x
    BY <2>1 DEF Follows
  <2>5. ASSUME NEW k \in 1 .. m + 1 PROVE g[k] = G[k][g[k - 1]]
    <3>1. k - 1 \in 0 .. m /\ k - 1 # m + 1 /\ k \in 0 .. m + 1 /\ k - 1 \in 0 .. m + 1
      OBVIOUS
    <3>2. g[k - 1] = f[k - 1]
      BY <3>1
    <3>3. CASE k = m + 1
      <4>1. k - 1 = m
        BY <3>3
      <4> QED BY <3>1, <3>2, <3>3, <4>1
    <3>4. CASE k # m + 1
      <4>1. k \in 1 .. m
        BY <3>4
      <4>2. f[k] = G[k][f[k - 1]]
        BY <2>1, <4>1 DEF Follows
      <4>3. g[k] = f[k]
        BY <3>1, <3>4
      <4> QED BY <3>2, <4>2, <4>3
    <3> QED BY <3>3, <3>4
  <2> HIDE DEF g
  <2>6. Follows(g, T, x, m + 1, G)
    BY <2>3, <2>4, <2>5 DEF Follows
  <2> QED BY <2>6
<1> HIDE DEF S
<1>3. n \in S
  BY <1>1, <1>2, Induction
<1> QED BY <1>3 DEF S
-----------------------------------------------------------------------------
(* What lies on a stack, whose head is the top                             *)

LEMMA FrontAndRest ==
    ASSUME NEW S, NEW t \in Seq(S), NEW w \in Seq(S)
    PROVE  /\ SubSeq(t \o w, Len(t) + 1, Len(t \o w)) = w
           /\ \A x \in Seq(S) : Len(x) = Len(t) => (IsPrefix(x, t \o w) <=> x = t)
<1> DEFINE s == t \o w
           n == Len(t)
<1>1. /\ s \in Seq(S) /\ n \in Nat /\ Len(w) \in Nat /\ Len(s) = n + Len(w)
      /\ \A k \in 1 .. n + Len(w) : s[k] = IF k <= n THEN t[k] ELSE w[k - n]
  BY LenProperties, ConcatProperties
<1>2. \A k \in 1 .. Len(s) : s[k] \in S
  BY <1>1, ElementOfSeq
<1> HIDE DEF s, n
<1>3. SubSeq(s, n + 1, Len(s)) = w
  <2> DEFINE r == SubSeq(s, n + 1, Len(s))
  <2>1. n + 1 \in Int /\ Len(s) \in Int /\ \A k \in n + 1 .. Len(s) : s[k] \in S
    BY <1>1, <1>2
  <2>2. /\ r \in Seq(S) /\ Len(r) = IF n + 1 <= Len(s) THEN Len(s) - (n + 1) + 1 ELSE 0
        /\ \A k \in 1 .. Len(s) - (n + 1) + 1 : r[k] = s[(n + 1) + k - 1]
    BY <2>1, SubSeqProperties
  <2> HIDE DEF r
  <2>3. Len(r) = Len(w) /\ Len(s) - (n + 1) + 1 = Len(w)
    BY <1>1, <2>2
  <2>4. ASSUME NEW k \in 1 .. Len(r) PROVE r[k] = w[k]
    <3>1. /\ (n + 1) + k - 1 = n + k /\ n + k \in 1 .. n + Len(w) /\ ~(n + k <= n) /\ (n + k) - n = k
      BY <1>1, <2>3
    <3> QED BY <1>1, <2>2, <2>3, <3>1
  <2> QED BY <2>2, <2>3, <2>4, SeqEqual DEF r
<1>4. SubSeq(s, 1, n) = t
  <2> DEFINE r == SubSeq(s, 1, n)
  <2>1. 1 \in Int /\ n \in Int /\ \A k \in 1 .. n : s[k] \in S
    BY <1>1, <1>2
  <2>2. r \in Seq(S) /\ Len(r) = (IF 1 <= n THEN n - 1 + 1 ELSE 0) /\ \A k \in 1 .. n - 1 + 1 : r[k] = s[1 + k - 1]
    BY <2>1, SubSeqProperties
  <2> HIDE DEF r
  <2>3. Len(r) = n /\ n - 1 + 1 = n
    BY <1>1, <2>2
  <2>4. ASSUME NEW k \in 1 .. Len(r) PROVE r[k] = t[k]
    <3>1. 1 + k - 1 = k /\ k \in 1 .. n + Len(w) /\ k <= n
      BY <1>1, <2>3
    <3> QED BY <1>1, <2>2, <2>3, <3>1
  <2>5. Len(r) = Len(t)
    BY <2>3 DEF n
  <2> QED BY <2>2, <2>4, <2>5, SeqEqual DEF r
<1>5. ASSUME NEW x \in Seq(S), Len(x) = n PROVE IsPrefix(x, s) <=> x = t
  <2>1. SubSeq(x, 1, Len(x)) = x
    BY SubSeqFull
  <2>2. Len(x) <= Len(s)
    BY <1>1, <1>5
  <2> QED BY <1>4, <1>5, <2>1, <2>2 DEF IsPrefix
<1> QED BY <1>3, <1>5 DEF s, n

LEMMA OneOnTheOther ==
    ASSUME NEW S, NEW t \in S, NEW u \in S
    PROVE  /\ <<t>> \o <<u>> = <<t, u>>
           /\ \A w \in Seq(S) : <<t, u>> \o w = <<t>> \o (<<u>> \o w)
<1>1. /\ <<t>> \in Seq(S) /\ <<u>> \in Seq(S) /\ <<t, u>> \in Seq(S)
      /\ Len(<<t>>) = 1 /\ Len(<<u>>) = 1 /\ Len(<<t, u>>) = 2
      /\ <<t>>[1] = t /\ <<u>>[1] = u /\ <<t, u>>[1] = t /\ <<t, u>>[2] = u
  OBVIOUS
<1>2. <<t>> \o <<u>> = <<t, u>>
  <2> DEFINE a == <<t>>
             b == <<u>>
             c == <<t, u>>
  <2> HIDE DEF a, b, c
  <2>1. /\ a \o b \in Seq(S) /\ Len(a \o b) = 2
        /\ \A k \in 1 .. 2 : (a \o b)[k] = IF k <= 1 THEN a[k] ELSE b[k - 1]
    <3>1. /\ a \o b \in Seq(S) /\ Len(a \o b) = Len(a) + Len(b)
          /\ \A k \in 1 .. Len(a) + Len(b) : (a \o b)[k] = IF k <= Len(a) THEN a[k] ELSE b[k - Len(a)]
      BY <1>1, ConcatProperties DEF a, b
    <3> QED BY <1>1, <3>1 DEF a, b
  <2>2. (a \o b)[1] = t /\ (a \o b)[2] = u
    <3>1. (a \o b)[1] = a[1] /\ (a \o b)[2] = b[1]
      BY <2>1
    <3> QED BY <1>1, <3>1 DEF a, b
  <2>3. c \in Seq(S) /\ Len(c) = 2 /\ c[1] = t /\ c[2] = u
    BY <1>1 DEF c
  <2>4. \A k \in 1 .. Len(a \o b) : (a \o b)[k] = c[k]
    BY <2>1, <2>2, <2>3
  <2>5. a \o b = c
    BY <2>1, <2>3, <2>4, SeqEqual
  <2> QED BY <2>5 DEF a, b, c
<1>3. ASSUME NEW w \in Seq(S) PROVE <<t>> \o (<<u>> \o w) = (<<t>> \o <<u>>) \o w
  BY <1>1, ConcatAssociative
<1> QED BY <1>2, <1>3

LEMMA ReverseOf ==
    ASSUME NEW S, NEW l \in Seq(S)
    PROVE  /\ Reverse(l) \in Seq(S) /\ Len(Reverse(l)) = Len(l)
           /\ \A k \in 1 .. Len(l) : Reverse(l)[k] = l[(Len(l) - k) + 1]
<1> DEFINE n == Len(l)
           r == Reverse(l)
<1>1. n \in Nat /\ \A k \in 1 .. n : l[k] \in S
  BY LenProperties, ElementOfSeq
<1>2. r = [k \in 1 .. n |-> l[(n - k) + 1]]
  BY DEF Reverse
<1> HIDE DEF n, r
<1>3. \A k \in 1 .. n : (n - k) + 1 \in 1 .. n
  BY <1>1
<1>4. r \in [1 .. n -> S]
  BY <1>1, <1>2, <1>3
<1>5. \A s \in [1 .. n -> S] : s \in Seq(S) /\ Len(s) = n
  BY <1>1
<1>6. \A k \in 1 .. n : r[k] = l[(n - k) + 1]
  BY <1>2
<1> QED BY <1>4, <1>5, <1>6 DEF n, r

LEMMA ReverseOfLonger ==
    ASSUME NEW S, NEW l \in Seq(S), NEW t \in S
    PROVE  l \o <<t>> \in Seq(S) /\ Reverse(l \o <<t>>) = <<t>> \o Reverse(l)
<1> DEFINE n == Len(l)
           o == <<t>>
           a == l \o o
           r == Reverse(l)
           x == Reverse(a)
           y == o \o r
<1>1. n \in Nat /\ o \in Seq(S) /\ Len(o) = 1 /\ o[1] = t
  BY LenProperties
<1> HIDE DEF o
<1>2. a \in Seq(S) /\ Len(a) = n + 1 /\ \A k \in 1 .. n + 1 : a[k] = IF k <= n THEN l[k] ELSE o[k - n]
  <2>1. a \in Seq(S) /\ Len(a) = n + Len(o)
        /\ \A k \in 1 .. n + Len(o) : a[k] = IF k <= n THEN l[k] ELSE o[k - n]
    BY <1>1, ConcatProperties
  <2> HIDE DEF a, n
  <2> QED BY <1>1, <2>1
<1>3. r \in Seq(S) /\ Len(r) = n /\ \A k \in 1 .. n : r[k] = l[(n - k) + 1]
  BY ReverseOf
<1>4. x \in Seq(S) /\ Len(x) = n + 1 /\ \A k \in 1 .. n + 1 : x[k] = a[((n + 1) - k) + 1]
  <2>1. x \in Seq(S) /\ Len(x) = Len(a) /\ \A k \in 1 .. Len(a) : x[k] = a[(Len(a) - k) + 1]
    BY <1>2, ReverseOf
  <2> HIDE DEF a, x, n
  <2> QED BY <1>2, <2>1
<1> HIDE DEF r
<1>5. y \in Seq(S) /\ Len(y) = 1 + n /\ \A k \in 1 .. 1 + n : y[k] = IF k <= 1 THEN o[k] ELSE r[k - 1]
  <2>0. o \in Seq(S) /\ r \in Seq(S)
    BY <1>1, <1>3
  <2>1. y \in Seq(S) /\ Len(y) = Len(o) + Len(r)
        /\ \A k \in 1 .. Len(o) + Len(r) : y[k] = IF k <= Len(o) THEN o[k] ELSE r[k - Len(o)]
    BY <2>0, ConcatProperties
  <2> HIDE DEF y, n
  <2> QED BY <1>1, <1>3, <2>1
<1> HIDE DEF a, x, y, n
<1>6. ASSUME NEW k \in 1 .. Len(x) PROVE x[k] = y[k]
  <2>1. CASE k = 1
    <3>1. x[k] = a[n + 1] /\ a[n + 1] = o[1]
      <4>1. ((n + 1) - 1) + 1 = n + 1 /\ n + 1 \in 1 .. n + 1 /\ ~(n + 1 <= n) /\ (n + 1) - n = 1
        BY <1>1
      <4> QED BY <1>2, <1>4, <2>1, <4>1
    <3>2. y[k] = o[1]
      BY <1>1, <1>5, <2>1
    <3> QED BY <3>1, <3>2
  <2>2. CASE k # 1
    <3> DEFINE j == ((n + 1) - k) + 1
    <3>1. j \in 1 .. n + 1 /\ j <= n /\ k - 1 \in 1 .. n /\ j = (n - (k - 1)) + 1 /\ k \in 1 .. 1 + n /\ ~(k <= 1)
          /\ k \in 1 .. n + 1
      BY <1>1, <1>4, <2>2
    <3> HIDE DEF j
    <3>2. x[k] = l[j]
      <4>1. x[k] = a[((n + 1) - k) + 1]
        BY <1>4, <3>1
      <4>2. a[j] = l[j]
        BY <1>2, <3>1
      <4> QED BY <4>1, <4>2 DEF j
    <3>3. y[k] = l[j]
      BY <1>3, <1>5, <3>1
    <3> QED BY <3>2, <3>3
  <2> QED BY <2>1, <2>2
<1>7. x = y
  <2>1. Len(x) = Len(y)
    BY <1>1, <1>4, <1>5
  <2> QED BY <1>4, <1>5, <1>6, <2>1, SeqEqual
<1> QED BY <1>2, <1>7 DEF a, r, x, y, o

LEMMA ReverseOfShort ==
    ASSUME NEW S
    PROVE  /\ Reverse(<< >>) = << >>
           /\ \A t \in S : Reverse(<<t>>) = <<t>>
           /\ \A t, u \in S : Reverse(<<t, u>>) = <<u, t>>
<1>1. Reverse(<< >>) = << >>
  <2>1. << >> \in Seq(S)
    OBVIOUS
  <2>2. Reverse(<< >>) \in Seq(S) /\ Len(Reverse(<< >>)) = 0
    BY <2>1, ReverseOf
  <2> QED BY <2>2, EmptySeq
<1>2. ASSUME NEW t \in S PROVE Reverse(<<t>>) = <<t>>
  <2>1. << >> \in Seq(S) /\ <<t>> \in Seq(S)
    OBVIOUS
  <2>2. Reverse(<< >> \o <<t>>) = <<t>> \o Reverse(<< >>)
    BY <2>1, ReverseOfLonger
  <2>3. << >> \o <<t>> = <<t>> /\ <<t>> \o << >> = <<t>>
    BY <2>1, ConcatEmptySeq
  <2> QED BY <1>1, <2>2, <2>3
<1>3. ASSUME NEW t \in S, NEW u \in S PROVE Reverse(<<t, u>>) = <<u, t>>
  <2>1. <<t>> \in Seq(S)
    OBVIOUS
  <2>2. Reverse(<<t>> \o <<u>>) = <<u>> \o Reverse(<<t>>)
    BY <2>1, ReverseOfLonger
  <2>3. <<t>> \o <<u>> = <<t, u>> /\ <<u>> \o <<t>> = <<u, t>>
    BY OneOnTheOther
  <2> QED BY <1>2, <2>2, <2>3
<1> QED BY <1>1, <1>2, <1>3

\* What lies from some place down, and something put on it
LEMMA InFront ==
    ASSUME NEW S, NEW s \in Seq(S), NEW e \in S, NEW i \in 1 .. Len(s) + 1
    PROVE  /\ <<e>> \o SubSeq(s, i, Len(s)) \in Seq(S)
           /\ Len(<<e>> \o SubSeq(s, i, Len(s))) = (Len(s) - i) + 2
           /\ (<<e>> \o SubSeq(s, i, Len(s)))[1] = e
           /\ \A k \in i .. Len(s) : (<<e>> \o SubSeq(s, i, Len(s)))[(k - i) + 2] = s[k]
           /\ i <= Len(s) => SubSeq(s, i, Len(s)) = <<s[i]>> \o SubSeq(s, i + 1, Len(s))
<1> DEFINE n == Len(s)
           From(j) == SubSeq(s, j, n)
<1>1. n \in Nat /\ \A k \in 1 .. n : s[k] \in S
  BY LenProperties, ElementOfSeq
<1>2. ASSUME NEW j \in 1 .. n + 1
      PROVE  From(j) \in Seq(S) /\ Len(From(j)) = (n - j) + 1 /\ \A k \in 1 .. (n - j) + 1 : From(j)[k] = s[(j + k) - 1]
  <2>1. j \in Int /\ n \in Int /\ \A k \in j .. n : s[k] \in S
    BY <1>1
  <2>2. /\ From(j) \in Seq(S) /\ Len(From(j)) = (IF j <= n THEN n - j + 1 ELSE 0)
        /\ \A k \in 1 .. n - j + 1 : From(j)[k] = s[j + k - 1]
    BY <2>1, SubSeqProperties
  <2> HIDE DEF From
  <2> QED BY <1>1, <2>2
<1> HIDE DEF From
<1>3. ASSUME NEW j \in 1 .. n + 1, NEW x \in S
      PROVE  /\ <<x>> \o From(j) \in Seq(S) /\ Len(<<x>> \o From(j)) = (n - j) + 2
             /\ (<<x>> \o From(j))[1] = x
             /\ \A k \in j .. n : (<<x>> \o From(j))[(k - j) + 2] = s[k]
  <2> DEFINE o == <<x>>
             f == From(j)
             t == o \o f
  <2>1. o \in Seq(S) /\ Len(o) = 1 /\ o[1] = x
    OBVIOUS
  <2>2. f \in Seq(S) /\ Len(f) = (n - j) + 1 /\ \A k \in 1 .. (n - j) + 1 : f[k] = s[(j + k) - 1]
    BY <1>2
  <2> HIDE DEF o, f
  <2>3. t \in Seq(S) /\ Len(t) = 1 + Len(f) /\ \A k \in 1 .. 1 + Len(f) : t[k] = IF k <= 1 THEN o[k] ELSE f[k - 1]
    <3>0. o \in Seq(S) /\ f \in Seq(S)
      BY <2>1, <2>2
    <3>1. t \in Seq(S) /\ Len(t) = Len(o) + Len(f)
          /\ \A k \in 1 .. Len(o) + Len(f) : t[k] = IF k <= Len(o) THEN o[k] ELSE f[k - Len(o)]
      BY <3>0, ConcatProperties
    <3> HIDE DEF t
    <3> QED BY <2>1, <3>1
  <2> HIDE DEF t
  <2>4. ASSUME NEW k \in j .. n PROVE t[(k - j) + 2] = s[k]
    <3>1. (k - j) + 2 \in 1 .. 1 + Len(f) /\ ~((k - j) + 2 <= 1) /\ ((k - j) + 2) - 1 = (k - j) + 1
      BY <1>1, <2>2
    <3>2. (k - j) + 1 \in 1 .. (n - j) + 1 /\ (j + ((k - j) + 1)) - 1 = k
      BY <1>1
    <3> QED BY <2>2, <2>3, <3>1, <3>2
  <2>5. t[1] = x
    <3>1. 1 \in 1 .. 1 + Len(f)
      BY <1>1, <2>2
    <3> QED BY <2>1, <2>3, <3>1
  <2>6. Len(t) = (n - j) + 2
    BY <1>1, <2>2, <2>3
  <2> QED BY <2>3, <2>4, <2>5, <2>6 DEF t, o, f
<1>4. ASSUME i <= n PROVE From(i) = <<s[i]>> \o From(i + 1)
  <2>1. i \in 1 .. n + 1 /\ i + 1 \in 1 .. n + 1 /\ s[i] \in S
    BY <1>1, <1>4
  <2> DEFINE f == From(i)
             t == <<s[i]>> \o From(i + 1)
  <2>2. f \in Seq(S) /\ Len(f) = (n - i) + 1 /\ \A k \in 1 .. (n - i) + 1 : f[k] = s[(i + k) - 1]
    BY <1>2, <2>1
  <2>3. t \in Seq(S) /\ Len(t) = (n - (i + 1)) + 2 /\ t[1] = s[i] /\ \A k \in i + 1 .. n : t[(k - (i + 1)) + 2] = s[k]
    BY <1>3, <2>1
  <2> HIDE DEF f, t
  <2>4. Len(f) = Len(t)
    BY <1>1, <2>2, <2>3
  <2>5. ASSUME NEW k \in 1 .. Len(f) PROVE f[k] = t[k]
    <3>1. CASE k = 1
      <4>1. f[1] = s[(i + 1) - 1] /\ (i + 1) - 1 = i
        BY <1>1, <2>2, <3>1
      <4> QED BY <2>3, <3>1, <4>1
    <3>2. CASE k # 1
      <4>1. (i + k) - 1 \in i + 1 .. n /\ (((i + k) - 1) - (i + 1)) + 2 = k
        BY <1>1, <2>2, <3>2
      <4> QED BY <2>2, <2>3, <4>1
    <3> QED BY <3>1, <3>2
  <2>6. f = t
    BY <2>2, <2>3, <2>4, <2>5, SeqEqual
  <2> QED BY <2>6 DEF f, t
<1> QED BY <1>3, <1>4 DEF From, n
-----------------------------------------------------------------------------
(* Sequences joined into one                                               *)

JoinsUp(f, S, seqs) ==
    /\ f \in [0 .. Len(seqs) -> Seq(S)]
    /\ f[0] = << >>
    /\ \A k \in 1 .. Len(seqs) : f[k] = f[k - 1] \o seqs[k]

LEMMA FlattenSeqJoins ==
    ASSUME NEW S, NEW seqs \in Seq(Seq(S))
    PROVE  \E f : JoinsUp(f, S, seqs) /\ FlattenSeq(seqs) = f[Len(seqs)]
<1> DEFINE n == Len(seqs)
           G == [k \in 1 .. n |-> [y \in Seq(S) |-> y \o seqs[k]]]
<1>1. n \in Nat /\ \A k \in 1 .. n : seqs[k] \in Seq(S)
  BY LenProperties, ElementOfSeq
<1>2. \A k \in 1 .. n : \A y \in Seq(S) : G[k][y] = y \o seqs[k]
  OBVIOUS
<1>3. \A k \in 1 .. n : \A y \in Seq(S) : G[k][y] \in Seq(S)
  <2> HIDE DEF G
  <2> QED BY <1>1, <1>2, ConcatProperties
<1> HIDE DEF G, n
<1>4. << >> \in Seq(S)
  OBVIOUS
<1>5. PICK f : Follows(f, Seq(S), << >>, n, G)
  BY <1>1, <1>3, <1>4, FollowerExists
<1>6. f \in [0 .. n -> Seq(S)] /\ f[0] = << >> /\ \A k \in 1 .. n : f[k] = G[k][f[k - 1]]
  BY <1>5 DEF Follows
<1>7. \A k \in 1 .. n : f[k - 1] \in Seq(S)
  <2>1. \A k \in 1 .. n : k - 1 \in 0 .. n
    BY <1>1
  <2> QED BY <1>6, <2>1
<1>8. \A k \in 1 .. n : f[k] = f[k - 1] \o seqs[k]
  BY <1>2, <1>6, <1>7
<1>9. JoinsUp(f, S, seqs)
  BY <1>6, <1>8 DEF JoinsUp, n
<1>10. FlattenSeq(seqs) = f[n]
  <2>1. CASE n = 0
    <3>1. seqs = << >>
      BY <2>1, EmptySeq DEF n
    <3>2. FlattenSeq(seqs) = seqs
      BY <2>1 DEF FlattenSeq, n
    <3> QED BY <1>6, <2>1, <3>1, <3>2
  <2>2. CASE n # 0
    <3> DEFINE Defines(g) == g = [i \in 1 .. n |-> IF i = 1 THEN seqs[i] ELSE g[i - 1] \o seqs[i]]
               r == [i \in 1 .. n |-> f[i]]
               h == CHOOSE g : Defines(g)
    <3>1. Defines(r)
      <4>1. ASSUME NEW i \in 1 .. n PROVE r[i] = IF i = 1 THEN seqs[i] ELSE r[i - 1] \o seqs[i]
        <5>1. CASE i = 1
          <6>1. r[i] = f[i] /\ i - 1 = 0
            BY <5>1
          <6>2. f[i] = f[i - 1] \o seqs[i]
            BY <1>8
          <6>3. << >> \o seqs[i] = seqs[i]
            BY <1>1, ConcatEmptySeq
          <6> HIDE DEF r
          <6>4. r[i] = seqs[i]
            BY <1>6, <6>1, <6>2, <6>3
          <6> QED BY <5>1, <6>4
        <5>2. CASE i # 1
          <6>1. i - 1 \in 1 .. n
            BY <1>1, <5>2
          <6> QED BY <1>8, <5>2, <6>1
        <5> QED BY <5>1, <5>2
      <4> HIDE DEF r
      <4> DEFINE q == [i \in 1 .. n |-> IF i = 1 THEN seqs[i] ELSE r[i - 1] \o seqs[i]]
      <4>2. r = q
        BY <4>1 DEF r
      <4> QED BY <4>2
    <3>2. Defines(h)
      BY <3>1
    <3>3. FlattenSeq(seqs) = h[n]
      BY <2>2 DEF FlattenSeq, n
    <3> HIDE DEF h
    <3> DEFINE T == {k \in Nat : k + 1 <= n => h[k + 1] = f[k + 1]}
    <3>4. 0 \in T
      <4>1. 1 \in 1 .. n /\ 1 - 1 = 0
        BY <1>1, <2>2
      <4>2. h[1] = seqs[1]
        BY <3>2, <4>1
      <4>3. f[1] = << >> \o seqs[1]
        BY <1>6, <1>8, <4>1
      <4>4. << >> \o seqs[1] = seqs[1]
        BY <1>1, <4>1, ConcatEmptySeq
      <4> QED BY <4>2, <4>3, <4>4
    <3>5. ASSUME NEW k \in Nat, k \in T PROVE k + 1 \in T
      <4> SUFFICES ASSUME (k + 1) + 1 <= n PROVE h[(k + 1) + 1] = f[(k + 1) + 1]
        OBVIOUS
      <4>1. (k + 1) + 1 \in 1 .. n /\ (k + 1) + 1 # 1 /\ ((k + 1) + 1) - 1 = k + 1 /\ h[k + 1] = f[k + 1]
        BY <1>1, <3>5
      <4>2. h[(k + 1) + 1] = h[k + 1] \o seqs[(k + 1) + 1]
        BY <3>2, <4>1
      <4>3. f[(k + 1) + 1] = f[k + 1] \o seqs[(k + 1) + 1]
        BY <1>8, <4>1
      <4> QED BY <4>1, <4>2, <4>3
    <3> HIDE DEF T
    <3>6. n - 1 \in T
      <4>1. n - 1 \in Nat
        BY <1>1, <2>2
      <4>2. Nat \subseteq T
        BY <3>4, <3>5, Induction
      <4> QED BY <4>1, <4>2
    <3>7. h[n] = f[n]
      <4>1. (n - 1) + 1 = n
        BY <1>1
      <4> QED BY <1>1, <3>6, <4>1 DEF T
    <3> QED BY <3>3, <3>7
  <2> QED BY <2>1, <2>2
<1> QED BY <1>9, <1>10 DEF n

(* One more in front                                                       *)
LEMMA FlattenSeqOfLonger ==
    ASSUME NEW S, NEW x \in Seq(S), NEW seqs \in Seq(Seq(S))
    PROVE  /\ FlattenSeq(seqs) \in Seq(S)
           /\ FlattenSeq(<<x>> \o seqs) = x \o FlattenSeq(seqs)
<1> DEFINE n == Len(seqs)
           t == <<x>> \o seqs
<1>1. n \in Nat /\ \A k \in 1 .. n : seqs[k] \in Seq(S)
  BY LenProperties, ElementOfSeq
<1>2. t \in Seq(Seq(S)) /\ Len(t) = n + 1 /\ t[1] = x /\ \A k \in 1 .. n : t[k + 1] = seqs[k]
  <2>1. <<x>> \in Seq(Seq(S)) /\ Len(<<x>>) = 1 /\ <<x>>[1] = x
    OBVIOUS
  <2>2. /\ t \in Seq(Seq(S)) /\ Len(t) = Len(<<x>>) + n
        /\ \A k \in 1 .. Len(<<x>>) + n : t[k] = IF k <= Len(<<x>>) THEN <<x>>[k] ELSE seqs[k - Len(<<x>>)]
    BY <2>1, ConcatProperties
  <2> HIDE DEF t, n
  <2>3. Len(t) = n + 1 /\ \A k \in 1 .. n + 1 : t[k] = IF k <= 1 THEN <<x>>[k] ELSE seqs[k - 1]
    BY <1>1, <2>1, <2>2
  <2>4. t[1] = x
    BY <1>1, <2>1, <2>3
  <2>5. ASSUME NEW k \in 1 .. n PROVE t[k + 1] = seqs[k]
    <3>1. k + 1 \in 1 .. n + 1 /\ ~(k + 1 <= 1) /\ (k + 1) - 1 = k
      BY <1>1
    <3> QED BY <2>3, <3>1
  <2> QED BY <2>2, <2>3, <2>4, <2>5
<1> HIDE DEF t, n
<1>3. PICK f : JoinsUp(f, S, t) /\ FlattenSeq(t) = f[Len(t)]
  BY <1>2, FlattenSeqJoins
<1>4. PICK g : JoinsUp(g, S, seqs) /\ FlattenSeq(seqs) = g[Len(seqs)]
  BY FlattenSeqJoins
<1>5. f[0] = << >> /\ \A k \in 1 .. n + 1 : f[k] = f[k - 1] \o t[k]
  BY <1>2, <1>3 DEF JoinsUp
<1>6. g \in [0 .. n -> Seq(S)] /\ g[0] = << >> /\ \A k \in 1 .. n : g[k] = g[k - 1] \o seqs[k]
  BY <1>4 DEF JoinsUp, n
<1> DEFINE T == {k \in Nat : k <= n => f[k + 1] = x \o g[k]}
<1>7. 0 \in T
  <2>1. 1 \in 1 .. n + 1 /\ 1 - 1 = 0 /\ 0 + 1 = 1
    BY <1>1
  <2>2. f[1] = << >> \o x
    BY <1>2, <1>5, <2>1
  <2>3. << >> \o x = x /\ x \o << >> = x
    BY ConcatEmptySeq
  <2> QED BY <1>6, <2>1, <2>2, <2>3
<1>8. ASSUME NEW k \in Nat, k \in T PROVE k + 1 \in T
  <2> SUFFICES ASSUME k + 1 <= n PROVE f[(k + 1) + 1] = x \o g[k + 1]
    OBVIOUS
  <2>1. /\ k + 1 \in 1 .. n /\ (k + 1) + 1 \in 1 .. n + 1 /\ ((k + 1) + 1) - 1 = k + 1 /\ (k + 1) - 1 = k
        /\ k \in 0 .. n /\ f[k + 1] = x \o g[k]
    BY <1>1, <1>8
  <2>2. f[(k + 1) + 1] = (x \o g[k]) \o seqs[k + 1]
    BY <1>2, <1>5, <2>1
  <2>3. g[k + 1] = g[k] \o seqs[k + 1]
    BY <1>6, <2>1
  <2>4. g[k] \in Seq(S) /\ seqs[k + 1] \in Seq(S)
    BY <1>1, <1>6, <2>1
  <2>5. \A y, z \in Seq(S) : (x \o y) \o z = x \o (y \o z)
    BY ConcatAssociative
  <2> QED BY <2>2, <2>3, <2>4, <2>5
<1> HIDE DEF T
<1>9. n \in T
  BY <1>1, <1>7, <1>8, Induction
<1>10. f[n + 1] = x \o g[n]
  BY <1>1, <1>9 DEF T
<1>11. g[n] \in Seq(S)
  BY <1>1, <1>6
<1> QED BY <1>2, <1>3, <1>4, <1>10, <1>11 DEF t, n

(* Joins may be taken in any order                                         *)
LEMMA JoinsRegroup ==
    ASSUME NEW S, NEW x \in Seq(S)
    PROVE  \A y, z \in Seq(S) : (x \o y) \o z = x \o (y \o z)
  BY ConcatAssociative

ThreeJoined(x, y, z) == (x \o y) \o z

LEMMA Regrouped ==
    ASSUME NEW S, NEW x \in Seq(S)
    PROVE  \A y, z, w \in Seq(S) :
              ThreeJoined(y, z, w) \in Seq(S) /\ ThreeJoined(x \o y, z, w) = x \o ThreeJoined(y, z, w)
<1>1. \A b, c \in Seq(S) : (x \o b) \o c = x \o (b \o c)
  BY JoinsRegroup
<1>2. \A b, c \in Seq(S) : b \o c \in Seq(S)
  BY ConcatProperties
<1> SUFFICES ASSUME NEW y \in Seq(S), NEW z \in Seq(S), NEW w \in Seq(S)
             PROVE  ThreeJoined(y, z, w) \in Seq(S) /\ ThreeJoined(x \o y, z, w) = x \o ThreeJoined(y, z, w)
  OBVIOUS
<1>3. y \o z \in Seq(S) /\ (y \o z) \o w \in Seq(S)
  BY <1>2
<1>4. (x \o y) \o z = x \o (y \o z)
  BY <1>1
<1>5. (x \o (y \o z)) \o w = x \o ((y \o z) \o w)
  BY <1>1, <1>3
<1> QED BY <1>3, <1>4, <1>5 DEF ThreeJoined
-----------------------------------------------------------------------------
(* Sequences as stacks: the top is the first element.  IsSeq says that     *)
(* something is a sequence, whatever of; the models do not say of what.    *)
IsSeq(s) == \E S : s \in Seq(S)
\* A stack counted from the bottom
Flip(s) == [h \in 1 .. Len(s) |-> s[(Len(s) + 1) - h]]
Agree(m, s, t) == \A h \in 1 .. m : t[h] = s[h]

\* Only the analyzer on the top may have changed.
Changed(s, t) == Len(t) = Len(s) /\ \A k \in 2 .. Len(s) : t[k] = s[k]

LEMMA Lengths ==
    ASSUME NEW s, IsSeq(s)
    PROVE  Len(s) \in Nat /\ DOMAIN s = 1 .. Len(s) /\ (s = << >> <=> Len(s) = 0)
<1> PICK S : s \in Seq(S)
  BY DEF IsSeq
<1> QED BY LenProperties, EmptySeq

LEMMA NoMore ==
    ASSUME NEW s, IsSeq(s)
    PROVE  Len(s) \in Nat /\ (Len(s) > 0 <=> s # << >>)
<1> PICK S : s \in Seq(S)
  BY DEF IsSeq
<1> QED BY LenProperties, EmptySeq

LEMMA ReplacedTop ==
    ASSUME NEW s, IsSeq(s), Len(s) > 0, NEW x
    PROVE  /\ IsSeq([s EXCEPT ![1] = x]) /\ Changed(s, [s EXCEPT ![1] = x])
           /\ [s EXCEPT ![1] = x][1] = x
<1> PICK S : s \in Seq(S)
  BY DEF IsSeq
<1> DEFINE t == [s EXCEPT ![1] = x]
<1>1. Len(s) \in Nat /\ DOMAIN s = 1 .. Len(s) /\ s \in [1 .. Len(s) -> S]
  BY LenProperties
<1>2. t \in [1 .. Len(s) -> S \cup {x}] /\ t[1] = x /\ \A k \in 2 .. Len(s) : t[k] = s[k]
  BY <1>1
<1> HIDE DEF t
<1>3. t \in Seq(S \cup {x}) /\ Len(t) = Len(s)
  BY <1>1, <1>2, LenProperties
<1>4. IsSeq(t) /\ Changed(s, t)
  BY <1>2, <1>3 DEF IsSeq, Changed
<1> QED BY <1>2, <1>4 DEF t

LEMMA OneMore ==
    ASSUME NEW x, NEW s, IsSeq(s)
    PROVE  /\ IsSeq(<<x>>) /\ Len(<<x>>) = 1 /\ <<x>>[1] = x
           /\ IsSeq(<<x>> \o s) /\ Len(<<x>> \o s) = Len(s) + 1 /\ Len(s) \in Nat
           /\ Head(<<x>> \o s) = x /\ Tail(<<x>> \o s) = s
           /\ (<<x>> \o s)[1] = x /\ \A k \in 1 .. Len(s) : (<<x>> \o s)[k + 1] = s[k]
<1> PICK S1 : s \in Seq(S1)
  BY DEF IsSeq
<1> DEFINE S == S1 \cup {x}
<1>1. s \in Seq(S) /\ <<x>> \in Seq(S) /\ x \in S
  OBVIOUS
<1> HIDE DEF S
<1>2. Len(<<x>>) = 1 /\ <<x>>[1] = x /\ Len(s) \in Nat
  BY <1>1, LenProperties
<1>3. /\ <<x>> \o s \in Seq(S) /\ Len(<<x>> \o s) = Len(s) + 1
      /\ \A k \in 1 .. Len(s) + 1 : (<<x>> \o s)[k] = IF k <= 1 THEN <<x>>[k] ELSE s[k - 1]
  BY <1>1, <1>2, ConcatProperties
<1>4. (<<x>> \o s)[1] = x /\ \A k \in 1 .. Len(s) : (<<x>> \o s)[k + 1] = s[k]
  <2>1. 1 \in 1 .. Len(s) + 1
    BY <1>2
  <2>2. \A k \in 1 .. Len(s) : k + 1 \in 1 .. Len(s) + 1 /\ ~(k + 1 <= 1) /\ (k + 1) - 1 = k
    BY <1>2
  <2> QED BY <1>2, <1>3, <2>1, <2>2
<1>5. Head(<<x>> \o s) = x /\ Tail(<<x>> \o s) = s
  BY <1>1
<1> QED BY <1>1, <1>2, <1>3, <1>4, <1>5 DEF IsSeq

LEMMA OneLess ==
    ASSUME NEW s, IsSeq(s), Len(s) > 0
    PROVE  /\ IsSeq(Tail(s)) /\ Len(s) \in Nat \ {0} /\ Len(Tail(s)) = Len(s) - 1
           /\ Head(s) = s[1] /\ \A k \in 1 .. Len(s) - 1 : Tail(s)[k] = s[k + 1]
           /\ <<Head(s)>> \o Tail(s) = s
<1> PICK S : s \in Seq(S)
  BY DEF IsSeq
<1>1. s # << >> /\ Len(s) \in Nat \ {0}
  BY LenProperties, EmptySeq
<1>2. /\ Head(s) = s[1] /\ Head(s) \in S /\ Tail(s) \in Seq(S) /\ Len(Tail(s)) = Len(s) - 1
      /\ \A k \in 1 .. Len(Tail(s)) : Tail(s)[k] = s[k + 1]
  BY <1>1, HeadTailProperties
<1>3. <<Head(s)>> \o Tail(s) = s
  BY <1>1
<1> QED BY <1>1, <1>2, <1>3 DEF IsSeq

LEMMA PutTogether ==
    ASSUME NEW s, IsSeq(s), s # << >>
    PROVE  <<Head(s)>> \o Tail(s) = s
<1> PICK S : s \in Seq(S)
  BY DEF IsSeq
<1> QED OBVIOUS

LEMMA PutOn ==
    ASSUME NEW t, IsSeq(t), NEW p, IsSeq(p)
    PROVE  /\ IsSeq(p \o t) /\ Len(p \o t) = Len(t) + Len(p) /\ Len(p) \in Nat /\ Len(t) \in Nat
           /\ Len(p) > 0 => Len(p \o t) > 0 /\ Head(p \o t) = p[1]
           /\ Len(p) = 0 => p \o t = t
<1> PICK S1 : t \in Seq(S1)
  BY DEF IsSeq
<1> PICK S2 : p \in Seq(S2)
  BY DEF IsSeq
<1> DEFINE S == S1 \cup S2
<1>1. t \in Seq(S) /\ p \in Seq(S)
  OBVIOUS
<1> HIDE DEF S
<1>2. /\ p \o t \in Seq(S) /\ Len(p \o t) = Len(p) + Len(t) /\ Len(p) \in Nat /\ Len(t) \in Nat
      /\ \A k \in 1 .. Len(p) + Len(t) : (p \o t)[k] = IF k <= Len(p) THEN p[k] ELSE t[k - Len(p)]
  BY <1>1, ConcatProperties, LenProperties
<1>3. IsSeq(p \o t)
  BY <1>2 DEF IsSeq
<1>4. ASSUME Len(p) > 0
      PROVE  Len(p \o t) > 0 /\ Head(p \o t) = p[1]
  <2>1. Len(p \o t) > 0 /\ 1 \in 1 .. Len(p) + Len(t) /\ 1 <= Len(p)
    BY <1>2, <1>4
  <2>2. Head(p \o t) = (p \o t)[1]
    BY <1>3, <2>1, OneLess
  <2> QED BY <1>2, <2>1, <2>2
<1>5. ASSUME Len(p) = 0
      PROVE  p \o t = t
  <2>1. p = << >>
    BY <1>1, <1>5, EmptySeq
  <2> QED BY <1>1, <2>1, ConcatEmptySeq
<1> QED BY <1>2, <1>3, <1>4, <1>5

LEMMA FlipEnds ==
    ASSUME NEW s, IsSeq(s), Len(s) > 0
    PROVE  /\ Len(s) \in Nat \ {0} /\ Flip(s)[Len(s)] = s[1] /\ Head(s) = s[1]
           /\ \A k \in 1 .. Len(s) : Flip(s)[(Len(s) + 1) - k] = s[k]
<1>1. Len(s) \in Nat \ {0} /\ Head(s) = s[1]
  <2> PICK S : s \in Seq(S)
    BY DEF IsSeq
  <2> QED BY LenProperties, HeadTailProperties
<1>2. ASSUME NEW k \in 1 .. Len(s)
      PROVE  Flip(s)[(Len(s) + 1) - k] = s[k]
  BY <1>1 DEF Flip
<1>3. (Len(s) + 1) - 1 = Len(s) /\ 1 \in 1 .. Len(s)
  BY <1>1
<1>4. Flip(s)[Len(s)] = s[1]
  BY <1>2, <1>3
<1> QED BY <1>1, <1>2, <1>4

LEMMA FlipTail ==
    ASSUME NEW s, IsSeq(s), Len(s) > 0
    PROVE  /\ IsSeq(Tail(s)) /\ Len(Tail(s)) = Len(s) - 1
           /\ Agree(Len(s) - 1, Flip(s), Flip(Tail(s)))
<1> PICK S : s \in Seq(S)
  BY DEF IsSeq
<1> DEFINE t == Tail(s)
<1>1. Len(s) \in Nat \ {0} /\ s # << >>
  BY LenProperties, EmptySeq
<1>2. t \in Seq(S) /\ Len(t) = Len(s) - 1 /\ \A k \in 1 .. Len(t) : t[k] = s[k + 1]
  BY <1>1, HeadTailProperties
<1> HIDE DEF t
<1>3. ASSUME NEW h \in 1 .. Len(s) - 1
      PROVE  Flip(t)[h] = Flip(s)[h]
  <2>1. h \in 1 .. Len(t) /\ h \in 1 .. Len(s) /\ (Len(t) + 1) - h \in 1 .. Len(t)
        /\ (Len(t) + 1) - h + 1 = (Len(s) + 1) - h
    BY <1>1, <1>2
  <2> QED BY <1>2, <2>1 DEF Flip
<1>4. IsSeq(t)
  BY <1>2 DEF IsSeq
<1> QED BY <1>2, <1>3, <1>4 DEF Agree, t

\* p, of length len, is put on s.
LEMMA FlipPush ==
    ASSUME NEW s, IsSeq(s), NEW p, IsSeq(p)
    PROVE  /\ IsSeq(p \o s) /\ Len(p \o s) = Len(s) + Len(p)
           /\ Agree(Len(s), Flip(s), Flip(p \o s))
           /\ \A h \in Len(s) + 1 .. Len(s) + Len(p) : Flip(p \o s)[h] = p[(Len(s) + Len(p) + 1) - h]
<1> PICK S1 : s \in Seq(S1)
  BY DEF IsSeq
<1> PICK S2 : p \in Seq(S2)
  BY DEF IsSeq
<1> DEFINE S == S1 \cup S2
           q == p \o s
<1>0. s \in Seq(S) /\ p \in Seq(S)
  OBVIOUS
<1>1. Len(s) \in Nat /\ Len(p) \in Nat
  BY <1>0, LenProperties
<1>2. /\ q \in Seq(S) /\ Len(q) = Len(p) + Len(s)
      /\ \A k \in 1 .. Len(q) : q[k] = IF k <= Len(p) THEN p[k] ELSE s[k - Len(p)]
  BY <1>0, ConcatProperties
<1> HIDE DEF S, q
<1>3. ASSUME NEW h \in 1 .. Len(s)
      PROVE  Flip(q)[h] = Flip(s)[h]
  <2>1. /\ h \in 1 .. Len(q) /\ (Len(q) + 1) - h \in 1 .. Len(q) /\ ~((Len(q) + 1) - h <= Len(p))
        /\ ((Len(q) + 1) - h) - Len(p) = (Len(s) + 1) - h
    BY <1>1, <1>2
  <2> QED BY <1>2, <2>1 DEF Flip
<1>4. ASSUME NEW h \in Len(s) + 1 .. Len(s) + Len(p)
      PROVE  Flip(q)[h] = p[(Len(s) + Len(p) + 1) - h]
  <2>1. /\ h \in 1 .. Len(q) /\ (Len(q) + 1) - h \in 1 .. Len(q) /\ (Len(q) + 1) - h <= Len(p)
        /\ (Len(q) + 1) - h = (Len(s) + Len(p) + 1) - h
    BY <1>1, <1>2
  <2> QED BY <1>2, <2>1 DEF Flip
<1>5. IsSeq(q) /\ Len(q) = Len(s) + Len(p)
  BY <1>1, <1>2 DEF IsSeq
<1> QED BY <1>3, <1>4, <1>5 DEF Agree, q

LEMMA FlipChanged ==
    ASSUME NEW s, IsSeq(s), Len(s) > 0, NEW t, Changed(s, t)
    PROVE  /\ Len(t) = Len(s) /\ Flip(t)[Len(s)] = t[1]
           /\ Agree(Len(s) - 1, Flip(s), Flip(t))
<1>1. Len(s) \in Nat \ {0} /\ Len(t) = Len(s) /\ \A k \in 2 .. Len(s) : t[k] = s[k]
  BY FlipEnds DEF Changed
<1>2. Flip(t)[Len(s)] = t[1]
  <2>1. Len(s) \in 1 .. Len(t) /\ (Len(t) + 1) - Len(s) = 1
    BY <1>1
  <2> QED BY <2>1 DEF Flip
<1>3. ASSUME NEW h \in 1 .. Len(s) - 1
      PROVE  Flip(t)[h] = Flip(s)[h]
  <2>1. h \in 1 .. Len(s) /\ (Len(s) + 1) - h \in 2 .. Len(s)
    BY <1>1
  <2> QED BY <1>1, <2>1 DEF Flip
<1> QED BY <1>1, <1>2, <1>3 DEF Agree
-----------------------------------------------------------------------------
(* Sequences with e at the end and nowhere else                            *)
OnlyLast(s, e) == s # << >> /\ \A k \in DOMAIN s : s[k] = e <=> k = Len(s)

\* Taking another element from the front keeps it so.
LEMMA PopSymbol ==
    ASSUME NEW S, NEW s \in Seq(S), NEW e, OnlyLast(s, e), Head(s) # e
    PROVE  Tail(s) \in Seq(S) /\ OnlyLast(Tail(s), e)
<1>1. Len(s) \in Nat /\ Len(s) > 1 /\ DOMAIN s = 1 .. Len(s)
  BY EmptySeq, LenProperties DEF OnlyLast
<1>2. /\ Tail(s) \in Seq(S) /\ Len(Tail(s)) = Len(s) - 1
      /\ \A k \in 1 .. Len(Tail(s)) : Tail(s)[k] = s[k + 1]
  BY HeadTailProperties DEF OnlyLast
<1>3. DOMAIN Tail(s) = 1 .. Len(s) - 1 /\ Tail(s) # << >>
  <2>1. \A t \in Seq(S) : DOMAIN t = 1 .. Len(t) /\ (Len(t) > 0 => t # << >>)
    BY EmptySeq, LenProperties
  <2>2. DOMAIN Tail(s) = 1 .. Len(Tail(s)) /\ (Len(Tail(s)) > 0 => Tail(s) # << >>)
    BY <1>2, <2>1, Zenon
  <2> QED BY <1>1, <1>2, <2>2
<1>4. \A k \in 1 .. Len(s) - 1 : k + 1 \in DOMAIN s /\ Tail(s)[k] = s[k + 1]
  BY <1>1, <1>2
<1>5. ASSUME NEW k \in DOMAIN Tail(s)
      PROVE  Tail(s)[k] = e <=> k = Len(Tail(s))
  BY <1>1, <1>2, <1>3, <1>4 DEF OnlyLast
<1> QED BY <1>2, <1>3, <1>5 DEF OnlyLast

\* e is taken last.
LEMMA PopEOF ==
    ASSUME NEW S, NEW s \in Seq(S), NEW e, OnlyLast(s, e), Head(s) = e
    PROVE  Tail(s) = << >>
<1>1. Len(s) = 1
  <2>1. Len(s) \in Nat \ {0} /\ DOMAIN s = 1 .. Len(s) /\ Head(s) = s[1]
    BY EmptySeq, LenProperties DEF OnlyLast
  <2> QED BY <2>1 DEF OnlyLast
<1>2. Tail(s) \in Seq(S) /\ Len(Tail(s)) = 0
  BY <1>1, HeadTailProperties DEF OnlyLast
<1> QED BY <1>2, EmptySeq

\* Putting others in front keeps it so.
LEMMA PushSymbols ==
    ASSUME NEW S, NEW s \in Seq(S), NEW e, OnlyLast(s, e), NEW p \in Seq(S),
           \A k \in DOMAIN p : p[k] # e
    PROVE  p \o s \in Seq(S) /\ OnlyLast(p \o s, e)
<1> DEFINE q == p \o s
<1>1. Len(p) \in Nat /\ Len(s) \in Nat \ {0} /\ DOMAIN p = 1 .. Len(p) /\ DOMAIN s = 1 .. Len(s)
  BY EmptySeq, LenProperties DEF OnlyLast
<1>2. /\ q \in Seq(S) /\ Len(q) = Len(p) + Len(s)
      /\ \A k \in 1 .. Len(q) : q[k] = IF k <= Len(p) THEN p[k] ELSE s[k - Len(p)]
  BY ConcatProperties
<1>3. DOMAIN q = 1 .. Len(q) /\ q # << >>
  BY <1>1, <1>2, EmptySeq
<1>4. ASSUME NEW k \in DOMAIN q
      PROVE  q[k] = e <=> k = Len(q)
  <2>1. CASE k <= Len(p)
    BY <1>1, <1>2, <1>3, <2>1
  <2>2. CASE k > Len(p)
    <3>1. k - Len(p) \in DOMAIN s /\ q[k] = s[k - Len(p)]
      BY <1>1, <1>2, <1>3, <2>2
    <3>2. s[k - Len(p)] = e <=> k - Len(p) = Len(s)
      BY <3>1, Zenon DEF OnlyLast
    <3>3. k \in Nat /\ Len(q) = Len(p) + Len(s)
      BY <1>1, <1>2, <1>3
    <3>4. k - Len(p) = Len(s) <=> k = Len(q)
      BY <1>1, <3>3
    <3> QED BY <3>1, <3>2, <3>4, Zenon
  <2> QED BY <1>1, <1>2, <1>3, <2>1, <2>2
<1> QED BY <1>2, <1>3, <1>4 DEF OnlyLast
=============================================================================
