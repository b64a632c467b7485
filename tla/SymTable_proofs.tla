--------------------------- MODULE SymTable_proofs ---------------------------
(***************************************************************************)
(* Proofs about SymTable: a chain holds a key once, the strings of a       *)
(* signature are strings, and what is read in them is what was declared.   *)
(***************************************************************************)
EXTENDS SymTable, Buffer_proofs, SequenceLemmas, FiniteSetTheorems

Strings == {b \in UNION {[str : Cell(n), len : Nat, buffer_size : Nat, overrun : BOOLEAN] : n \in Nat} :
                IsString(b)}

Items == [key : Key, ret_type : Type \cup {NoType}, params_num : Nat, defined : BOOLEAN,
          param_types : Strings, param_names : Strings]
Signatures == [types : Seq(Type), names : Seq(Name), ret_type : Type \cup {NoType}, defined : BOOLEAN]

\* A letter for every type
PackedTypes(b, types) ==
    /\ b.len = Len(types)
    /\ \A i \in 1 .. Len(types) : b.str[i - 1] = TypeChar[types[i]]

\* A name in the string, from this place on, and the mark behind it
Segment(b, from, name) ==
    /\ from \in Nat /\ from + Len(name) < b.len
    /\ \A j \in 1 .. Len(name) : b.str[from + j - 1] = name[j]
    /\ b.str[from + Len(name)] = Mark

MarksIn(b) == {i \in 0 .. b.len : b.str[i] = Mark}

\* Where the names begin, and where the next will
Begins(b, names, starts) ==
    /\ starts \in [1 .. Len(names) + 1 -> Nat]
    /\ starts[1] = 0 /\ starts[Len(names) + 1] = b.len
    /\ \A k \in 1 .. Len(names) : /\ Segment(b, starts[k], names[k])
                                  /\ starts[k + 1] = starts[k] + Len(names[k]) + 1

PackedNames(b, names) ==
    /\ IsFiniteSet(MarksIn(b)) /\ Cardinality(MarksIn(b)) = Len(names)
    /\ \E starts : Begins(b, names, starts)

\* The item holds the signature.
Signed(item, d) ==
    /\ item.params_num = Len(d.types) /\ item.ret_type = d.ret_type /\ item.defined = d.defined
    /\ Len(d.names) <= Len(d.types)
    /\ PackedTypes(item.param_types, d.types)
    /\ PackedNames(item.param_names, d.names)
-----------------------------------------------------------------------------
(* The strings of a signature                                              *)

LEMMA StringsAreStrings == \A b : b \in Strings <=> IsString(b)
<1>1. ASSUME NEW b, IsString(b) PROVE b \in Strings
  <2>1. BufferIs(b, b.str, b.len, b.buffer_size)
    BY <1>1 DEF IsString
  <2>2. b.buffer_size \in Nat
    BY <2>1, Fields
  <2>3. b \in [str : Cell(b.buffer_size), len : Nat, buffer_size : Nat, overrun : BOOLEAN]
    BY <2>1 DEF BufferIs
  <2> QED BY <1>1, <2>2, <2>3 DEF Strings
<1> QED BY <1>1 DEF Strings

LEMMA CodesAreChars ==
    /\ Mark \in Char
    /\ \A t \in Type : t \in DOMAIN TypeChar /\ TypeChar[t] \in Char
    /\ \A n \in Name : n \in Seq(Char) /\ Len(n) \in Nat \ {0} /\ \A i \in 1 .. Len(n) : n[i] # Mark
<1>1. Mark \in Char /\ \A t \in Type : t \in DOMAIN TypeChar /\ TypeChar[t] \in Char
  BY CodeAssumption, TypeAssumption DEF Char, NUL
<1>2. ASSUME NEW n \in Name
      PROVE  n \in Seq(Char) /\ Len(n) \in Nat \ {0} /\ \A i \in 1 .. Len(n) : n[i] # Mark
  <2>1. n \in Seq(1 .. 127) /\ n # << >>
    BY NameAssumption
  <2>2. \A x \in 1 .. 127 : x \in Char
    BY DEF Char, NUL
  <2>4. Len(n) \in Nat \ {0} /\ DOMAIN n = 1 .. Len(n) /\ n \in [1 .. Len(n) -> 1 .. 127]
    <3>1. \A S : n \in Seq(S) /\ n # << >> => /\ Len(n) \in Nat /\ Len(n) # 0
                                             /\ DOMAIN n = 1 .. Len(n) /\ n \in [1 .. Len(n) -> S]
      BY LenProperties, EmptySeq
    <3> QED BY <2>1, <3>1
  <2>3. n \in Seq(Char)
    <3>1. n \in [1 .. Len(n) -> Char]
      BY <2>2, <2>4
    <3> QED BY <2>4, <3>1, SeqDef
  <2> QED BY <2>3, <2>4, CodeAssumption
<1> QED BY <1>1, <1>2

LEMMA PackAType ==
    ASSUME NEW b \in Strings, NEW types \in Seq(Type), PackedTypes(b, types), NEW type \in Type
    PROVE  /\ buffer_append_c(b, TypeChar[type]) \in Strings
           /\ PackedTypes(buffer_append_c(b, TypeChar[type]), Append(types, type))
<1> DEFINE c == TypeChar[type]
           r == buffer_append_c(b, c)
           n == Len(types)
           longer == Append(types, type)
<1>1. Longer(r, b, <<c>>)
  BY StringsAreStrings, CodesAreChars, AppendingACharacter
<1>2. /\ n \in Nat /\ longer \in Seq(Type) /\ Len(longer) = n + 1
      /\ \A i \in 1 .. n : longer[i] = types[i]
      /\ longer[n + 1] = type
  BY AppendProperties, LenProperties
<1> HIDE DEF r, longer, c
<1>3. /\ b.len = n /\ Len(<<c>>) = 1 /\ r.len = b.len + 1
      /\ \A i \in 0 .. b.len - 1 : r.str[i] = b.str[i]
      /\ \A i \in 1 .. 1 : r.str[b.len + i - 1] = <<c>>[i]
  BY <1>1 DEF Longer, PackedTypes
<1>4. ASSUME NEW i \in 1 .. n + 1 PROVE r.str[i - 1] = TypeChar[longer[i]]
  <2>1. CASE i = n + 1
    <3>1. 1 \in 1 .. 1 /\ <<c>>[1] = c /\ b.len + 1 - 1 = i - 1
      BY <1>2, <1>3, <2>1
    <3> QED BY <1>2, <1>3, <2>1, <3>1 DEF c
  <2>2. CASE i # n + 1
    <3>1. i \in 1 .. n /\ i - 1 \in 0 .. n - 1
      BY <1>2, <2>2
    <3> QED BY <1>2, <1>3, <3>1 DEF PackedTypes
  <2> QED BY <2>1, <2>2
<1> QED BY <1>1, <1>2, <1>3, <1>4, StringsAreStrings DEF Longer, PackedTypes, r, longer, c

LEMMA SegmentStays ==
    ASSUME NEW old \in Strings, NEW s \in Seq(Char), NEW b, Longer(b, old, s),
           NEW from, NEW name, Len(name) \in Nat, Segment(old, from, name)
    PROVE  Segment(b, from, name)
<1>1. /\ from \in Nat /\ from + Len(name) < old.len /\ old.len \in Nat /\ Len(s) \in Nat
      /\ b.len = old.len + Len(s)
      /\ \A i \in 0 .. old.len - 1 : b.str[i] = old.str[i]
  BY StringsAreStrings, Fields DEF Segment, Longer, IsString
<1>2. ASSUME NEW j \in 1 .. Len(name) PROVE b.str[from + j - 1] = name[j]
  <2>1. from + j - 1 \in 0 .. old.len - 1
    BY <1>1
  <2> QED BY <1>1, <2>1 DEF Segment
<1>3. b.str[from + Len(name)] = Mark
  <2>1. from + Len(name) \in 0 .. old.len - 1
    BY <1>1
  <2> QED BY <1>1, <2>1 DEF Segment
<1>4. from + Len(name) < b.len
  BY <1>1
<1> QED BY <1>1, <1>2, <1>3, <1>4 DEF Segment

LEMMA PackAName ==
    ASSUME NEW b \in Strings, NEW names \in Seq(Name), PackedNames(b, names), NEW name \in Name
    PROVE  /\ buffer_append_c(buffer_append_str(b, name), Mark) \in Strings
           /\ PackedNames(buffer_append_c(buffer_append_str(b, name), Mark), Append(names, name))
<1> DEFINE a == buffer_append_str(b, name)
           r == buffer_append_c(a, Mark)
           m == Len(names)
           l == Len(name)
           longer == Append(names, name)
<1>1. Longer(a, b, name) /\ a \in Strings
  BY StringsAreStrings, CodesAreChars, AppendingAString DEF Longer
<1>2. Longer(r, a, <<Mark>>) /\ r \in Strings
  BY <1>1, StringsAreStrings, CodesAreChars, AppendingACharacter DEF Longer
<1>3. /\ m \in Nat /\ longer \in Seq(Name) /\ Len(longer) = m + 1
      /\ \A k \in 1 .. m : longer[k] = names[k] /\ names[k] \in Name
      /\ longer[m + 1] = name
  BY AppendProperties, LenProperties, ElementOfSeq
<1>4. /\ name \in Seq(Char) /\ l \in Nat /\ l > 0 /\ \A i \in 1 .. l : name[i] # Mark
      /\ Mark \in Char /\ <<Mark>> \in Seq(Char)
      /\ \A k \in 1 .. m : Len(names[k]) \in Nat
  BY <1>3, CodesAreChars
<1> HIDE DEF a, r, m, longer
<1>5. /\ b.len \in Nat /\ b.str[b.len] = NUL /\ r.str[r.len] = NUL
  BY <1>2, StringsAreStrings, Fields DEF IsString, StringIn
<1>6. /\ a.len = b.len + l /\ r.len = b.len + l + 1
      /\ \A i \in 0 .. b.len - 1 : r.str[i] = b.str[i]
      /\ \A j \in 1 .. l : r.str[b.len + j - 1] = name[j]
      /\ r.str[b.len + l] = Mark
  <2>1. /\ a.len = b.len + l /\ \A i \in 0 .. b.len - 1 : a.str[i] = b.str[i]
        /\ \A j \in 1 .. l : a.str[b.len + j - 1] = name[j]
    BY <1>1 DEF Longer
  <2>2. /\ r.len = a.len + 1 /\ \A i \in 0 .. a.len - 1 : r.str[i] = a.str[i]
        /\ r.str[a.len] = Mark
    <3>1. /\ r.len = a.len + Len(<<Mark>>) /\ \A i \in 0 .. a.len - 1 : r.str[i] = a.str[i]
          /\ \A i \in 1 .. Len(<<Mark>>) : r.str[a.len + i - 1] = <<Mark>>[i]
      BY <1>2 DEF Longer
    <3>2. Len(<<Mark>>) = 1 /\ <<Mark>>[1] = Mark /\ 1 \in 1 .. 1 /\ a.len + 1 - 1 = a.len
      BY <1>4, <1>5, <2>1
    <3> QED BY <3>1, <3>2
  <2>3. \A i \in 0 .. b.len - 1 : i \in 0 .. a.len - 1
    BY <1>4, <1>5, <2>1
  <2>4. \A j \in 1 .. l : b.len + j - 1 \in 0 .. a.len - 1
    BY <1>4, <1>5, <2>1
  <2> QED BY <1>4, <2>1, <2>2, <2>3, <2>4
<1>7. /\ IsFiniteSet(MarksIn(r)) /\ Cardinality(MarksIn(r)) = m + 1
  <2>1. MarksIn(r) = MarksIn(b) \cup {b.len + l}
    <3>1. ASSUME NEW i \in MarksIn(r), i # b.len + l PROVE i \in MarksIn(b)
      <4>1. i \in 0 .. b.len + l + 1 /\ r.str[i] = Mark /\ Mark # NUL
        BY <1>4, <1>6, <3>1 DEF MarksIn, Char
      <4>2. i # b.len + l + 1
        BY <1>5, <1>6, <4>1
      <4>3. ~(i >= b.len)
        <5> SUFFICES ASSUME i >= b.len PROVE FALSE
          OBVIOUS
        <5>1. i - b.len + 1 \in 1 .. l /\ b.len + (i - b.len + 1) - 1 = i
          <6>1. /\ b.len \in Nat /\ l \in Nat /\ i \in 0 .. b.len + l + 1
                /\ i # b.len + l /\ i # b.len + l + 1
            BY <1>4, <1>5, <3>1, <4>1, <4>2
          <6> HIDE DEF l
          <6>2. i \in Nat /\ i < b.len + l
            BY <6>1
          <6> QED BY <6>1, <6>2
        <5>2. name[i - b.len + 1] # Mark
          BY <1>4, <5>1
        <5>3. r.str[i] = name[i - b.len + 1]
          BY <1>6, <5>1
        <5> QED BY <4>1, <5>2, <5>3
      <4>4. i \in 0 .. b.len - 1
        BY <1>5, <4>1, <4>3
      <4>5. i \in 0 .. b.len /\ b.str[i] = Mark
        BY <1>5, <1>6, <4>1, <4>4
      <4> QED BY <4>5 DEF MarksIn
    <3>2. ASSUME NEW i \in MarksIn(b) PROVE i \in MarksIn(r)
      <4>1. i \in 0 .. b.len /\ b.str[i] = Mark /\ i # b.len
        BY <1>4, <1>5 DEF MarksIn, Char
      <4>2. i \in 0 .. b.len - 1 /\ i \in 0 .. r.len
        BY <1>4, <1>5, <1>6, <4>1
      <4>3. r.str[i] = Mark
        BY <1>6, <4>1, <4>2
      <4> QED BY <4>2, <4>3 DEF MarksIn
    <3>3. b.len + l \in MarksIn(r)
      <4>1. b.len + l \in 0 .. r.len
        BY <1>4, <1>5, <1>6
      <4> QED BY <1>6, <4>1 DEF MarksIn
    <3> QED BY <3>1, <3>2, <3>3
  <2>2. b.len + l \notin MarksIn(b)
    BY <1>4, <1>5 DEF MarksIn
  <2>3. IsFiniteSet(MarksIn(b)) /\ Cardinality(MarksIn(b)) = m
    BY DEF PackedNames, m
  <2>4. /\ IsFiniteSet(MarksIn(b) \cup {b.len + l})
        /\ Cardinality(MarksIn(b) \cup {b.len + l}) = Cardinality(MarksIn(b)) + 1
    BY <2>2, <2>3, FS_AddElement
  <2> QED BY <2>1, <2>3, <2>4
<1>8. PICK starts : Begins(b, names, starts)
  BY DEF PackedNames
<1>9. /\ starts \in [1 .. m + 1 -> Nat] /\ starts[1] = 0 /\ starts[m + 1] = b.len
      /\ \A k \in 1 .. m : Segment(b, starts[k], names[k]) /\ starts[k + 1] = starts[k] + Len(names[k]) + 1
  BY <1>8 DEF Begins, m
<1> DEFINE ends == [k \in 1 .. m + 2 |-> IF k = m + 2 THEN b.len + l + 1 ELSE starts[k]]
<1>10. Begins(r, longer, ends)
  <2>1. ends \in [1 .. Len(longer) + 1 -> Nat]
    <3>1. Len(longer) + 1 = m + 2 /\ b.len + l + 1 \in Nat
      BY <1>3, <1>4, <1>5
    <3>2. \A k \in 1 .. m + 2 : k # m + 2 => k \in 1 .. m + 1
      BY <1>3
    <3> QED BY <1>9, <3>1, <3>2
  <2>2. ends[1] = 0 /\ ends[Len(longer) + 1] = r.len
    BY <1>3, <1>4, <1>5, <1>6, <1>9
  <2>3. ASSUME NEW k \in 1 .. Len(longer)
        PROVE  Segment(r, ends[k], longer[k]) /\ ends[k + 1] = ends[k] + Len(longer[k]) + 1
    <3>1. CASE k = m + 1
      <4>1. ends[k] = b.len /\ ends[k + 1] = b.len + l + 1 /\ longer[k] = name
        BY <1>3, <1>9, <3>1
      <4>2. Segment(r, b.len, name)
        <5>1. b.len + l < r.len
          BY <1>4, <1>5, <1>6
        <5> QED BY <1>5, <1>6, <5>1 DEF Segment
      <4> HIDE DEF ends
      <4> QED BY <4>1, <4>2
    <3>2. CASE k # m + 1
      <4>1. k \in 1 .. m /\ k \in 1 .. m + 2 /\ k + 1 \in 1 .. m + 2 /\ k # m + 2 /\ k + 1 # m + 2
        BY <1>3, <3>2
      <4>2. ends[k] = starts[k] /\ ends[k + 1] = starts[k + 1] /\ longer[k] = names[k]
        BY <1>3, <4>1
      <4>3. Segment(a, starts[k], names[k])
        BY <1>1, <1>4, <1>9, <4>1, SegmentStays
      <4>4. Segment(r, starts[k], names[k])
        BY <1>1, <1>2, <1>4, <4>1, <4>3, SegmentStays
      <4> HIDE DEF ends
      <4> QED BY <1>9, <4>1, <4>2, <4>4
    <3> QED BY <3>1, <3>2
  <2> HIDE DEF ends
  <2> QED BY <2>1, <2>2, <2>3 DEF Begins
<1>11. PackedNames(r, longer)
  BY <1>3, <1>7, <1>10 DEF PackedNames
<1> QED BY <1>2, <1>11 DEF r, a, longer

LEMMA NothingPacked ==
    /\ buffer_init(BUFFER_INIT_SIZE) \in Strings
    /\ PackedTypes(buffer_init(BUFFER_INIT_SIZE), << >>)
    /\ PackedNames(buffer_init(BUFFER_INIT_SIZE), << >>)
<1> DEFINE b == buffer_init(BUFFER_INIT_SIZE)
<1>1. IsString(b) /\ b.len = 0
  BY SizeAssumption, InitHoldsNothing
<1>2. b \in Strings /\ b.str[0] = NUL
  BY <1>1, StringsAreStrings DEF IsString, StringIn
<1> HIDE DEF b
<1>3. MarksIn(b) = {}
  BY <1>1, <1>2, CodesAreChars DEF MarksIn, Char
<1> DEFINE starts == [k \in 1 .. 1 |-> 0]
<1>4. Begins(b, << >>, starts)
  BY <1>1 DEF Begins
<1> QED BY <1>1, <1>2, <1>3, <1>4, FS_EmptySet DEF PackedTypes, PackedNames, b
-----------------------------------------------------------------------------
(* What the accessors read in an item                                      *)

LEMMA MinIs ==
    ASSUME NEW S, S \subseteq Int, NEW x \in S, \A y \in S : x <= y
    PROVE  Min(S) = x
<1> DEFINE Least(y) == y \in S /\ \A z \in S : y <= z
<1>1. Least(x) /\ \A y : Least(y) => y = x
  <2>1. ASSUME NEW y, Least(y) PROVE y = x
    <3>1. y \in Int /\ x \in Int /\ x <= y /\ y <= x
      BY <2>1
    <3> QED BY <3>1
  <2> QED BY <2>1
<1>2. Min(S) = CHOOSE y : Least(y)
  BY DEF Min
<1>3. Least(CHOOSE y : Least(y))
  BY <1>1
<1> QED BY <1>1, <1>2, <1>3

LEMMA TypesReadBack ==
    ASSUME NEW item \in Items, NEW d \in Signatures, Signed(item, d), NEW i \in 1 .. item.params_num
    PROVE  func_get_param(item, i) = d.types[i]
<1> DEFINE t == d.types[i]
           Fits(u) == u \in DOMAIN TypeChar /\ TypeChar[u] = TypeChar[t]
<1>1. /\ item.params_num \in Nat /\ item.params_num = Len(d.types) /\ d.types \in Seq(Type)
      /\ item.param_types.str[i - 1] = TypeChar[t]
  BY DEF Items, Signatures, Signed, PackedTypes
<1>2. t \in Type
  BY <1>1, ElementOfSeq
<1> HIDE DEF t
<1>3. Fits(t) /\ \A u : Fits(u) => u = t
  BY <1>2, CodesAreChars, CodeAssumption
<1>4. func_get_param(item, i) = CHOOSE u : Fits(u)
  <2>1. ~(i > item.params_num)
    BY <1>1
  <2> QED BY <1>1, <2>1 DEF func_get_param
<1>5. Fits(CHOOSE u : Fits(u))
  BY <1>3
<1> QED BY <1>3, <1>4, <1>5 DEF t

LEMMA NextNameIs ==
    ASSUME NEW item \in Items, NEW d \in Signatures, Signed(item, d)
    PROVE  func_get_param_idx(item) = Len(d.names) + 1
<1>1. /\ Cardinality(Marks(item)) = Len(d.names) /\ Len(d.names) <= item.params_num
      /\ item.params_num \in Nat /\ Len(d.names) \in Nat
  <2>1. Marks(item) = MarksIn(item.param_names)
    BY DEF Marks, MarksIn
  <2>2. Len(d.names) \in Nat
    BY LenProperties DEF Signatures
  <2> QED BY <2>1, <2>2 DEF Signed, PackedNames, Items
<1>2. Min({Cardinality(Marks(item)), item.params_num}) = Len(d.names)
  <2> DEFINE S == {Cardinality(Marks(item)), item.params_num}
  <2>1. S \subseteq Int /\ Len(d.names) \in S /\ \A y \in S : Len(d.names) <= y
    BY <1>1
  <2> HIDE DEF S
  <2>2. Min(S) = Len(d.names)
    BY <2>1, MinIs
  <2> QED BY <2>2 DEF S
<1> QED BY <1>2 DEF func_get_param_idx

\* A name ends at the first mark behind its beginning.
LEMMA NameEndIs ==
    ASSUME NEW item \in Items, NEW from, NEW name \in Name, Segment(item.param_names, from, name),
           NEW i \in Nat, from <= i, i <= from + Len(name)
    PROVE  NameEnd(item, i) = from + Len(name)
<1> DEFINE b == item.param_names
           e == from + Len(name)
           S == {j \in DOMAIN b.str : j >= i /\ b.str[j] = Mark}
<1>1. /\ b.len \in Nat /\ b.buffer_size \in Nat /\ b.len < b.buffer_size
      /\ DOMAIN b.str = 0 .. b.buffer_size - 1
  BY StringsAreStrings, Fields DEF Items, IsString, StringIn
<1>2. Len(name) \in Nat /\ \A j \in 1 .. Len(name) : name[j] # Mark
  BY CodesAreChars
<1>3. /\ from \in Nat /\ e < b.len /\ b.str[e] = Mark
      /\ \A j \in 1 .. Len(name) : b.str[from + j - 1] = name[j]
  BY DEF Segment
<1> HIDE DEF b
<1>4. e \in S
  <2>1. e \in 0 .. b.buffer_size - 1 /\ e >= i
    BY <1>1, <1>2, <1>3
  <2> QED BY <1>1, <1>3, <2>1
<1>5. ASSUME NEW j \in S PROVE e <= j
  <2> SUFFICES ASSUME ~(e <= j) PROVE FALSE
    OBVIOUS
  <2>1. j \in Int /\ j >= i /\ b.str[j] = Mark
    BY <1>1
  <2>2. j - from + 1 \in 1 .. Len(name) /\ from + (j - from + 1) - 1 = j
    BY <1>2, <1>3, <2>1
  <2> QED BY <1>2, <1>3, <2>1, <2>2
<1>6. S \subseteq Int
  BY <1>1
<1>7. NameEnd(item, i) = Min(S)
  BY DEF NameEnd, b
<1> HIDE DEF S, e
<1>8. Min(S) = e
  BY <1>4, <1>5, <1>6, MinIs
<1> QED BY <1>7, <1>8 DEF e

LEMMA NamesReadBack ==
    ASSUME NEW item \in Items, NEW d \in Signatures, Signed(item, d), NEW idx \in 1 .. Len(d.names)
    PROVE  func_get_param_name(item, idx) = d.names[idx]
<1> DEFINE b == item.param_names
           m == Len(d.names)
           Defines(g) == g = [k \in 1 .. idx |-> IF k = 1 THEN 0 ELSE NameEnd(item, g[k - 1] + 1) + 1]
           h == CHOOSE g : Defines(g)
<1>1. PICK starts : Begins(b, d.names, starts)
  BY DEF Signed, PackedNames
<1>2. /\ m \in Nat /\ \A k \in 1 .. m : d.names[k] \in Name /\ Len(d.names[k]) \in Nat \ {0}
  BY LenProperties, ElementOfSeq, CodesAreChars DEF Signatures
<1>3. /\ starts \in [1 .. m + 1 -> Nat] /\ starts[1] = 0
      /\ \A k \in 1 .. m : /\ Segment(b, starts[k], d.names[k])
                           /\ starts[k + 1] = starts[k] + Len(d.names[k]) + 1
  BY <1>1 DEF Begins
<1>4. ASSUME NEW k \in 1 .. m, NEW i \in Nat, starts[k] <= i, i <= starts[k] + Len(d.names[k])
      PROVE  NameEnd(item, i) = starts[k] + Len(d.names[k])
  BY <1>2, <1>3, <1>4, NameEndIs
<1> HIDE DEF b, m
<1>5. ASSUME NEW k \in 2 .. idx
      PROVE  NameEnd(item, starts[k - 1] + 1) + 1 = starts[k]
  <2>1. k - 1 \in 1 .. m /\ (k - 1) + 1 = k
    BY <1>2 DEF m
  <2>2. /\ starts[k - 1] \in Nat /\ Len(d.names[k - 1]) \in Nat \ {0}
        /\ starts[k] = starts[k - 1] + Len(d.names[k - 1]) + 1
    <3>1. k - 1 \in 1 .. m + 1
      BY <1>2, <2>1
    <3> QED BY <1>2, <1>3, <2>1, <3>1
  <2>3. NameEnd(item, starts[k - 1] + 1) = starts[k - 1] + Len(d.names[k - 1])
    <3>1. /\ starts[k - 1] + 1 \in Nat /\ starts[k - 1] <= starts[k - 1] + 1
          /\ starts[k - 1] + 1 <= starts[k - 1] + Len(d.names[k - 1])
      BY <2>2
    <3> QED BY <1>4, <2>1, <3>1
  <2> QED BY <2>2, <2>3
<1>6. Defines([k \in 1 .. idx |-> starts[k]])
  <2> DEFINE g == [k \in 1 .. idx |-> starts[k]]
  <2>1. ASSUME NEW k \in 1 .. idx
        PROVE  starts[k] = IF k = 1 THEN 0 ELSE NameEnd(item, g[k - 1] + 1) + 1
    <3>1. CASE k = 1
      BY <1>3, <3>1
    <3>2. CASE k # 1
      <4>1. k \in 2 .. idx /\ k - 1 \in 1 .. idx
        BY <3>2
      <4>2. g[k - 1] = starts[k - 1]
        BY <4>1
      <4> HIDE DEF g
      <4> QED BY <1>5, <3>2, <4>1, <4>2
    <3> QED BY <3>1, <3>2
  <2> QED BY <2>1
<1>7. Defines(h)
  BY <1>6
<1> HIDE DEF h
<1>8. \A k \in 1 .. idx : h[k] = starts[k]
  <2> DEFINE S == {n \in Nat : n + 1 <= idx => h[n + 1] = starts[n + 1]}
  <2>0. \A k \in 1 .. idx : h[k] = IF k = 1 THEN 0 ELSE NameEnd(item, h[k - 1] + 1) + 1
    BY <1>7
  <2> HIDE DEF Defines
  <2>1. 0 \in S
    <3>1. 1 \in 1 .. idx
      OBVIOUS
    <3> QED BY <1>3, <2>0, <3>1
  <2>2. ASSUME NEW n \in Nat, n \in S PROVE n + 1 \in S
    <3> SUFFICES ASSUME (n + 1) + 1 <= idx PROVE h[(n + 1) + 1] = starts[(n + 1) + 1]
      OBVIOUS
    <3> DEFINE k == (n + 1) + 1
    <3>1. k \in 2 .. idx /\ k \in 1 .. idx /\ k # 1 /\ k - 1 = n + 1 /\ n + 1 <= idx
      OBVIOUS
    <3>2. h[n + 1] = starts[n + 1]
      BY <2>2, <3>1
    <3> HIDE DEF k
    <3>3. h[k] = NameEnd(item, h[k - 1] + 1) + 1
      BY <2>0, <3>1
    <3>4. h[k] = starts[k]
      BY <1>5, <3>1, <3>2, <3>3
    <3> QED BY <3>4 DEF k
  <2> HIDE DEF S
  <2>3. Nat \subseteq S
    BY <2>1, <2>2, Induction
  <2>4. ASSUME NEW k \in 1 .. idx PROVE h[k] = starts[k]
    <3>1. k - 1 \in Nat /\ (k - 1) + 1 = k /\ (k - 1) + 1 <= idx
      OBVIOUS
    <3>2. k - 1 \in S
      BY <2>3, <3>1
    <3>3. h[(k - 1) + 1] = starts[(k - 1) + 1]
      BY <3>1, <3>2 DEF S
    <3> QED BY <3>1, <3>3
  <2> QED BY <2>4
<1> DEFINE from == starts[idx]
           name == d.names[idx]
<1>9. func_get_param_name(item, idx)
      = [i \in 1 .. NameEnd(item, h[idx]) - h[idx] |-> b.str[h[idx] + i - 1]]
  BY DEF func_get_param_name, h, b
<1>10. /\ h[idx] = from /\ from \in Nat /\ NameEnd(item, from) = from + Len(name)
       /\ Len(name) \in Nat /\ Segment(b, from, name) /\ name \in Name
  <2>1. idx \in 1 .. m /\ idx \in 1 .. m + 1 /\ idx \in 1 .. idx
    BY <1>2 DEF m
  <2>2. h[idx] = from /\ from \in Nat /\ Len(name) \in Nat /\ Segment(b, from, name) /\ name \in Name
    BY <1>2, <1>3, <1>8, <2>1
  <2>3. from <= from /\ from <= from + Len(name)
    BY <2>2
  <2> QED BY <1>4, <2>1, <2>2, <2>3
<1> HIDE DEF from, name
<1>11. func_get_param_name(item, idx) = [i \in 1 .. Len(name) |-> name[i]]
  <2>1. NameEnd(item, h[idx]) - h[idx] = Len(name)
    BY <1>10
  <2>2. \A i \in 1 .. Len(name) : b.str[from + i - 1] = name[i]
    BY <1>10 DEF Segment
  <2>3. [i \in 1 .. Len(name) |-> b.str[from + i - 1]] = [i \in 1 .. Len(name) |-> name[i]]
    BY <2>2
  <2>4. func_get_param_name(item, idx) = [i \in 1 .. Len(name) |-> b.str[from + i - 1]]
    BY <1>9, <1>10, <2>1
  <2> QED BY <2>3, <2>4
<1>12. name = [i \in 1 .. Len(name) |-> name[i]]
  BY <1>10, CodesAreChars, LenProperties
<1> QED BY <1>11, <1>12 DEF name
-----------------------------------------------------------------------------
(* The hash is a number, so that there is a chain for every key.           *)

LEMMA Remainder ==
    ASSUME NEW x \in Nat, NEW y \in Nat \ {0}
    PROVE  x % y \in 0 .. y - 1
BY SMTT(30)

LEMMA EveryKeyHasABucket ==
    ASSUME NEW key \in Key
    PROVE  Bucket(key) \in Buckets
<1> DEFINE M == ULONG_MAX + 1
           n == Len(key)
           x == 5381 % M
           Step(y, c) == (y * 33 + c) % M
           G == [k \in 1 .. n |-> [y \in Nat |-> Step(y, key[k])]]
           Defines(g) == g = [i \in 0 .. n |-> IF i = 0 THEN x ELSE Step(g[i - 1], key[i])]
           h == CHOOSE g : Defines(g)
<1>1. M \in Nat \ {0} /\ \A y \in Nat : y % M \in Nat
  <2>1. M \in Nat \ {0}
    BY SizeAssumption
  <2> HIDE DEF M
  <2> QED BY <2>1, Remainder
<1>2. n \in Nat /\ \A k \in 1 .. n : key[k] \in Nat
  <2>1. key \in Seq(1 .. 127)
    BY NameAssumption
  <2>2. \A S : key \in Seq(S) => n \in Nat /\ \A k \in 1 .. n : key[k] \in S
    BY LenProperties, ElementOfSeq
  <2>3. n \in Nat /\ \A k \in 1 .. n : key[k] \in 1 .. 127
    BY <2>1, <2>2
  <2>4. \A c \in 1 .. 127 : c \in Nat
    OBVIOUS
  <2> HIDE DEF n
  <2> QED BY <2>3, <2>4
<1>3. x \in Nat /\ \A k \in 1 .. n : \A y \in Nat : Step(y, key[k]) \in Nat
  <2>1. \A k \in 1 .. n : \A y \in Nat : y * 33 + key[k] \in Nat
    BY <1>2
  <2> HIDE DEF M
  <2> QED BY <1>1, <2>1
<1> HIDE DEF M, n, x, Step
<1>4. \A k \in 1 .. n : \A y \in Nat : G[k][y] \in Nat /\ G[k][y] = Step(y, key[k])
  BY <1>3
<1> HIDE DEF G
<1>5. PICK f : Follows(f, Nat, x, n, G)
  BY <1>2, <1>3, <1>4, FollowerExists
<1>6. Defines(f)
  <2>1. f = [i \in 0 .. n |-> f[i]] /\ f[0] = x
    BY <1>5 DEF Follows
  <2>2. ASSUME NEW i \in 0 .. n, i # 0 PROVE f[i] = Step(f[i - 1], key[i])
    <3>1. i \in 1 .. n /\ i - 1 \in 0 .. n
      BY <1>2, <2>2
    <3>2. f[i - 1] \in Nat /\ f[i] = G[i][f[i - 1]]
      BY <1>5, <3>1 DEF Follows
    <3> QED BY <1>4, <3>1, <3>2
  <2>3. \A i \in 0 .. n : f[i] = IF i = 0 THEN x ELSE Step(f[i - 1], key[i])
    BY <2>1, <2>2
  <2> QED BY <2>1, <2>3
<1>7. Defines(h)
  BY <1>6
<1>8. hash_func(key) = h[n]
  BY DEF hash_func, h, n, M, x, Step
<1> HIDE DEF h
<1>9. \A i \in 0 .. n : h[i] = IF i = 0 THEN x ELSE Step(h[i - 1], key[i])
  BY <1>7
<1> HIDE DEF Defines
<1>10. h[n] \in Nat
  <2> DEFINE S == {i \in Nat : i <= n => h[i] \in Nat}
  <2>1. 0 \in S
    BY <1>2, <1>3, <1>9
  <2>2. ASSUME NEW i \in Nat, i \in S PROVE i + 1 \in S
    <3> SUFFICES ASSUME i + 1 <= n PROVE h[i + 1] \in Nat
      OBVIOUS
    <3>1. i + 1 \in 0 .. n /\ i + 1 \in 1 .. n /\ i + 1 # 0 /\ (i + 1) - 1 = i /\ h[i] \in Nat
      BY <1>2, <2>2
    <3>2. h[i + 1] = Step(h[i], key[i + 1])
      BY <1>9, <3>1
    <3> QED BY <1>3, <3>1, <3>2
  <2> HIDE DEF S
  <2>3. n \in S
    BY <1>2, <2>1, <2>2, Induction
  <2> QED BY <1>2, <2>3 DEF S
<1>11. h[n] % BucketCount \in 0 .. BucketCount - 1
  BY <1>10, SizeAssumption, Remainder
<1> QED BY <1>8, <1>11 DEF Bucket, Buckets
-----------------------------------------------------------------------------
(* The inductive invariant                                                 *)

Chains == ptr \in [Buckets -> Seq(Items)]

\* Every item holds what was declared of its key, and every key has one.
Matches ==
    /\ DOMAIN declared \subseteq Key
    /\ \A key \in DOMAIN declared : /\ declared[key] \in Signatures
                                    /\ Places(key) # {}
    /\ \A b \in Buckets : \A i \in DOMAIN ptr[b] :
         /\ ptr[b][i].key \in DOMAIN declared
         /\ Signed(ptr[b][i], declared[ptr[b][i].key])

IInv == ptr # << >> => Chains /\ KeysInTheirChainOnce /\ Matches

\* A table in which there is a key, and where it is
At(key, i) ==
    /\ ptr # << >> /\ Bucket(key) \in Buckets
    /\ i \in 1 .. Len(ptr[Bucket(key)]) /\ ptr[Bucket(key)][i].key = key
    /\ Places(key) = {i} /\ Min(Places(key)) = i
    /\ htab_find(key) = ptr[Bucket(key)][i]
    /\ htab_find(key) \in Items
    /\ key \in DOMAIN declared /\ declared[key] \in Signatures
    /\ Signed(htab_find(key), declared[key])

LEMMA FoundAt ==
    ASSUME IInv, NEW key \in Key, Found(key)
    PROVE  \E i : At(key, i)
<1> DEFINE b == Bucket(key)
<1>1. ptr # << >> /\ Chains /\ KeysInTheirChainOnce /\ Matches /\ Places(key) # {}
  BY DEF Found, IInv
<1>2. b \in Buckets
  BY EveryKeyHasABucket
<1>3. ptr[b] \in Seq(Items) /\ DOMAIN ptr[b] = 1 .. Len(ptr[b]) /\ Len(ptr[b]) \in Nat
  BY <1>1, <1>2, LenProperties DEF Chains
<1>4. PICK i \in Places(key) : TRUE
  BY <1>1
<1>5. i \in 1 .. Len(ptr[b]) /\ ptr[b][i].key = key
  BY <1>3, <1>4 DEF Places, HasKey
<1>6. Places(key) = {i}
  <2>1. \A j \in Places(key) : j \in DOMAIN ptr[b] /\ ptr[b][j].key = key
    BY DEF Places, HasKey
  <2>2. \A j, k \in DOMAIN ptr[b] : ptr[b][j].key = ptr[b][k].key => j = k
    BY <1>1, <1>2 DEF KeysInTheirChainOnce
  <2>3. \A j \in Places(key) : j = i
    BY <1>4, <2>1, <2>2
  <2> QED BY <1>4, <2>3
<1>7. Min(Places(key)) = i
  <2>1. Places(key) \subseteq Int /\ \A j \in Places(key) : i <= j
    BY <1>3, <1>5, <1>6
  <2> QED BY <1>4, <2>1, MinIs
<1>8. htab_find(key) = ptr[b][i] /\ ptr[b][i] \in Items
  BY <1>3, <1>5, <1>7, ElementOfSeq DEF htab_find
<1>9. /\ key \in DOMAIN declared /\ declared[key] \in Signatures
      /\ Signed(ptr[b][i], declared[key])
  BY <1>1, <1>2, <1>3, <1>5 DEF Matches
<1> QED BY <1>1, <1>2, <1>5, <1>6, <1>7, <1>8, <1>9 DEF At

(* An item is changed, and what was declared of its function with it.      *)
LEMMA UpdateKeeps ==
    ASSUME IInv, NEW key \in Key, NEW i, At(key, i),
           NEW item \in Items, item.key = key, NEW d \in Signatures, Signed(item, d),
           Update(key, item), declared' = [declared EXCEPT ![key] = d]
    PROVE  IInv'
<1> DEFINE b == Bucket(key)
<1>1. /\ ptr # << >> /\ Chains /\ KeysInTheirChainOnce /\ Matches
      /\ b \in Buckets /\ i \in 1 .. Len(ptr[b]) /\ ptr[b][i].key = key
  BY DEF At, IInv
<1>2. ptr' = [ptr EXCEPT ![b] = [ptr[b] EXCEPT ![i] = item]]
  BY <1>1 DEF Update, At, Chains
<1>3. \A c \in Buckets : ptr[c] \in Seq(Items) /\ DOMAIN ptr[c] = 1 .. Len(ptr[c]) /\ Len(ptr[c]) \in Nat
  BY <1>1, LenProperties DEF Chains
<1>4. /\ [ptr[b] EXCEPT ![i] = item] \in Seq(Items)
      /\ DOMAIN [ptr[b] EXCEPT ![i] = item] = DOMAIN ptr[b]
  BY <1>1, <1>3, ExceptSeq
<1>5. ptr' \in [Buckets -> Seq(Items)]
  BY <1>1, <1>2, <1>4 DEF Chains
<1>6. \A c \in Buckets : /\ DOMAIN ptr'[c] = DOMAIN ptr[c]
                         /\ \A j \in DOMAIN ptr[c] :
                              /\ ptr'[c][j] = IF c = b /\ j = i THEN item ELSE ptr[c][j]
                              /\ ptr'[c][j].key = ptr[c][j].key
  BY <1>1, <1>2, <1>3, <1>4 DEF Chains
<1>7. KeysInTheirChainOnce'
  BY <1>1, <1>6 DEF KeysInTheirChainOnce
<1>8. Matches'
  <2>1. /\ DOMAIN declared' = DOMAIN declared
        /\ \A k \in DOMAIN declared : declared'[k] = IF k = key THEN d ELSE declared[k]
    OBVIOUS
  <2>2. \A k \in DOMAIN declared : Places(k)' # {}
    <3>1. \A k \in DOMAIN declared : k \in Key /\ Bucket(k) \in Buckets /\ Places(k) # {}
      BY <1>1, EveryKeyHasABucket DEF Matches
    <3> QED BY <1>6, <3>1 DEF Places, HasKey
  <2>3. ASSUME NEW c \in Buckets, NEW j \in DOMAIN ptr[c]
        PROVE  /\ ptr[c][j].key \in DOMAIN declared
               /\ Signed(ptr'[c][j], declared'[ptr[c][j].key])
    <3>1. ptr[c][j].key \in DOMAIN declared /\ Signed(ptr[c][j], declared[ptr[c][j].key])
      BY <1>1 DEF Matches
    <3>2. CASE c = b /\ j = i
      BY <1>1, <1>6, <2>1, <3>1, <3>2
    <3>3. CASE ~(c = b /\ j = i)
      <4>1. ptr[c][j].key # key
        BY <1>1, <1>3, <3>3 DEF KeysInTheirChainOnce
      <4> QED BY <1>6, <2>1, <3>1, <3>3, <4>1
    <3> QED BY <3>2, <3>3
  <2> QED BY <1>1, <1>6, <2>1, <2>2, <2>3 DEF Matches
<1> QED BY <1>5, <1>7, <1>8 DEF IInv, Chains
-----------------------------------------------------------------------------
(* The operations keep it.                                                 *)

LEMMA InsertKeeps ==
    ASSUME IInv, NEW key \in Key, htab_func_insert(key)
    PROVE  IInv'
<1> DEFINE b == Bucket(key)
           item == alloc_func_item(key)
           n == Len(ptr[b])
<1>1. /\ ptr # << >> /\ Chains /\ KeysInTheirChainOnce /\ Matches /\ Places(key) = {}
      /\ ptr' = [ptr EXCEPT ![b] = Append(ptr[b], item)]
      /\ declared' = [k \in DOMAIN declared \cup {key} |-> IF k = key THEN NoParams ELSE declared[k]]
  BY DEF htab_func_insert, IInv, IsNew, Found
<1>2. b \in Buckets
  BY EveryKeyHasABucket
<1>3. \A c \in Buckets : ptr[c] \in Seq(Items) /\ DOMAIN ptr[c] = 1 .. Len(ptr[c]) /\ Len(ptr[c]) \in Nat
  BY <1>1, LenProperties DEF Chains
<1>4. item \in Items /\ item.key = key
  BY NothingPacked DEF alloc_func_item, Items
<1>5. NoParams \in Signatures /\ Signed(item, NoParams)
  BY NothingPacked, EmptySeq DEF NoParams, alloc_func_item, Signatures, Signed
<1> HIDE DEF item
<1>6. /\ Append(ptr[b], item) \in Seq(Items) /\ DOMAIN Append(ptr[b], item) = 1 .. n + 1
      /\ \A j \in 1 .. n : Append(ptr[b], item)[j] = ptr[b][j]
      /\ Append(ptr[b], item)[n + 1] = item
  BY <1>2, <1>3, <1>4, AppendProperties, LenProperties
<1>7. /\ ptr' \in [Buckets -> Seq(Items)]
      /\ ptr'[b] = Append(ptr[b], item)
      /\ \A c \in Buckets \ {b} : ptr'[c] = ptr[c]
  BY <1>1, <1>2, <1>6 DEF Chains
<1>8. key \notin DOMAIN declared
  BY <1>1 DEF Matches
<1>9. /\ DOMAIN declared' = DOMAIN declared \cup {key}
      /\ declared'[key] = NoParams
      /\ \A k \in DOMAIN declared : declared'[k] = declared[k]
  BY <1>1, <1>8
<1>10. \A j \in DOMAIN ptr[b] : ptr[b][j].key # key
  BY <1>1 DEF Places, HasKey
<1>11. \A c \in Buckets : \A j \in DOMAIN ptr'[c] :
          \/ c = b /\ j = n + 1 /\ ptr'[c][j] = item
          \/ j \in DOMAIN ptr[c] /\ ptr'[c][j] = ptr[c][j] /\ (c = b => j # n + 1)
  <2>1. ASSUME NEW j \in 1 .. n + 1, j # n + 1 PROVE j \in 1 .. n
    BY <1>2, <1>3, <2>1
  <2>2. DOMAIN ptr[b] = 1 .. n /\ DOMAIN ptr'[b] = 1 .. n + 1 /\ n \in Nat
    BY <1>2, <1>3, <1>6, <1>7
  <2> HIDE DEF n
  <2>3. \A j \in DOMAIN ptr'[b] :
           \/ j = n + 1 /\ ptr'[b][j] = item
           \/ j \in DOMAIN ptr[b] /\ ptr'[b][j] = ptr[b][j] /\ j # n + 1
    BY <1>6, <1>7, <2>1, <2>2
  <2> QED BY <1>7, <2>3
<1>12. KeysInTheirChainOnce'
  <2>1. ASSUME NEW c \in Buckets, NEW j \in DOMAIN ptr'[c], NEW k \in DOMAIN ptr'[c]
        PROVE  /\ Bucket(ptr'[c][j].key) = c
               /\ ptr'[c][j].key = ptr'[c][k].key => j = k
    BY <1>1, <1>4, <1>10, <1>11 DEF KeysInTheirChainOnce
  <2> QED BY <2>1 DEF KeysInTheirChainOnce
<1>13. Matches'
  <2>1. \A c \in Buckets : \A j \in DOMAIN ptr'[c] :
           /\ ptr'[c][j].key \in DOMAIN declared'
           /\ Signed(ptr'[c][j], declared'[ptr'[c][j].key])
    BY <1>1, <1>4, <1>5, <1>8, <1>9, <1>11 DEF Matches
  <2>2. \A k \in DOMAIN declared' : declared'[k] \in Signatures
    BY <1>1, <1>5, <1>9 DEF Matches
  <2>3. Places(key)' # {}
    <3>1. n + 1 \in DOMAIN ptr'[b] /\ ptr'[b][n + 1].key = key
      BY <1>2, <1>3, <1>4, <1>6, <1>7
    <3> QED BY <3>1 DEF Places, HasKey
  <2>4. ASSUME NEW k \in DOMAIN declared PROVE Places(k)' # {}
    <3>1. k \in Key /\ Bucket(k) \in Buckets /\ Places(k) # {}
      BY <1>1, EveryKeyHasABucket DEF Matches
    <3>2. PICK j \in DOMAIN ptr[Bucket(k)] : ptr[Bucket(k)][j].key = k
      BY <3>1 DEF Places, HasKey
    <3>3. j \in DOMAIN ptr'[Bucket(k)] /\ ptr'[Bucket(k)][j].key = k
      <4>1. CASE Bucket(k) = b
        <5>1. j \in 1 .. n /\ j \in 1 .. n + 1
          BY <1>2, <1>3, <3>2, <4>1
        <5> HIDE DEF n
        <5> QED BY <1>6, <1>7, <3>2, <4>1, <5>1
      <4>2. CASE Bucket(k) # b
        BY <1>7, <3>1, <3>2, <4>2
      <4> QED BY <4>1, <4>2
    <3> QED BY <3>3 DEF Places, HasKey
  <2> QED BY <1>1, <1>9, <2>1, <2>2, <2>3, <2>4 DEF Matches
<1> QED BY <1>7, <1>12, <1>13 DEF IInv, Chains

LEMMA RemoveKeeps ==
    ASSUME IInv, NEW key \in Key, htab_func_remove(key)
    PROVE  IInv'
<1> DEFINE b == Bucket(key)
           n == Len(ptr[b])
<1>1. PICK i : At(key, i)
  BY FoundAt DEF htab_func_remove
<1>2. /\ ptr # << >> /\ Chains /\ KeysInTheirChainOnce /\ Matches
      /\ b \in Buckets /\ i \in 1 .. n /\ ptr[b][i].key = key
  BY <1>1 DEF At, IInv
<1>3. ptr' = [ptr EXCEPT ![b] = RemoveAt(ptr[b], i)] /\ declared' = Forgotten(key)
  BY <1>1 DEF At, htab_func_remove
<1>4. \A c \in Buckets : ptr[c] \in Seq(Items) /\ DOMAIN ptr[c] = 1 .. Len(ptr[c]) /\ Len(ptr[c]) \in Nat
  BY <1>2, LenProperties DEF Chains
<1> DEFINE t == RemoveAt(ptr[b], i)
<1>5. /\ t \in Seq(Items) /\ DOMAIN t = 1 .. n - 1
      /\ \A j \in 1 .. n - 1 : t[j] = IF j < i THEN ptr[b][j] ELSE ptr[b][j + 1]
  <2>1. RemovedAt(Items, ptr[b], i, t)
    BY <1>2, <1>4, RemoveAtProperties
  <2> QED BY <2>1, LenProperties DEF RemovedAt
<1> HIDE DEF t
<1>6. /\ ptr' \in [Buckets -> Seq(Items)]
      /\ ptr'[b] = t /\ \A c \in Buckets \ {b} : ptr'[c] = ptr[c]
  BY <1>2, <1>3, <1>5 DEF Chains, t
<1>7. /\ DOMAIN declared' = DOMAIN declared \ {key}
      /\ \A k \in DOMAIN declared \ {key} : declared'[k] = declared[k]
  BY <1>3 DEF Forgotten
\* Where an item was before
<1> DEFINE Was(c, j) == IF c = b /\ ~(j < i) THEN j + 1 ELSE j
<1>8. ASSUME NEW c \in Buckets, NEW j \in DOMAIN ptr'[c]
      PROVE  /\ j \in Nat /\ Was(c, j) \in DOMAIN ptr[c] /\ ptr'[c][j] = ptr[c][Was(c, j)]
             /\ c = b => Was(c, j) # i
  <2>1. CASE c = b
    BY <1>2, <1>4, <1>5, <1>6, <2>1
  <2>2. CASE c # b
    BY <1>4, <1>6, <2>2
  <2> QED BY <2>1, <2>2
<1>9. ASSUME NEW c \in Buckets, NEW j \in DOMAIN ptr'[c], NEW k \in DOMAIN ptr'[c], Was(c, j) = Was(c, k)
      PROVE  j = k
  BY <1>2, <1>8, <1>9
<1>10. ASSUME NEW c \in Buckets, NEW j \in DOMAIN ptr[c], c = b => j # i
       PROVE  \E k \in DOMAIN ptr'[c] : Was(c, k) = j
  <2>1. CASE c # b
    BY <1>6, <2>1
  <2>2. CASE c = b /\ j < i
    <3>1. j \in DOMAIN ptr'[c]
      BY <1>2, <1>4, <1>5, <1>6, <2>2
    <3> QED BY <2>2, <3>1
  <2>3. CASE c = b /\ j > i
    <3>1. j - 1 \in DOMAIN ptr'[c] /\ ~(j - 1 < i) /\ (j - 1) + 1 = j
      BY <1>2, <1>4, <1>5, <1>6, <2>3
    <3> QED BY <2>3, <3>1
  <2> QED BY <1>2, <1>4, <1>10, <2>1, <2>2, <2>3
<1> HIDE DEF Was
<1>11. KeysInTheirChainOnce'
  <2>1. ASSUME NEW c \in Buckets, NEW j \in DOMAIN ptr'[c], NEW k \in DOMAIN ptr'[c]
        PROVE  /\ Bucket(ptr'[c][j].key) = c
               /\ ptr'[c][j].key = ptr'[c][k].key => j = k
    BY <1>2, <1>8, <1>9 DEF KeysInTheirChainOnce
  <2> QED BY <2>1 DEF KeysInTheirChainOnce
<1>12. Matches'
  <2>1. ASSUME NEW c \in Buckets, NEW j \in DOMAIN ptr'[c]
        PROVE  /\ ptr'[c][j].key \in DOMAIN declared'
               /\ Signed(ptr'[c][j], declared'[ptr'[c][j].key])
    <3>1. /\ Was(c, j) \in DOMAIN ptr[c] /\ ptr'[c][j] = ptr[c][Was(c, j)]
          /\ c = b => Was(c, j) # i
      BY <1>8
    <3>2. ptr[c][Was(c, j)].key # key
      BY <1>2, <1>4, <3>1 DEF KeysInTheirChainOnce
    <3> QED BY <1>2, <1>7, <3>1, <3>2 DEF Matches
  <2>2. ASSUME NEW k \in DOMAIN declared, k # key PROVE Places(k)' # {}
    <3>1. k \in Key /\ Bucket(k) \in Buckets /\ Places(k) # {}
      BY <1>2, EveryKeyHasABucket DEF Matches
    <3>2. PICK j \in DOMAIN ptr[Bucket(k)] : ptr[Bucket(k)][j].key = k
      BY <3>1 DEF Places, HasKey
    <3>3. Bucket(k) = b => j # i
      BY <1>2, <2>2, <3>2
    <3>4. PICK q \in DOMAIN ptr'[Bucket(k)] : Was(Bucket(k), q) = j
      BY <1>10, <3>1, <3>2, <3>3
    <3>5. ptr'[Bucket(k)][q].key = k
      BY <1>8, <3>1, <3>2, <3>4
    <3> QED BY <3>4, <3>5 DEF Places, HasKey
  <2> QED BY <1>2, <1>7, <2>1, <2>2 DEF Matches
<1> QED BY <1>6, <1>11, <1>12 DEF IInv, Chains

LEMMA AddParamKeeps ==
    ASSUME IInv, NEW key \in Key, NEW type \in Type, func_add_param(key, type)
    PROVE  IInv'
<1> DEFINE old == htab_find(key)
           item == WithParam(old, type)
           d == [declared[key] EXCEPT !.types = Append(@, type)]
           types == buffer_append_c(old.param_types, TypeChar[type])
<1>1. PICK i : At(key, i)
  BY FoundAt DEF func_add_param
<1>2. /\ old \in Items /\ declared[key] \in Signatures /\ Signed(old, declared[key])
      /\ old.key = key
  BY <1>1 DEF At
<1>3. Update(key, item) /\ declared' = [declared EXCEPT ![key] = d]
  BY DEF func_add_param
<1>4. /\ old.param_types \in Strings /\ declared[key].types \in Seq(Type)
      /\ PackedTypes(old.param_types, declared[key].types)
  BY <1>2 DEF Items, Signatures, Signed
<1>5. /\ types \in Strings /\ PackedTypes(types, Append(declared[key].types, type))
  BY <1>4, PackAType
<1>6. /\ Append(declared[key].types, type) \in Seq(Type)
      /\ Len(Append(declared[key].types, type)) = Len(declared[key].types) + 1
      /\ Len(declared[key].types) \in Nat /\ Len(declared[key].names) \in Nat
  BY <1>2, <1>4, AppendProperties, LenProperties DEF Signatures
<1> HIDE DEF types
<1>7. /\ item \in Items /\ item.key = key /\ item.params_num = old.params_num + 1
      /\ item.param_types = types /\ item.param_names = old.param_names
      /\ item.ret_type = old.ret_type /\ item.defined = old.defined
  <2> DEFINE n == old.params_num + 1
  <2>1. n \in Nat
    BY <1>2 DEF Items
  <2>2. item = [old EXCEPT !.params_num = n, !.param_types = types]
    BY <1>2 DEF WithParam, Items, types
  <2> HIDE DEF n, item
  <2>3. /\ item \in Items /\ item.key = key /\ item.params_num = n
        /\ item.param_types = types /\ item.param_names = old.param_names
        /\ item.ret_type = old.ret_type /\ item.defined = old.defined
    BY <1>2, <1>5, <2>1, <2>2 DEF Items
  <2> QED BY <2>3 DEF n
<1>8. /\ d \in Signatures /\ d.types = Append(declared[key].types, type)
      /\ d.names = declared[key].names /\ d.ret_type = declared[key].ret_type
      /\ d.defined = declared[key].defined
  BY <1>2, <1>6 DEF Signatures
<1> HIDE DEF item, d
<1>9. Signed(item, d)
  BY <1>2, <1>5, <1>6, <1>7, <1>8 DEF Signed
<1> QED BY <1>1, <1>3, <1>7, <1>8, <1>9, UpdateKeeps

LEMMA SetRetTypeKeeps ==
    ASSUME IInv, NEW key \in Key, NEW type \in Type, func_set_ret_type(key, type)
    PROVE  IInv'
<1> DEFINE old == htab_find(key)
           item == [old EXCEPT !.ret_type = type]
           d == [declared[key] EXCEPT !.ret_type = type]
<1>1. PICK i : At(key, i)
  BY FoundAt DEF func_set_ret_type
<1>2. /\ old \in Items /\ declared[key] \in Signatures /\ Signed(old, declared[key])
      /\ old.key = key
  BY <1>1 DEF At
<1>3. Update(key, item) /\ declared' = [declared EXCEPT ![key] = d]
  BY DEF func_set_ret_type
<1>4. /\ item \in Items /\ item.key = key /\ item.params_num = old.params_num
      /\ item.param_types = old.param_types /\ item.param_names = old.param_names
      /\ item.ret_type = type /\ item.defined = old.defined
  BY <1>2 DEF Items
<1>5. /\ d \in Signatures /\ d.types = declared[key].types /\ d.names = declared[key].names
      /\ d.ret_type = type /\ d.defined = declared[key].defined
  BY <1>2 DEF Signatures
<1> HIDE DEF item, d
<1>6. Signed(item, d)
  BY <1>2, <1>4, <1>5 DEF Signed
<1> QED BY <1>1, <1>3, <1>4, <1>5, <1>6, UpdateKeeps

LEMMA StoreParamNameKeeps ==
    ASSUME IInv, NEW key \in Key, NEW name \in Name, func_store_param_name(key, name)
    PROVE  IInv'
<1> DEFINE old == htab_find(key)
           names == buffer_append_c(buffer_append_str(old.param_names, name), Mark)
           item == [old EXCEPT !.param_names = buffer_append_c(buffer_append_str(@, name), Mark)]
           d == [declared[key] EXCEPT !.names = Append(@, name)]
<1>1. PICK i : At(key, i)
  BY FoundAt DEF func_store_param_name
<1>2. /\ old \in Items /\ declared[key] \in Signatures /\ Signed(old, declared[key])
      /\ old.key = key
  BY <1>1 DEF At
<1>3. /\ Update(key, item) /\ declared' = [declared EXCEPT ![key] = d]
      /\ func_get_param(old, func_get_param_idx(old)) # NoType
  BY DEF func_store_param_name
<1>4. /\ old.param_names \in Strings /\ declared[key].names \in Seq(Name)
      /\ PackedNames(old.param_names, declared[key].names)
  BY <1>2 DEF Items, Signatures, Signed
<1>5. names \in Strings /\ PackedNames(names, Append(declared[key].names, name))
  BY <1>4, PackAName
<1>6. /\ Append(declared[key].names, name) \in Seq(Name)
      /\ Len(Append(declared[key].names, name)) = Len(declared[key].names) + 1
      /\ Len(declared[key].types) \in Nat /\ Len(declared[key].names) \in Nat
  BY <1>2, <1>4, AppendProperties, LenProperties DEF Signatures
\* A name is stored only for a parameter that there is.
<1>7. Len(declared[key].names) + 1 <= Len(declared[key].types)
  <2>1. func_get_param_idx(old) = Len(declared[key].names) + 1
    BY <1>2, NextNameIs
  <2>2. ~(func_get_param_idx(old) > old.params_num)
    BY <1>3 DEF func_get_param
  <2>3. old.params_num = Len(declared[key].types)
    BY <1>2 DEF Signed
  <2> QED BY <1>6, <2>1, <2>2, <2>3
<1> HIDE DEF names
<1>8. /\ item \in Items /\ item.key = key /\ item.params_num = old.params_num
      /\ item.param_types = old.param_types /\ item.param_names = names
      /\ item.ret_type = old.ret_type /\ item.defined = old.defined
  BY <1>2, <1>5 DEF Items, names
<1>9. /\ d \in Signatures /\ d.names = Append(declared[key].names, name)
      /\ d.types = declared[key].types /\ d.ret_type = declared[key].ret_type
      /\ d.defined = declared[key].defined
  BY <1>2, <1>6 DEF Signatures
<1> HIDE DEF item, d
<1>10. Signed(item, d)
  BY <1>2, <1>5, <1>6, <1>7, <1>8, <1>9 DEF Signed
<1> QED BY <1>1, <1>3, <1>8, <1>9, <1>10, UpdateKeeps

LEMMA SetDefinedKeeps ==
    ASSUME IInv, NEW key \in Key, func_set_defined(key)
    PROVE  IInv'
<1> DEFINE old == htab_find(key)
           item == [old EXCEPT !.defined = TRUE]
           d == [declared[key] EXCEPT !.defined = TRUE]
<1>1. PICK i : At(key, i)
  BY FoundAt DEF func_set_defined
<1>2. /\ old \in Items /\ declared[key] \in Signatures /\ Signed(old, declared[key])
      /\ old.key = key
  BY <1>1 DEF At
<1>3. Update(key, item) /\ declared' = [declared EXCEPT ![key] = d]
  BY DEF func_set_defined
<1>4. /\ item \in Items /\ item.key = key /\ item.params_num = old.params_num
      /\ item.param_types = old.param_types /\ item.param_names = old.param_names
      /\ item.ret_type = old.ret_type
  BY <1>2 DEF Items
<1>5. /\ d \in Signatures /\ d.types = declared[key].types /\ d.names = declared[key].names
      /\ d.ret_type = declared[key].ret_type
  BY <1>2 DEF Signatures
<1>6. item.defined = d.defined
  BY <1>2 DEF Items, Signatures
<1> HIDE DEF item, d
<1>7. Signed(item, d)
  BY <1>2, <1>4, <1>5, <1>6 DEF Signed
<1> QED BY <1>1, <1>3, <1>4, <1>5, <1>7, UpdateKeeps

LEMMA InitEstablishes == Init => IInv
<1> SUFFICES ASSUME Init PROVE Chains /\ KeysInTheirChainOnce /\ Matches
  BY DEF IInv
<1>1. /\ ptr = [b \in Buckets |-> << >>] /\ DOMAIN << >> = {} /\ DOMAIN declared = {}
  BY DEF Init
<1>2. \A b \in Buckets : ptr[b] = << >> /\ DOMAIN ptr[b] = {}
  BY <1>1
<1>3. Chains
  BY <1>1, EmptySeq DEF Chains
<1> QED BY <1>1, <1>2, <1>3 DEF KeysInTheirChainOnce, Matches

LEMMA NextPreserves == IInv /\ [Next]_vars => IInv'
<1> SUFFICES ASSUME IInv, [Next]_vars PROVE IInv'
  OBVIOUS
<1>1. ASSUME NEW key \in Key, htab_func_insert(key) PROVE IInv'
  BY <1>1, InsertKeeps
<1>2. ASSUME NEW key \in Key, htab_func_remove(key) PROVE IInv'
  BY <1>2, RemoveKeeps
<1>3. ASSUME NEW key \in Key, func_set_defined(key) PROVE IInv'
  BY <1>3, SetDefinedKeeps
<1>4. ASSUME NEW key \in Key, NEW type \in Type, func_add_param(key, type) PROVE IInv'
  BY <1>4, AddParamKeeps
<1>5. ASSUME NEW key \in Key, NEW type \in Type, func_set_ret_type(key, type) PROVE IInv'
  BY <1>5, SetRetTypeKeeps
<1>6. ASSUME NEW key \in Key, NEW name \in Name, func_store_param_name(key, name) PROVE IInv'
  BY <1>6, StoreParamNameKeeps
<1>7. CASE htab_func_free
  BY <1>7 DEF htab_func_free, IInv
<1>8. CASE UNCHANGED vars
  <2>1. ptr' = ptr /\ declared' = declared
    BY <1>8 DEF vars
  <2> QED BY <2>1 DEF IInv, Chains, KeysInTheirChainOnce, Matches, Places
<1> QED BY <1>1, <1>2, <1>3, <1>4, <1>5, <1>6, <1>7, <1>8 DEF Next

LEMMA SpecInvariant == Spec => []IInv
  BY InitEstablishes, NextPreserves, PTL DEF Spec
-----------------------------------------------------------------------------
(* A function is in the chain of its hash and once, so that a find sees it.*)
THEOREM AFindSeesAll == Spec => []KeysInTheirChainOnce
<1>1. IInv => KeysInTheirChainOnce
  BY DEF IInv, KeysInTheirChainOnce
<1> QED BY <1>1, SpecInvariant, PTL

(* Both strings of every signature are C strings of the kept length.       *)
THEOREM SignaturesStayStrings == Spec => []SignaturesAreStrings
<1>1. IInv => SignaturesAreStrings
  <2> SUFFICES ASSUME IInv, ptr # << >>, NEW b \in Buckets, NEW i \in DOMAIN ptr[b]
               PROVE  HoldsString(ptr[b][i].param_types) /\ HoldsString(ptr[b][i].param_names)
    BY DEF SignaturesAreStrings
  <2>1. ptr[b][i] \in Items
    <3>1. ptr[b] \in Seq(Items)
      BY DEF IInv, Chains
    <3> QED BY <3>1, LenProperties, ElementOfSeq
  <2>2. ptr[b][i].param_types \in Strings /\ ptr[b][i].param_names \in Strings
    BY <2>1 DEF Items
  <2> QED BY <2>2, StringsAreStrings, LengthIsKept
<1> QED BY <1>1, SpecInvariant, PTL

(* What the accessors read of a function is what was declared of it.       *)
THEOREM DeclarationsReadBack == Spec => []SignaturesReadBack
<1>1. IInv => SignaturesReadBack
  <2> SUFFICES ASSUME IInv, ptr # << >>, NEW key \in Key
               PROVE  /\ Found(key) <=> key \in DOMAIN declared
                      /\ Found(key) => Read(key) = declared[key]
    BY DEF SignaturesReadBack
  <2>1. key \in DOMAIN declared => Found(key)
    BY DEF IInv, Matches, Found
  <2>2. ASSUME Found(key) PROVE key \in DOMAIN declared /\ Read(key) = declared[key]
    <3> DEFINE item == htab_find(key)
               d == declared[key]
    <3>1. PICK i : At(key, i)
      BY <2>2, FoundAt
    <3>2. item \in Items /\ key \in DOMAIN declared /\ d \in Signatures /\ Signed(item, d)
      BY <3>1 DEF At
    <3> HIDE DEF item, d
    <3>3. /\ item.params_num = Len(d.types) /\ item.ret_type = d.ret_type /\ item.defined = d.defined
          /\ d.types \in Seq(Type) /\ d.names \in Seq(Name)
          /\ Len(d.types) \in Nat /\ Len(d.names) \in Nat
      BY <3>2, LenProperties DEF Signed, Signatures
    <3>4. [j \in 1 .. item.params_num |-> func_get_param(item, j)] = d.types
      <4>1. \A j \in 1 .. item.params_num : func_get_param(item, j) = d.types[j]
        BY <3>2, TypesReadBack
      <4>2. d.types = [j \in 1 .. Len(d.types) |-> d.types[j]]
        BY <3>3, LenProperties
      <4> QED BY <3>3, <4>1, <4>2
    <3>5. [j \in 1 .. func_get_param_idx(item) - 1 |-> func_get_param_name(item, j)] = d.names
      <4>1. func_get_param_idx(item) - 1 = Len(d.names)
        BY <3>2, <3>3, NextNameIs
      <4>2. \A j \in 1 .. Len(d.names) : func_get_param_name(item, j) = d.names[j]
        BY <3>2, NamesReadBack
      <4>3. d.names = [j \in 1 .. Len(d.names) |-> d.names[j]]
        BY <3>3, LenProperties
      <4> QED BY <4>1, <4>2, <4>3
    <3>6. Read(key) = [types |-> d.types, names |-> d.names, ret_type |-> d.ret_type,
                       defined |-> d.defined]
      <4>1. Read(key) = [types |-> [j \in 1 .. item.params_num |-> func_get_param(item, j)],
                         names |-> [j \in 1 .. func_get_param_idx(item) - 1 |->
                                       func_get_param_name(item, j)],
                         ret_type |-> item.ret_type, defined |-> item.defined]
        BY DEF Read, item
      <4> QED BY <3>3, <3>4, <3>5, <4>1
    <3>7. d = [types |-> d.types, names |-> d.names, ret_type |-> d.ret_type, defined |-> d.defined]
      BY <3>2 DEF Signatures
    <3> QED BY <3>2, <3>6, <3>7 DEF d
  <2> QED BY <2>1, <2>2
<1> QED BY <1>1, SpecInvariant, PTL
=============================================================================
