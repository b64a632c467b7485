---------------------------- MODULE Buffer_proofs ----------------------------
(***************************************************************************)
(* Proofs about Buffer.  A buffer that holds a string, said without        *)
(* looking for the binary zero: what the operations keep, and what the     *)
(* string is after them.                                                   *)
(***************************************************************************)
EXTENDS Buffer, SequenceTheorems, TLAPS

Char == Int \ {NUL}
Cell(size) == [0 .. size - 1 -> Int]

\* A buffer that was never overrun, by its fields
BufferIs(b, str, len, size) ==
    /\ b \in [str : Cell(size), len : Nat, buffer_size : Nat, overrun : BOOLEAN]
    /\ b.str = str /\ b.len = len /\ b.buffer_size = size /\ b.overrun = FALSE

\* The string in an array
StringIn(str, len, size) ==
    /\ len < size /\ str[len] = NUL
    /\ \A i \in 0 .. len - 1 : str[i] # NUL

IsString(b) == BufferIs(b, b.str, b.len, b.buffer_size) /\ StringIn(b.str, b.len, b.buffer_size)

\* The buffer holds the string of the other, and these characters behind it.
Longer(b, old, s) ==
    /\ IsString(b) /\ b.len = old.len + Len(s)
    /\ \A i \in 0 .. old.len - 1 : b.str[i] = old.str[i]
    /\ \A i \in 1 .. Len(s) : b.str[old.len + i - 1] = s[i]
-----------------------------------------------------------------------------
(* What the updates of a buffer leave of it                                *)

LEMMA Fields ==
    ASSUME NEW b, NEW str, NEW len, NEW size, BufferIs(b, str, len, size)
    PROVE  /\ len \in Nat /\ size \in Nat /\ str \in Cell(size)
           /\ b.str = str /\ b.len = len /\ b.buffer_size = size
           /\ DOMAIN str = 0 .. size - 1 /\ \A i \in 0 .. size - 1 : str[i] \in Int
BY DEF BufferIs, Cell

LEMMA IsStringWhen ==
    ASSUME NEW b, NEW str, NEW len, NEW size, BufferIs(b, str, len, size), StringIn(str, len, size)
    PROVE  IsString(b)
BY Fields DEF IsString

LEMMA Resized ==
    ASSUME NEW b, NEW str, NEW len, NEW size, BufferIs(b, str, len, size),
           NEW n \in Nat, NEW cells \in Cell(n)
    PROVE  BufferIs([b EXCEPT !.str = cells, !.buffer_size = n], cells, len, n)
BY DEF BufferIs

LEMMA LengthSet ==
    ASSUME NEW b, NEW str, NEW len, NEW size, BufferIs(b, str, len, size), NEW n \in Nat
    PROVE  BufferIs([b EXCEPT !.len = n], str, n, size)
BY DEF BufferIs

LEMMA CellWritten ==
    ASSUME NEW b, NEW str, NEW len, NEW size, BufferIs(b, str, len, size),
           NEW i \in 0 .. size - 1, NEW c \in Int
    PROVE  BufferIs(Write(b, i, c), [str EXCEPT ![i] = c], len, size)
<1> DEFINE t == [str EXCEPT ![i] = c]
<1>1. t \in Cell(size) /\ Write(b, i, c) = [b EXCEPT !.str[i] = c]
  BY Fields DEF Write, Cell
<1>2. [b EXCEPT !.str[i] = c] = [b EXCEPT !.str = t]
  BY DEF BufferIs
<1> HIDE DEF t
<1>3. BufferIs([b EXCEPT !.str = t], t, len, size)
  BY <1>1 DEF BufferIs
<1> QED BY <1>1, <1>2, <1>3 DEF t

\* The array with a string in it
Over(str, from, s, size, w) ==
    /\ w \in Cell(size) /\ w[from + Len(s)] = NUL
    /\ \A i \in 0 .. from - 1 : w[i] = str[i]
    /\ \A i \in 1 .. Len(s) : w[from + i - 1] = s[i]

LEMMA StringWritten ==
    ASSUME NEW b, NEW str, NEW len, NEW size, BufferIs(b, str, len, size),
           NEW from \in Nat, NEW s \in Seq(Char), from + Len(s) < size
    PROVE  \E w : BufferIs(WriteString(b, from, s), w, len, size) /\ Over(str, from, s, size, w)
<1> DEFINE w == [i \in DOMAIN b.str |-> IF i \in from .. from + Len(s) - 1 THEN s[i - from + 1]
                                        ELSE IF i = from + Len(s) THEN NUL ELSE b.str[i]]
<1>1. /\ Len(s) \in Nat /\ \A i \in 1 .. Len(s) : s[i] \in Int
      /\ b.str = str /\ b.buffer_size = size /\ b.len = len /\ size \in Nat
      /\ DOMAIN b.str = 0 .. size - 1 /\ \A i \in 0 .. size - 1 : str[i] \in Int
  BY Fields DEF Char
<1>2. w \in Cell(size)
  <2>1. \A i \in from .. from + Len(s) - 1 : i - from + 1 \in 1 .. Len(s)
    BY <1>1
  <2> QED BY <1>1, <2>1 DEF Cell, NUL
<1>3. w[from + Len(s)] = NUL /\ \A i \in 0 .. from - 1 : w[i] = str[i]
  BY <1>1
<1>4. ASSUME NEW i \in 1 .. Len(s) PROVE w[from + i - 1] = s[i]
  <2>1. /\ from + i - 1 \in from .. from + Len(s) - 1 /\ from + i - 1 \in 0 .. size - 1
        /\ (from + i - 1) - from + 1 = i
    BY <1>1
  <2> QED BY <1>1, <2>1
<1>5. WriteString(b, from, s) = [b EXCEPT !.str = w, !.overrun = @ \/ from + Len(s) >= b.buffer_size]
  BY DEF WriteString
<1> HIDE DEF w
<1>6. [b EXCEPT !.str = w, !.overrun = @ \/ from + Len(s) >= b.buffer_size]
      = [b EXCEPT !.str = w, !.overrun = FALSE]
  <2>1. ~(from + Len(s) >= b.buffer_size)
    BY <1>1
  <2> QED BY <2>1 DEF BufferIs
<1>7. BufferIs([b EXCEPT !.str = w, !.overrun = FALSE], w, len, size)
  BY <1>2 DEF BufferIs
<1>8. Over(str, from, s, size, w)
  BY <1>2, <1>3, <1>4 DEF Over
<1> QED BY <1>5, <1>6, <1>7, <1>8

\* An array of another size that begins with the same cells
LEMMA CellsCopied ==
    ASSUME NEW b, NEW str, NEW len, NEW size, BufferIs(b, str, len, size), NEW n \in Nat
    PROVE  Cells(n, b.str) \in Cell(n) /\ \A i \in 0 .. n - 1 : i < size => Cells(n, b.str)[i] = str[i]
BY Fields DEF Cells, Cell, Garbage
-----------------------------------------------------------------------------
(* strlen finds the zero that is where len says.                           *)
LEMMA LengthIsKept ==
    ASSUME NEW b, IsString(b)
    PROVE  strlen(b) = b.len /\ HoldsString(b)
<1>1. /\ b.len \in Nat /\ b.buffer_size \in Nat /\ b.len < b.buffer_size
      /\ DOMAIN b.str = 0 .. b.buffer_size - 1
      /\ b.str[b.len] = NUL /\ \A i \in 0 .. b.len - 1 : b.str[i] # NUL
      /\ ~b.overrun
  BY DEF IsString, BufferIs, StringIn, Cell
<1>2. b.len \in Terminators(b)
  BY <1>1 DEF Terminators
<1>3. \A i \in Terminators(b) : i \in Int /\ b.len <= i
  BY <1>1 DEF Terminators
<1> DEFINE First(i) == i \in Terminators(b) /\ \A j \in Terminators(b) : i <= j
<1>4. First(b.len) /\ \A i : First(i) => i = b.len
  BY <1>1, <1>2, <1>3
<1>5. strlen(b) = b.len
  <2>1. strlen(b) = CHOOSE i : First(i)
    BY DEF strlen
  <2>2. First(CHOOSE i : First(i))
    BY <1>4
  <2> QED BY <1>4, <2>1, <2>2
<1> QED BY <1>1, <1>2, <1>5 DEF HoldsString

LEMMA InitHoldsNothing ==
    ASSUME NEW size \in Int
    PROVE  IsString(buffer_init(size)) /\ buffer_init(size).len = 0
BY DEF buffer_init, Cells, Nothing, IsString, BufferIs, StringIn, Cell, NUL, Garbage

\* Room for these many cells, and the string as it was
Grown(b, old, cells) ==
    /\ IsString(b) /\ b.len = old.len /\ b.buffer_size >= cells
    /\ \A i \in 0 .. old.len - 1 : b.str[i] = old.str[i]

(* An array that grows keeps the string in it.                             *)
LEMMA GrowingKeeps ==
    ASSUME NEW b, IsString(b), NEW size \in Nat, size >= b.buffer_size
    PROVE  Grown(buffer_realloc(b, size), b, size)
<1> DEFINE r == [b EXCEPT !.str = Cells(size, b.str), !.buffer_size = size]
           cells == Cells(size, b.str)
<1>1. BufferIs(b, b.str, b.len, b.buffer_size) /\ StringIn(b.str, b.len, b.buffer_size)
  BY DEF IsString
<1>2. b.len \in Nat /\ b.buffer_size \in Nat
  BY <1>1, Fields
<1>3. buffer_realloc(b, size) = r
  BY <1>2 DEF buffer_realloc
<1>4. /\ cells \in Cell(size)
      /\ \A i \in 0 .. size - 1 : i < b.buffer_size => cells[i] = b.str[i]
  BY <1>1, CellsCopied
<1>5. BufferIs(r, cells, b.len, size)
  BY <1>1, <1>4, Resized
<1> HIDE DEF r, cells
<1>6. /\ StringIn(cells, b.len, size)
      /\ \A i \in 0 .. b.len - 1 : cells[i] = b.str[i]
  BY <1>1, <1>2, <1>4 DEF StringIn
<1>7. IsString(r) /\ r.str = cells /\ r.len = b.len /\ r.buffer_size = size
  BY <1>5, <1>6, Fields, IsStringWhen
<1> QED BY <1>3, <1>6, <1>7 DEF Grown

\* An array in which a string was continued holds the longer one.
LEMMA Continued ==
    ASSUME NEW s \in Seq(Char), NEW g, NEW old, Grown(g, old, old.len + Len(s) + 1),
           old.len \in Nat, NEW b, NEW w,
           BufferIs(b, w, old.len + Len(s), g.buffer_size),
           Over(g.str, old.len, s, g.buffer_size, w)
    PROVE  Longer(b, old, s)
<1>1. /\ Len(s) \in Nat /\ \A i \in 1 .. Len(s) : s[i] \in Char
  OBVIOUS
<1>2. /\ g.len = old.len /\ g.buffer_size >= old.len + Len(s) + 1
      /\ \A i \in 0 .. old.len - 1 : g.str[i] = old.str[i]
      /\ \A i \in 0 .. old.len - 1 : g.str[i] # NUL
      /\ g.buffer_size \in Nat
  BY Fields DEF Grown, IsString, StringIn
<1>3. \A i \in 0 .. old.len + Len(s) - 1 : w[i] # NUL
  <2>1. ASSUME NEW i \in 0 .. old.len + Len(s) - 1, ~(i < old.len) PROVE w[i] # NUL
    <3>0. \A n, l \in Nat : \A j \in 0 .. n + l - 1 :
            ~(j < n) => j - n + 1 \in 1 .. l /\ n + (j - n + 1) - 1 = j
      OBVIOUS
    <3>1. i - old.len + 1 \in 1 .. Len(s) /\ old.len + (i - old.len + 1) - 1 = i
      BY <1>1, <2>1, <3>0
    <3>2. w[i] = s[i - old.len + 1]
      BY <3>1 DEF Over
    <3> QED BY <1>1, <3>1, <3>2 DEF Char
  <2>2. ASSUME NEW i \in 0 .. old.len + Len(s) - 1, i < old.len PROVE w[i] # NUL
    <3>1. i \in 0 .. old.len - 1
      BY <1>1, <2>2
    <3> QED BY <1>2, <3>1 DEF Over
  <2> QED BY <2>1, <2>2
<1>4. StringIn(w, old.len + Len(s), g.buffer_size)
  <2>1. old.len + Len(s) < g.buffer_size
    BY <1>1, <1>2
  <2> QED BY <1>3, <2>1 DEF StringIn, Over
<1>5. IsString(b) /\ b.str = w /\ b.len = old.len + Len(s)
  BY <1>4, Fields, IsStringWhen
<1> QED BY <1>2, <1>5 DEF Longer, Over

(* A character goes behind the string, for which there is room.            *)
LEMMA AppendingACharacter ==
    ASSUME NEW b, IsString(b), NEW c \in Char
    PROVE  Longer(buffer_append_c(b, c), b, <<c>>)
<1> DEFINE g == IF Full(b) THEN buffer_realloc(b, b.buffer_size + BUFFER_CHUNK) ELSE b
           v == Write(g, b.len, c)
           w == Write(v, b.len + 1, NUL)
           r == [w EXCEPT !.len = @ + 1]
           n == g.buffer_size
           t == [[g.str EXCEPT ![b.len] = c] EXCEPT ![b.len + 1] = NUL]
<1>1. b.len \in Nat /\ b.buffer_size \in Nat /\ b.len < b.buffer_size
  BY Fields DEF IsString, StringIn
<1>2. Grown(g, b, b.len + 2)
  <2>1. CASE Full(b)
    <3>1. b.buffer_size + BUFFER_CHUNK \in Nat /\ b.buffer_size + BUFFER_CHUNK >= b.buffer_size
      BY <1>1, BufferChunkAssumption
    <3>2. Grown(g, b, b.buffer_size + BUFFER_CHUNK)
      BY <2>1, <3>1, GrowingKeeps
    <3>3. b.buffer_size + BUFFER_CHUNK >= b.len + 2
      BY <1>1, BufferChunkAssumption
    <3>4. g.buffer_size \in Nat
      BY <3>2, Fields DEF Grown, IsString
    <3> HIDE DEF g
    <3> QED BY <1>1, <3>1, <3>2, <3>3, <3>4 DEF Grown
  <2>2. CASE ~Full(b)
    BY <1>1, <2>2 DEF Full, Grown
  <2> QED BY <2>1, <2>2
<1>3. buffer_append_c(b, c) = r
  BY DEF buffer_append_c
<1> HIDE DEF g
<1>4. BufferIs(g, g.str, b.len, n) /\ b.len + 2 <= n
  BY <1>2 DEF Grown, IsString
<1>5. n \in Nat /\ DOMAIN g.str = 0 .. n - 1 /\ g.str \in Cell(n)
  BY <1>4, Fields
<1>6. b.len \in 0 .. n - 1 /\ b.len + 1 \in 0 .. n - 1 /\ c \in Int /\ NUL \in Int
  BY <1>1, <1>4, <1>5 DEF Char, NUL
<1> HIDE DEF n
<1>7. BufferIs(v, [g.str EXCEPT ![b.len] = c], b.len, n)
  BY <1>4, <1>6, CellWritten
<1> HIDE DEF v
<1>8. BufferIs(w, t, b.len, n)
  BY <1>6, <1>7, CellWritten
<1>9. /\ t \in Cell(n) /\ t[b.len + 1] = NUL /\ t[b.len] = c
      /\ \A i \in 0 .. b.len - 1 : t[i] = g.str[i]
  <2>1. \A i \in 0 .. b.len - 1 : i \in 0 .. n - 1 /\ i # b.len /\ i # b.len + 1
    BY <1>1, <1>5, <1>6
  <2>2. b.len # b.len + 1
    BY <1>1
  <2>3. t \in Cell(n)
    BY <1>8, Fields
  <2> QED BY <1>5, <1>6, <2>1, <2>2, <2>3
<1> HIDE DEF t, w
<1>10. BufferIs(r, t, b.len + 1, n)
  <2>1. w.len = b.len
    BY <1>8, Fields
  <2>2. r = [w EXCEPT !.len = b.len + 1]
    BY <1>8, <2>1 DEF BufferIs
  <2>3. b.len + 1 \in Nat
    BY <1>1
  <2> QED BY <1>8, <2>2, <2>3, LengthSet
<1> HIDE DEF r
<1>11. Len(<<c>>) = 1 /\ <<c>> \in Seq(Char) /\ b.len + 1 + 1 = b.len + 2
  BY <1>1
<1>12. Over(g.str, b.len, <<c>>, n, t)
  <2>1. ASSUME NEW i \in 1 .. Len(<<c>>) PROVE t[b.len + i - 1] = <<c>>[i]
    <3>1. i = 1 /\ b.len + i - 1 = b.len
      BY <1>1, <1>11
    <3> QED BY <1>9, <3>1
  <2> QED BY <1>9, <1>11, <2>1 DEF Over
<1> QED BY <1>1, <1>2, <1>3, <1>10, <1>11, <1>12, Continued DEF n

(* A string goes behind the string, in an array that is made to fit.       *)
LEMMA AppendingAString ==
    ASSUME NEW b, IsString(b), NEW s \in Seq(Char)
    PROVE  Longer(buffer_append_str(b, s), b, s)
<1> DEFINE g == IF SizeWith(b, s) > b.buffer_size THEN buffer_realloc(b, SizeWith(b, s)) ELSE b
           v == WriteString(g, b.len, s)
           r == [v EXCEPT !.len = @ + Len(s)]
           n == g.buffer_size
<1>1. b.len \in Nat /\ b.buffer_size \in Nat /\ b.len < b.buffer_size /\ Len(s) \in Nat
  BY Fields DEF IsString, StringIn
<1>2. Grown(g, b, b.len + Len(s) + 1)
  <2>1. CASE SizeWith(b, s) > b.buffer_size
    <3>1. SizeWith(b, s) \in Nat /\ SizeWith(b, s) >= b.buffer_size
      BY <1>1, <2>1 DEF SizeWith
    <3>2. Grown(g, b, SizeWith(b, s))
      BY <2>1, <3>1, GrowingKeeps
    <3> QED BY <3>2 DEF SizeWith
  <2>2. CASE ~(SizeWith(b, s) > b.buffer_size)
    BY <1>1, <2>2 DEF SizeWith, Grown
  <2> QED BY <2>1, <2>2
<1>3. buffer_append_str(b, s) = r
  <2>1. strlen(b) = b.len
    BY LengthIsKept
  <2> QED BY <2>1 DEF buffer_append_str
<1> HIDE DEF g
<1>4. BufferIs(g, g.str, b.len, n) /\ b.len + Len(s) + 1 <= n
  BY <1>2 DEF Grown, IsString
<1>5. n \in Nat
  BY <1>4, Fields
<1>6. b.len + Len(s) < n
  BY <1>1, <1>4, <1>5
<1> HIDE DEF n
<1>7. PICK w : BufferIs(v, w, b.len, n) /\ Over(g.str, b.len, s, n, w)
  BY <1>1, <1>4, <1>6, StringWritten
<1> HIDE DEF v
<1>8. BufferIs(r, w, b.len + Len(s), n)
  <2>1. v.len = b.len
    BY <1>7, Fields
  <2>2. r = [v EXCEPT !.len = b.len + Len(s)]
    BY <1>7, <2>1 DEF BufferIs
  <2>3. b.len + Len(s) \in Nat
    BY <1>1
  <2> QED BY <1>7, <2>2, <2>3, LengthSet
<1> HIDE DEF r
<1> QED BY <1>1, <1>2, <1>3, <1>7, <1>8, Continued DEF n

\* The first cell of an array that has one is made the end of the string.
LEMMA Emptied ==
    ASSUME NEW b, NEW str, NEW len, NEW size, BufferIs(b, str, len, size), size > 0
    PROVE  /\ \E t : BufferIs([Write(b, 0, NUL) EXCEPT !.len = 0], t, 0, size)
           /\ IsString([Write(b, 0, NUL) EXCEPT !.len = 0])
           /\ [Write(b, 0, NUL) EXCEPT !.len = 0].len = 0
<1> DEFINE v == Write(b, 0, NUL)
           t == [str EXCEPT ![0] = NUL]
           r == [v EXCEPT !.len = 0]
<1>1. 0 \in 0 .. size - 1 /\ NUL \in Int /\ 0 \in Nat /\ DOMAIN str = 0 .. size - 1 /\ size \in Nat
  BY Fields DEF NUL
<1>2. BufferIs(v, t, len, size)
  BY <1>1, CellWritten
<1>3. StringIn(t, 0, size)
  BY <1>1 DEF StringIn
<1> HIDE DEF v, t
<1>4. BufferIs(r, t, 0, size)
  BY <1>1, <1>2, LengthSet
<1> HIDE DEF r
<1>5. IsString(r) /\ r.len = 0
  BY <1>3, <1>4, Fields, IsStringWhen
<1> QED BY <1>4, <1>5 DEF r, v

(* A buffer that is cleared holds the empty string, in one chunk.          *)
LEMMA ClearingHoldsNothing ==
    ASSUME NEW b, IsString(b)
    PROVE  IsString(buffer_clear(b)) /\ buffer_clear(b).len = 0
<1> DEFINE n == BUFFER_CHUNK
           h == [b EXCEPT !.str = Cells(n, b.str), !.buffer_size = n]
           g == buffer_realloc(b, n)
<1>1. n \in Nat /\ n > 0
  BY BufferChunkAssumption
<1>2. BufferIs(b, b.str, b.len, b.buffer_size)
  BY DEF IsString
<1>3. BufferIs(h, Cells(n, b.str), b.len, n)
  BY <1>1, <1>2, CellsCopied, Resized
<1>4. g = IF n < b.buffer_size THEN [Write(h, 0, NUL) EXCEPT !.len = 0] ELSE h
  BY DEF buffer_realloc
<1> HIDE DEF h, n
<1>5. \E t, len : BufferIs(g, t, len, n)
  BY <1>1, <1>3, <1>4, Emptied
<1>6. buffer_clear(b) = [Write(g, 0, NUL) EXCEPT !.len = 0]
  BY DEF buffer_clear, n
<1> HIDE DEF g
<1> QED BY <1>1, <1>5, <1>6, Emptied
-----------------------------------------------------------------------------
(* What a buffer holds after an append is what it held, and behind it what *)
(* was appended, whether the array grew by a chunk, to fit, or not at all. *)
LEMMA LongerByTheString ==
    ASSUME NEW old, IsString(old), NEW s \in Seq(Char), NEW b, Longer(b, old, s)
    PROVE  CString(b) = CString(old) \o s
<1> DEFINE x == CString(old)
           y == CString(b)
<1>1. /\ Len(s) \in Nat /\ old.len \in Nat /\ b.len = old.len + Len(s)
      /\ \A i \in 0 .. old.len - 1 : b.str[i] = old.str[i]
      /\ \A i \in 1 .. Len(s) : b.str[old.len + i - 1] = s[i]
  BY Fields DEF Longer, IsString
<1>2. strlen(old) = old.len /\ strlen(b) = b.len
  BY LengthIsKept DEF Longer
<1>3. x = [i \in 1 .. old.len |-> old.str[i - 1]]
  BY <1>2 DEF CString
<1>4. y = [i \in 1 .. old.len + Len(s) |-> b.str[i - 1]]
  BY <1>1, <1>2 DEF CString
<1> HIDE DEF x, y
<1>5. /\ x \in Seq(Int) /\ Len(x) = old.len /\ s \in Seq(Int)
      /\ y \in Seq(Int) /\ Len(y) = old.len + Len(s)
  <2>1. /\ \A i \in 0 .. old.len - 1 : old.str[i] \in Int
        /\ \A i \in 0 .. old.len + Len(s) - 1 : b.str[i] \in Int
    <3>1. /\ \A i \in 0 .. old.buffer_size - 1 : old.str[i] \in Int
          /\ \A i \in 0 .. b.buffer_size - 1 : b.str[i] \in Int
          /\ old.buffer_size \in Nat /\ b.buffer_size \in Nat
          /\ old.len < old.buffer_size /\ b.len < b.buffer_size
      BY Fields DEF Longer, IsString, StringIn
    <3> QED BY <1>1, <3>1
  <2>2. x \in [1 .. old.len -> Int] /\ y \in [1 .. old.len + Len(s) -> Int]
    BY <1>1, <1>3, <1>4, <2>1
  <2>3. old.len + Len(s) \in Nat
    BY <1>1
  <2>4. \A n \in Nat : \A f \in [1 .. n -> Int] : f \in Seq(Int) /\ Len(f) = n
    BY SeqDef, LenProperties
  <2>5. x \in Seq(Int) /\ y \in Seq(Int) /\ Len(x) = old.len /\ Len(y) = old.len + Len(s)
    BY <1>1, <2>2, <2>3, <2>4
  <2> QED BY <2>5 DEF Char
<1>6. /\ x \o s \in Seq(Int) /\ Len(x \o s) = old.len + Len(s)
      /\ \A i \in 1 .. old.len + Len(s) : (x \o s)[i] = IF i <= old.len THEN x[i] ELSE s[i - old.len]
  <2>1. /\ x \o s \in Seq(Int) /\ Len(x \o s) = Len(x) + Len(s)
        /\ \A i \in 1 .. Len(x) + Len(s) : (x \o s)[i] = IF i <= Len(x) THEN x[i] ELSE s[i - Len(x)]
    BY <1>5, ConcatProperties
  <2> QED BY <1>5, <2>1
<1>7. ASSUME NEW i \in 1 .. old.len + Len(s) PROVE y[i] = (x \o s)[i]
  <2>1. CASE i <= old.len
    <3>1. i \in 1 .. old.len /\ i - 1 \in 0 .. old.len - 1
      BY <1>1, <2>1
    <3> QED BY <1>1, <1>3, <1>4, <1>6, <2>1, <3>1
  <2>2. CASE ~(i <= old.len)
    <3>1. i - old.len \in 1 .. Len(s) /\ old.len + (i - old.len) - 1 = i - 1
      BY <1>1, <2>2
    <3> QED BY <1>1, <1>4, <1>6, <2>2, <3>1
  <2> QED BY <2>1, <2>2
<1>8. y = x \o s
  BY <1>5, <1>6, <1>7, SeqEqual
<1> QED BY <1>8 DEF x, y

THEOREM AppendingIsConcatenation ==
    ASSUME NEW b, IsString(b)
    PROVE  /\ \A s \in Seq(Char) : /\ IsString(buffer_append_str(b, s))
                                   /\ CString(buffer_append_str(b, s)) = CString(b) \o s
           /\ \A c \in Char : /\ IsString(buffer_append_c(b, c))
                              /\ CString(buffer_append_c(b, c)) = CString(b) \o <<c>>
<1>1. ASSUME NEW s \in Seq(Char)
      PROVE  /\ IsString(buffer_append_str(b, s))
             /\ CString(buffer_append_str(b, s)) = CString(b) \o s
  <2>1. Longer(buffer_append_str(b, s), b, s)
    BY AppendingAString
  <2> QED BY <2>1, LongerByTheString DEF Longer
<1>2. ASSUME NEW c \in Char
      PROVE  /\ IsString(buffer_append_c(b, c))
             /\ CString(buffer_append_c(b, c)) = CString(b) \o <<c>>
  <2>1. Longer(buffer_append_c(b, c), b, <<c>>) /\ <<c>> \in Seq(Char)
    BY AppendingACharacter
  <2> QED BY <2>1, LongerByTheString DEF Longer
<1> QED BY <1>1, <1>2
=============================================================================
