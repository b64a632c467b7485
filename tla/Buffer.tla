------------------------------- MODULE Buffer -------------------------------
(***************************************************************************)
(* src/src/buffer.c: a growing array of characters that always holds a C   *)
(* string.  A buffer is a value here, and every operation a function of    *)
(* it.  A write outside the array changes nothing but sets overrun.        *)
(***************************************************************************)
EXTENDS Integers, Sequences

CONSTANT BUFFER_CHUNK   \* cells added when the array is full (10 in the code)

ASSUME BufferChunkAssumption == BUFFER_CHUNK \in Nat \ {0}

NUL == 0
Garbage == -1           \* what a cell holds that nobody wrote

\* An array of this many cells that begins like str
Cells(size, str) == [i \in 0 .. size - 1 |-> IF i \in DOMAIN str THEN str[i] ELSE Garbage]
Nothing == [i \in {} |-> NUL]

Write(b, i, c) ==
    IF i \in 0 .. b.buffer_size - 1 THEN [b EXCEPT !.str[i] = c] ELSE [b EXCEPT !.overrun = TRUE]

\* The length of the string in the array, from its first binary zero
Terminators(b) == {i \in DOMAIN b.str : b.str[i] = NUL}
strlen(b) == CHOOSE i \in Terminators(b) : \A j \in Terminators(b) : i <= j
CString(b) == [i \in 1 .. strlen(b) |-> b.str[i - 1]]

buffer_init(size) ==
    LET cells == IF size < 1 THEN 1 ELSE size
    IN  [str |-> [Cells(cells, Nothing) EXCEPT ![0] = NUL], len |-> 0, buffer_size |-> cells,
         overrun |-> FALSE]

\* A buffer that shrinks is emptied.
buffer_realloc(b, size) ==
    LET resized == [b EXCEPT !.str = Cells(size, b.str), !.buffer_size = size]
    IN  IF size < b.buffer_size THEN [Write(resized, 0, NUL) EXCEPT !.len = 0] ELSE resized

\* Mutated: no room is kept for the binary zero.
FullTooLate(b) == b.len + 1 > b.buffer_size

Full(b) == b.len + 1 >= b.buffer_size

buffer_append_c(b, c) ==
    LET grown == IF Full(b) THEN buffer_realloc(b, b.buffer_size + BUFFER_CHUNK) ELSE b
    IN  [Write(Write(grown, b.len, c), b.len + 1, NUL) EXCEPT !.len = @ + 1]

\* Mutated: the old length is forgotten.
SizeOfString(b, s) == Len(s) + 1

SizeWith(b, s) == b.len + Len(s) + 1

\* A string with its binary zero, written from one cell on
WriteString(b, from, s) ==
    [b EXCEPT !.str = [i \in DOMAIN b.str |->
                          IF i \in from .. from + Len(s) - 1 THEN s[i - from + 1]
                          ELSE IF i = from + Len(s) THEN NUL ELSE b.str[i]],
              !.overrun = @ \/ from + Len(s) >= b.buffer_size]

buffer_append_str(b, s) ==
    LET grown == IF SizeWith(b, s) > b.buffer_size THEN buffer_realloc(b, SizeWith(b, s)) ELSE b
    IN  [WriteString(grown, strlen(b), s) EXCEPT !.len = @ + Len(s)]

buffer_clear(b) == [Write(buffer_realloc(b, BUFFER_CHUNK), 0, NUL) EXCEPT !.len = 0]

(* buffer.h: "Buffer always holds a valid C string in arr", of the length  *)
(* it keeps; nothing was ever written outside the array.                   *)
HoldsString(b) ==
    /\ ~b.overrun
    /\ DOMAIN b.str = 0 .. b.buffer_size - 1
    /\ Terminators(b) # {}
    /\ b.len = strlen(b)
=============================================================================
