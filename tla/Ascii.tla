-------------------------------- MODULE Ascii --------------------------------
(***************************************************************************)
(* Characters as the numbers the C code compares: the printable part of    *)
(* ASCII, and texts as sequences of codes.                                 *)
(***************************************************************************)
EXTENDS Integers, Sequences

\* The codes 32 to 126 without 96
Printable == " !\"#$%&'()*+,-./0123456789:;<=>?@ABCDEFGHIJKLMNOPQRSTUVWXYZ" \o
             "[\\]^_abcdefghijklmnopqrstuvwxyz{|}~"

Code(c) ==
    LET place == CHOOSE i \in 1 .. Len(Printable) : SubSeq(Printable, i, i) = c
    IN  IF place <= 64 THEN 31 + place ELSE 32 + place
Codes(text) == [i \in 1 .. Len(text) |-> Code(SubSeq(text, i, i))]
OneOf(chars) == {Code(SubSeq(chars, i, i)) : i \in 1 .. Len(chars)}
Between(c, d) == Code(c) .. Code(d)

HT == 9
LF == 10
Whitespace == 9 .. 13 \cup {32}
AnyChar == 0 .. 255
EOF == -1               \* what getc answers at the end of the file

Digits == Between("0", "9")
Upper == Between("A", "Z")
Letters == Between("a", "z") \cup Upper \cup OneOf("_")

tolower(c) == IF c \in Upper THEN c + 32 ELSE c
Lowered(s) == [i \in DOMAIN s |-> tolower(s[i])]
=============================================================================
