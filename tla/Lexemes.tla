------------------------------- MODULE Lexemes -------------------------------
(***************************************************************************)
(* What the lexemes of IFJ17 are, each kind by a description of its whole  *)
(* text and not by an automaton, and what the text of a token means.       *)
(***************************************************************************)
EXTENDS Ascii, Functions, FiniteSetsExt, TLC

Backslash == Code("\\")
Quote == Code("\"")
Apostrophe == Code("'")
Slash == Code("/")
Exclamation == Code("!")
Ampersand == Code("&")
Point == Code(".")
Zero == Code("0")
LetterA == Code("a")
LetterE == Code("e")
Signs == OneOf("+-")
-----------------------------------------------------------------------------
All(s, chars) == \A i \in DOMAIN s : s[i] \in chars
Some(s, chars) == s # << >> /\ All(s, chars)
Prefix(s, n) == SubSeq(s, 1, n)
Rest(s, n) == SubSeq(s, n + 1, Len(s))

Operators ==
    [DIVR |-> "/", DIVI |-> "\\", MUL |-> "*", ADD |-> "+", SUB |-> "-", LT |-> "<", GT |-> ">",
     LE |-> "<=", GE |-> ">=", NE |-> "<>", EQUAL |-> "=", COMMA |-> ",", SEMICOLON |-> ";",
     LPAR |-> "(", RPAR |-> ")", SUB_ASIGN |-> "-=", DIVR_ASIGN |-> "/=", MUL_ASIGN |-> "*=",
     ADD_ASIGN |-> "+=", DIVI_ASIGN |-> "\\="]
OperatorTexts == [id \in DOMAIN Operators |-> Codes(Operators[id])]
OperatorLexemes == {Codes(Operators[id]) : id \in DOMAIN Operators}

IsWord(s) == Some(s, Letters \cup Digits) /\ s[1] \in Letters
IsFixed(s) == Some(s, Digits) \/ \E n \in 1 .. Len(s) : /\ Some(Prefix(s, n - 1), Digits)
                                                        /\ s[n] = Point
                                                        /\ Some(Rest(s, n), Digits)
IsExponent(s) ==
    /\ s # << >> /\ tolower(s[1]) = LetterE
    /\ Some(Rest(s, 1), Digits) \/ (Len(s) > 1 /\ s[2] \in Signs /\ Some(Rest(s, 2), Digits))
IsReal(s) ==
    /\ ~Some(s, Digits)
    /\ IsFixed(s) \/ \E n \in DOMAIN s : IsFixed(Prefix(s, n)) /\ IsExponent(Rest(s, n))

\* Numbers in other bases may have no digits (test_files/lexical).
BaseDigits ==
    [c \in OneOf("bB") |-> OneOf("01")] @@ [c \in OneOf("oO") |-> Between("0", "7")]
        @@ [c \in OneOf("hH") |-> Digits \cup Between("a", "f") \cup Between("A", "F")]
Base == [c \in OneOf("bB") |-> 2] @@ [c \in OneOf("oO") |-> 8] @@ [c \in OneOf("hH") |-> 16]
IsBased(s) ==
    /\ Len(s) > 1 /\ s[1] = Ampersand
    /\ s[2] \in DOMAIN BaseDigits /\ All(Rest(s, 2), BaseDigits[s[2]])

DigitOf(c) == IF c \in Digits THEN c - Zero ELSE tolower(c) - LetterA + 10
Positional(s, base) ==
    MapThenSumSet(LAMBDA i : DigitOf(s[i]) * base ^ (Len(s) - i), DOMAIN s)
NumberOf(s) == IF IsBased(s) THEN Positional(Rest(s, 2), Base[s[2]]) ELSE Positional(s, 10)

\* The texts the inside of a literal can stand for: one or none
ShortEscapes == [c \in {Backslash, Quote} |-> c] @@ (Code("n") :> LF) @@ (Code("t") :> HT)
Meanings(s) ==
    LET m[i \in 1 .. Len(s) + 1] ==
            IF i = Len(s) + 1 THEN {<< >>}
            ELSE IF s[i] # Backslash
            THEN IF s[i] \in {LF, Quote} THEN {} ELSE {<<s[i]>> \o t : t \in m[i + 1]}
            ELSE IF i < Len(s) /\ s[i + 1] \in DOMAIN ShortEscapes
            THEN {<<ShortEscapes[s[i + 1]]>> \o t : t \in m[i + 2]}
            ELSE IF i + 3 <= Len(s) /\ All(SubSeq(s, i + 1, i + 3), Digits)
                    /\ Positional(SubSeq(s, i + 1, i + 3), 10) \in 1 .. 255
            THEN {<<Positional(SubSeq(s, i + 1, i + 3), 10)>> \o t : t \in m[i + 4]}
            ELSE {}
    IN  m[1]
Inside(s) == SubSeq(s, 3, Len(s) - 1)
IsString(s) ==
    /\ Len(s) > 2 /\ s[1] = Exclamation /\ s[2] = Quote /\ s[Len(s)] = Quote
    /\ Meanings(Inside(s)) # {}

\* What an interpreter of IFJcode17 reads in the text of a literal
Decoded(s) ==
    LET m[i \in 1 .. Len(s) + 1] ==
            IF i = Len(s) + 1 THEN << >>
            ELSE IF s[i] = Backslash /\ i + 3 <= Len(s)
            THEN <<Positional(SubSeq(s, i + 1, i + 3), 10)>> \o m[i + 4]
            ELSE <<s[i]>> \o m[i + 1]
    IN  m[1]

\* The apostrophes of a comment pair off before one of them can close it.
Closes(s, n) ==
    /\ s[n] = Apostrophe /\ n < Len(s) /\ s[n + 1] = Slash
    /\ \E k \in 3 .. n : /\ All(SubSeq(s, k, n), {Apostrophe})
                         /\ k = 3 \/ s[k - 1] # Apostrophe
                         /\ (n - k) % 2 = 0
IsComment(s) ==
    /\ Len(s) > 3 /\ s[1] = Slash /\ s[2] = Apostrophe
    /\ \A n \in 3 .. Len(s) : Closes(s, n) <=> n = Len(s) - 1
IsBlank(s) == IsComment(s) \/ (Len(s) = 1 /\ s[1] \in Whitespace \ {LF})

IsRestOfLine(s) == s = << >> \/ (s[1] = Apostrophe /\ All(s, AnyChar \ {LF}))
IsLineEnd(s) == s # << >> /\ s[Len(s)] = LF /\ IsRestOfLine(Prefix(s, Len(s) - 1))

IsLexeme(s) ==
    \/ s \in OperatorLexemes
    \/ IsWord(s)
    \/ Some(s, Digits) \/ IsBased(s) \/ IsReal(s)
    \/ IsString(s)
    \/ IsBlank(s) \/ IsLineEnd(s)

IsA(s, id) ==
    CASE id \in DOMAIN Operators -> s = OperatorTexts[id]
      [] id \in {"IDENTIFIER", "KEYWORD"} -> IsWord(s)
      [] id = "INT" -> Some(s, Digits) \/ IsBased(s)
      [] id = "REAL" -> IsReal(s)
      [] id = "STRING" -> IsString(s)
      [] id = "EOL" -> IsLineEnd(s)
      [] id = "EOF" -> IsRestOfLine(s)
      [] id = "blank" -> IsBlank(s)

\* Ends that complete whatever can be completed
Completions ==
    {<< >>, <<LF>>} \cup {Codes(c) : c \in {"0", "\"", "\"\"", "1\"", "01\"", "001\"", "'/", "/", "x'/"}}

\* The text can still become a lexeme.
Viable(s) == \E c \in Completions : IsLexeme(s \o c)
=============================================================================
