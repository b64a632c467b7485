------------------------------ MODULE MCScanner ------------------------------
(***************************************************************************)
(* Scanner on every short text over small alphabets, one for each part of  *)
(* the automaton, compared with the description of lexemes.                *)
(***************************************************************************)
EXTENDS Scanner, Lexemes

Family(begin, chars, more) == [begin |-> Codes(begin), alphabet |-> OneOf(chars), more |-> more]
WithLF(f) == [f EXCEPT !.alphabet = @ \cup {LF}]

Families ==
    {Family("", "diM_5 ", 4), Family("", "19.E- ", 5), Family("&", "bOH179F", 4),
     WithLF(Family("!\"", "\\\"25n#", 4)), Family("!\"\\", "\\\"0256", 5), Family("!\"ab", "\\25\"", 5),
     WithLF(Family("", "/'=<>", 4)), WithLF(Family("/'", "'/x", 5))}
Words == {WithLF(Family(w, "s=", 1)) : w \in KeywordTexts \ {"do", "dim"}}
Singles == {[begin |-> <<c>>, alphabet |-> {Code("="), Code("0")}, more |-> 1] : c \in 1 .. 127}
MCTexts == Families \cup Words \cup Singles
-----------------------------------------------------------------------------
Piece == Last(pieces)
JustCut == pieces # << >> /\ state \in {"client", "s"} /\ pos = Piece.to
PieceText == SubSeq(file.text, Piece.from + 1, Piece.to)
IsNext == Piece.to < Len(file.text)
WithNext == Append(PieceText, file.text[Piece.to + 1])

(* The pieces cover the text from its beginning, each is a lexeme of the   *)
(* kind of its token, and no lexeme begins there and goes on.              *)
LongestLexemes ==
    JustCut /\ Piece.id # "LEX_ERROR" =>
        /\ Piece.from = (IF Len(pieces) = 1 THEN 0 ELSE pieces[Len(pieces) - 1].to)
        /\ IsA(PieceText, Piece.id)
        /\ Piece.id = "KEYWORD" <=> Lowered(PieceText) \in Keywords
        /\ Piece.id # "blank" /\ IsNext => ~Viable(WithNext)
        /\ Piece.id = "EOF" => file.ended /\ ~IsNext

(* A text is refused only where no lexeme goes on.                         *)
ErrorsAreHopeless ==
    JustCut /\ Piece.id = "LEX_ERROR" =>
        /\ ~IsLexeme(PieceText)
        /\ ~Viable(PieceText) \/ (IsNext /\ ~Viable(WithNext)) \/ file.ended

(* A token holds what its text means: a number that fits an int its value, *)
(* a literal a text that the interpreter reads as the literal's.           *)
TokensMeanTheirText ==
    JustCut =>
        CASE Piece.id = "INT" ->
               NumberOf(PieceText) < 2 ^ (IntBits - 1) => Piece.data = <<NumberOf(PieceText)>>
          [] Piece.id \in {"KEYWORD", "IDENTIFIER", "REAL"} -> Piece.data = Lowered(PieceText)
          [] Piece.id = "STRING" ->
               /\ Meanings(Inside(PieceText)) = {Decoded(Piece.data)}
               /\ \A c \in Whitespace \cup OneOf("#") : ~Contains(Piece.data, c)
          [] OTHER -> Piece.data = << >>
=============================================================================
