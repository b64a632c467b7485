------------------------------- MODULE Scanner -------------------------------
(***************************************************************************)
(* src/src/scanner.c: the automaton that makes tokens of characters, its   *)
(* buffer, and the backlog of one token.  A step of the model is one       *)
(* character read.  The file is read lazily: what is not read yet is open. *)
(* The client is the two parsers, which take turns and give back a token   *)
(* that is the other one's, each token once at most.                       *)
(***************************************************************************)
EXTENDS Ascii, Buffer, SequencesExt

CONSTANTS
    Texts,          \* how files begin and go on: [begin, alphabet, more]
    IntBits,        \* width of int
    LongBits        \* width of unsigned long; more than a character has

ASSUME WidthAssumption == IntBits \in Nat \ {0} /\ LongBits \in Nat /\ LongBits >= IntBits /\ LongBits > 8

\* A file is a text: it has no binary zero.
ASSUME TextAssumption ==
    Texts \subseteq [begin : Seq(1 .. 255), alphabet : SUBSET (1 .. 255), more : Nat]

VARIABLES
    file,           \* [text, ended, alphabet, more]: what was read so far,
                    \* whether its end was, and what may come
    pos,            \* characters consumed
    state,          \* of the automaton, or "client" outside scanner_get_token
    buffer,         \* scanner->buffer
    backlog,        \* scanner->backlog_token
    line,           \* scanner->line
    fresh,          \* the client's last token was not given back yet
    got,            \* history: the tokens the client has
    from,           \* history: where the automaton was in its first state
    pieces          \* history: how the text was cut, blanks included

vars == <<file, pos, state, buffer, backlog, line, fresh, got, from, pieces>>

NoToken == [id |-> "none", data |-> << >>]
Last0(s) == IF s = << >> THEN NoToken ELSE Last(s)

Init ==
    /\ \E t \in Texts :
         file = [text |-> t.begin, ended |-> FALSE, alphabet |-> t.alphabet, more |-> t.more]
    /\ pos = 0
    /\ state = "client"
    /\ buffer = buffer_init(BUFFER_CHUNK)
    /\ backlog = NoToken
    /\ line = 1
    /\ fresh = FALSE
    /\ got = << >>
    /\ from = 0
    /\ pieces = << >>
-----------------------------------------------------------------------------
(* The automaton: where a character leads, and what it adds to the buffer. *)

To(target, keep) == [to |-> target, keep |-> keep]
Skip(chars) == [c \in chars |-> << >>]
Raw(chars) == [c \in chars |-> <<c>>]
Lower(chars) == [c \in chars |-> <<tolower(c)>>]
As(char, code) == [c \in OneOf(char) |-> <<code>>]
On(char, target) == To(target, Skip(OneOf(char)))

WordChars == Letters \cup Digits
Hexa == Digits \cup Between("a", "f") \cup Between("A", "F")

FirstMoves ==
    {To("s", Skip(Whitespace \ {LF})), To("EOL", Skip({LF})), To("end_of_file", Skip({EOF})),
     To("identifier", Lower(Letters)), To("integer", Lower(Digits)),
     On(";", "semicolon"), On(",", "comma"), On("=", "equal"), On("(", "left_par"),
     On(")", "right_par"), On("/", "div_real"), On("\\", "div_int"), On("*", "mul"),
     On("+", "add"), On("-", "sub"), On("<", "lt"), On(">", "gt"), On("!", "string_start"),
     On("'", "line_comment"), On("&", "base")}

OperatorMoves ==
    [div_real |-> {On("'", "block_comment"), On("=", "divr_asign")},
     div_int |-> {On("=", "divi_asign")},
     mul |-> {On("=", "mul_asign")},
     add |-> {On("=", "add_asign")},
     sub |-> {On("=", "sub_asign")},
     lt |-> {On("=", "le"), On(">", "ne")},
     gt |-> {On("=", "ge")}]

\* Mutated: a comment that is not closed is read for ever.
CommentCharOrEnd == AnyChar \cup {EOF}

CommentChar == AnyChar

CommentMoves ==
    [block_comment |-> {On("'", "block_comment_end"),
                        To("block_comment", Skip(CommentChar \ OneOf("'")))},
     block_comment_end |-> {On("/", "s"), To("block_comment", Skip(CommentChar \ OneOf("/")))},
     line_comment |-> {To("EOL", Skip({LF})), To("end_of_file", Skip({EOF})),
                       To("line_comment", Skip(CommentChar \ {LF}))}]

NumberMoves ==
    [integer |-> {To("integer", Lower(Digits)), To("fraction", Lower(OneOf("."))),
                  To("exponent", Lower(OneOf("eE")))},
     exponent |-> {To("sign", Lower(OneOf("+-"))), To("real_exp", Lower(Digits))},
     sign |-> {To("real_exp", Lower(Digits))},
     fraction |-> {To("real", Lower(Digits))},
     real |-> {To("exponent", Lower(OneOf("eE"))), To("real", Lower(Digits))},
     real_exp |-> {To("real_exp", Lower(Digits))},
     base |-> {To("binary", Skip(OneOf("bB"))), To("octal", Skip(OneOf("oO"))),
               To("hexa", Skip(OneOf("hH")))},
     binary |-> {To("int_bin", Lower(OneOf("01")))},
     octal |-> {To("int_octal", Lower(Between("0", "7")))},
     hexa |-> {To("int_hexa", Lower(Hexa))},
     int_bin |-> {To("int_bin", Lower(OneOf("01")))},
     int_octal |-> {To("int_octal", Lower(Between("0", "7")))},
     int_hexa |-> {To("int_hexa", Lower(Hexa))}]

\* Mutated: the largest characters are not let in.
FirstEscapeDigitsBut2 == Between("0", "1")

FirstEscapeDigits == Between("0", "2")

StringMoves ==
    [string_start |-> {On("\"", "string")},
     string |-> {On("\\", "escape_seq"), On("\"", "string_end"),
                 To("string", Raw(AnyChar \ (OneOf("\\\"") \cup {LF})))},
     escape_seq |-> {To("esc_num_one", Raw(FirstEscapeDigits)), To("string", Raw(OneOf("\"\\"))),
                     To("string", As("n", LF)), To("string", As("t", HT))},
     esc_num_one |-> {To("esc_num_two", Raw(Digits))},
     esc_num_two |-> {To("escape_code", Raw(Digits))}]

WordMoves == [s |-> FirstMoves, identifier |-> {To("identifier", Lower(WordChars))}]

Moves ==
    [q \in UNION {DOMAIN WordMoves, DOMAIN OperatorMoves, DOMAIN CommentMoves,
                  DOMAIN NumberMoves, DOMAIN StringMoves} |->
        CASE q \in DOMAIN WordMoves -> WordMoves[q]
          [] q \in DOMAIN OperatorMoves -> OperatorMoves[q]
          [] q \in DOMAIN CommentMoves -> CommentMoves[q]
          [] q \in DOMAIN NumberMoves -> NumberMoves[q]
          [] q \in DOMAIN StringMoves -> StringMoves[q]]

\* States that return without reading.  Those named for an assignment stand
\* for the return on reading its equals sign.
EndStates ==
    [semicolon |-> "SEMICOLON", EOL |-> "EOL", comma |-> "COMMA", equal |-> "EQUAL",
     left_par |-> "LPAR", right_par |-> "RPAR", ne |-> "NE", le |-> "LE", ge |-> "GE",
     divr_asign |-> "DIVR_ASIGN", divi_asign |-> "DIVI_ASIGN", mul_asign |-> "MUL_ASIGN",
     add_asign |-> "ADD_ASIGN", sub_asign |-> "SUB_ASIGN", string_end |-> "STRING",
     end_of_file |-> "EOF"]

\* What a state returns when the character is none of its own
Accepts ==
    [div_real |-> "DIVR", div_int |-> "DIVI", mul |-> "MUL", add |-> "ADD", sub |-> "SUB",
     lt |-> "LT", gt |-> "GT", integer |-> "INT", real |-> "REAL", real_exp |-> "REAL",
     binary |-> "INT", octal |-> "INT", hexa |-> "INT", int_bin |-> "INT",
     int_octal |-> "INT", int_hexa |-> "INT"]
-----------------------------------------------------------------------------
(* What a token holds: a sequence of codes, or of one number.              *)

KeywordTexts ==
    {"as", "and", "do", "dim", "declare", "double", "else", "end", "elseif", "exit",
     "function", "false", "for", "if", "input", "integer", "loop", "next", "not", "scope",
     "string", "step", "shared", "static", "then", "to", "true", "while", "or", "print",
     "return", "boolean", "until", "continue"}

Keywords == {Codes(w) : w \in KeywordTexts}

\* The ids of keywords are one here, and their texts tell them apart.
get_string_token(s) == IF s \in Keywords THEN "KEYWORD" ELSE "IDENTIFIER"

DigitValue(c) == IF c \in Digits THEN c - Code("0") ELSE 10 + c - Code("a")

\* strtoul stops at the largest unsigned long.
strtoul(s, radix) ==
    LET n[i \in 0 .. Len(s)] ==
            IF i = 0 THEN 0
            ELSE LET m == n[i - 1] * radix + DigitValue(s[i])
                 IN  IF m < 2 ^ LongBits THEN m ELSE 2 ^ LongBits - 1
    IN  n[Len(s)]

\* The low bits of a number, read as a signed int
ToInt(n) ==
    LET low == n % 2 ^ IntBits
    IN  IF low < 2 ^ (IntBits - 1) THEN low ELSE low - 2 ^ IntBits

\* Mutated: only blank characters are escaped.
OnlyBlanks == 0 .. 32

Unprintable == 0 .. 32 \cup OneOf("#\\")

\* sprintf "\\%03d"
Escape(c) == Codes("\\") \o [i \in 1 .. 3 |-> Code("0") + <<c \div 100, (c \div 10) % 10, c % 10>>[i]]

\* The buffer after every character, in a set of one
convert_white_char(s) ==
    LET Printed(c) == IF c \in Unprintable THEN Escape(c) ELSE <<c>>
        filled[i \in 0 .. Len(s)] ==
            IF i = 0 THEN {buffer_init(Len(s))}
            ELSE {buffer_append_str(b, Printed(s[i])) : b \in filled[i - 1]}
    IN  CHOOSE text \in {CString(b) : b \in filled[Len(s)]} : TRUE

Radix == [integer |-> 10, int_bin |-> 2, int_octal |-> 8, int_hexa |-> 16]

IdOf(q, b) ==
    IF q = "identifier" THEN get_string_token(CString(b))
    ELSE IF q \in DOMAIN EndStates THEN EndStates[q]
    ELSE IF q \in DOMAIN Accepts THEN Accepts[q]
    ELSE "LEX_ERROR"

DataOf(q, b) ==
    CASE IdOf(q, b) \in {"KEYWORD", "IDENTIFIER", "REAL"} -> CString(b)    \* strtod reads all of it
      [] IdOf(q, b) = "STRING" -> convert_white_char(CString(b))
      [] q \in DOMAIN Radix -> <<ToInt(strtoul(CString(b), Radix[q]))>>
      [] IdOf(q, b) = "INT" /\ q \notin DOMAIN Radix -> <<0>>
      [] OTHER -> << >>

TokenOf(q, b) == [id |-> IdOf(q, b), data |-> DataOf(q, b)]
-----------------------------------------------------------------------------
(* The stream: getc, where ungetc is not to consume.                       *)

CanRead(c) ==
    \/ pos < Len(file.text) /\ c = file.text[pos + 1]
    \/ pos = Len(file.text) /\ ~file.ended /\ file.more > 0 /\ c \in file.alphabet
    \/ pos = Len(file.text) /\ c = EOF

Known(c) ==
    IF pos < Len(file.text) THEN file
    ELSE IF c = EOF THEN [file EXCEPT !.ended = TRUE]
    ELSE [file EXCEPT !.text = Append(@, c), !.more = @ - 1]

After(c) == IF c = EOF THEN pos ELSE pos + 1

\* The piece that ends here, and the token of it
Cut(token, to) == Append(pieces, [id |-> token.id, data |-> token.data, from |-> from, to |-> to])

Give(token) ==
    /\ got' = Append(got, token)
    /\ fresh' = TRUE
    /\ state' = "client"

\* At most one character
Appended(b, s) == IF s = << >> THEN b ELSE buffer_append_c(b, s[1])
-----------------------------------------------------------------------------
(* scanner_get_token                                                       *)

NoBacklog == NoToken

GetBacklog ==
    /\ state = "client" /\ backlog # NoToken
    /\ backlog' = NoBacklog
    /\ got' = Append(got, backlog)
    /\ fresh' = FALSE
    /\ UNCHANGED <<file, pos, state, buffer, line, from, pieces>>

Waiting == backlog # NoToken

\* The client stops at the end of the file and at an error.
StartToken ==
    /\ state = "client" /\ ~Waiting
    /\ Last0(got).id \notin {"EOF", "LEX_ERROR"}
    /\ state' = "s"
    /\ buffer' = buffer_clear(buffer)
    /\ from' = pos
    /\ UNCHANGED <<file, pos, backlog, line, fresh, got, pieces>>

\* One of the characters the state waits for
Move ==
    /\ state \in DOMAIN Moves
    /\ \E m \in Moves[state] : \E c \in DOMAIN m.keep :
         /\ CanRead(c)
         /\ file' = Known(c)
         /\ pos' = After(c)
         /\ state' = m.to
         /\ buffer' = Appended(buffer, m.keep[c])
         /\ IF m.to = "s"
            THEN from' = After(c) /\ pieces' = Cut([id |-> "blank", data |-> << >>], After(c))
            ELSE UNCHANGED <<from, pieces>>
    /\ UNCHANGED <<backlog, line, fresh, got>>

\* Mutated: the character behind the token is lost.
PushBackNever(c) == After(c)

\* ungetc, except in the first state
PushBack(c) == IF state = "s" THEN After(c) ELSE pos

\* Any other character
Otherwise ==
    /\ state \in DOMAIN Moves
    /\ \E c \in file.alphabet \cup AnyChar \cup {EOF} :
         /\ \A m \in Moves[state] : c \notin DOMAIN m.keep
         /\ CanRead(c)
         /\ file' = Known(c)
         /\ pos' = PushBack(c)
         /\ pieces' = Cut(TokenOf(state, buffer), PushBack(c))
    /\ Give(TokenOf(state, buffer))
    /\ UNCHANGED <<buffer, backlog, line, from>>

EndState ==
    /\ state \in DOMAIN EndStates
    /\ pieces' = Cut(TokenOf(state, buffer), pos)
    /\ Give(TokenOf(state, buffer))
    /\ line' = IF state = "EOL" THEN line + 1 ELSE line
    /\ UNCHANGED <<file, pos, buffer, backlog, from>>

\* The value of the last three digits
EscapeValue == strtoul(SubSeq(CString(buffer), buffer.len - 2, buffer.len), 10)

DropDigits(b) == [Write(b, b.len - 3, NUL) EXCEPT !.len = @ - 3]

EscapeCode ==
    /\ state = "escape_code" /\ EscapeValue \in 1 .. 255
    /\ buffer' = buffer_append_c(DropDigits(buffer), EscapeValue)
    /\ state' = "string"
    /\ UNCHANGED <<file, pos, backlog, line, fresh, got, from, pieces>>

EscapeFails ==
    /\ state = "escape_code" /\ EscapeValue \notin 1 .. 255
    /\ pieces' = Cut(TokenOf(state, buffer), pos)
    /\ Give(TokenOf(state, buffer))
    /\ UNCHANGED <<file, pos, buffer, backlog, line, from>>

scanner_unget_token ==
    /\ state = "client" /\ fresh /\ Last0(got).id # "LEX_ERROR"
    /\ backlog' = Last(got)
    /\ got' = Front(got)
    /\ fresh' = FALSE
    /\ UNCHANGED <<file, pos, state, buffer, line, from, pieces>>

Next ==
    \/ GetBacklog \/ StartToken \/ Move \/ Otherwise \/ EndState
    \/ EscapeCode \/ EscapeFails \/ scanner_unget_token

Spec == Init /\ [][Next]_vars /\ WF_vars(Next)
-----------------------------------------------------------------------------
(* The buffer always holds a C string of the length it keeps, while the    *)
(* digits of an escape are put on and taken off again, and nothing is      *)
(* written behind its end.                                                 *)
BufferHoldsString == HoldsString(buffer)

(* Every file is read to its end or to an error.                           *)
ScansToEnd == <>(state = "client" /\ Last0(got).id \in {"EOF", "LEX_ERROR"})
=============================================================================
