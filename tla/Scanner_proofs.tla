--------------------------- MODULE Scanner_proofs ---------------------------
(***************************************************************************)
(* Proofs about Scanner: the buffer holds a string in every state, because *)
(* no state keeps a binary zero, and because the three digits that the end *)
(* of an escape takes off were put on in the three states before it.       *)
(***************************************************************************)
EXTENDS Scanner, Buffer_proofs

FileChar == 1 .. 255
FileType == [text : Seq(FileChar), ended : BOOLEAN, alphabet : SUBSET FileChar, more : Int]

\* The digits of an escape that are in the buffer
DigitsKept(q) ==
    IF q = "esc_num_one" THEN 1 ELSE IF q = "esc_num_two" THEN 2
    ELSE IF q = "escape_code" THEN 3 ELSE 0

IInv ==
    /\ file \in FileType
    /\ pos \in Nat
    /\ IsString(buffer)
    /\ buffer.len >= DigitsKept(state)
-----------------------------------------------------------------------------
(* What a move keeps of a character of a file: nothing or one character,   *)
(* never a binary zero; and a move into an escape keeps one digit.         *)

NothingOrOne == {<< >>} \cup {<<c>> : c \in Char}

Keeps(m) ==
    \A c \in DOMAIN m.keep : c \in FileChar \cup {EOF} => m.keep[c] \in NothingOrOne

Plain(m) == Keeps(m) /\ DigitsKept(m.to) = 0

\* From this state, one digit more
NextDigit(m, q) ==
    /\ Keeps(m)
    /\ \A c \in DOMAIN m.keep : Len(m.keep[c]) = 1
    /\ DigitsKept(m.to) = DigitsKept(q) + 1

LEMMA WhatMovesKeep ==
    ASSUME NEW target, NEW chars
    PROVE  /\ Keeps(To(target, Skip(chars))) /\ Keeps(To(target, Raw(chars)))
           /\ Keeps(To(target, Lower(chars)))
           /\ \A char : Keeps(On(char, target)) /\ \A code \in Char : Keeps(To(target, As(char, code)))
           /\ \A c \in DOMAIN To(target, Raw(chars)).keep : Len(To(target, Raw(chars)).keep[c]) = 1
<1>1. \A c \in FileChar \cup {EOF} : c \in Char /\ tolower(c) \in Char
  BY DEF FileChar, EOF, Char, NUL, tolower
<1>2. \A char : Keeps(On(char, target))
  BY DEF Keeps, On, To, Skip, NothingOrOne
<1>3. \A char : \A code \in Char : Keeps(To(target, As(char, code)))
  BY DEF Keeps, To, As, NothingOrOne
<1>4. Keeps(To(target, Skip(chars)))
  BY DEF Keeps, To, Skip, NothingOrOne
<1>5. Keeps(To(target, Raw(chars)))
  BY <1>1 DEF Keeps, To, Raw, NothingOrOne
<1>6. Keeps(To(target, Lower(chars)))
  BY <1>1 DEF Keeps, To, Lower, NothingOrOne
<1>7. \A c \in DOMAIN To(target, Raw(chars)).keep : Len(To(target, Raw(chars)).keep[c]) = 1
  BY DEF To, Raw
<1> QED BY <1>2, <1>3, <1>4, <1>5, <1>6, <1>7

LEMMA PlainMoves ==
    ASSUME NEW target, DigitsKept(target) = 0
    PROVE  /\ \A chars : /\ Plain(To(target, Skip(chars))) /\ Plain(To(target, Raw(chars)))
                         /\ Plain(To(target, Lower(chars))) /\ Plain(On(chars, target))
           /\ \A char : \A code \in Char : Plain(To(target, As(char, code)))
<1>1. \A keep : To(target, keep).to = target
  BY DEF To
<1>2. \A chars : On(chars, target).to = target
  BY DEF On, To
<1> QED BY <1>1, <1>2, WhatMovesKeep DEF Plain

LEMMA MovesOfWords == \A q \in DOMAIN WordMoves : \A m \in WordMoves[q] : Plain(m)
<1>1. \A target \in {"s", "EOL", "end_of_file", "identifier", "integer", "semicolon", "comma",
                     "equal", "left_par", "right_par", "div_real", "div_int", "mul", "add", "sub",
                     "lt", "gt", "string_start", "line_comment", "base"} : DigitsKept(target) = 0
  BY DEF DigitsKept
<1>2. \A m \in FirstMoves : Plain(m)
  BY <1>1, PlainMoves DEF FirstMoves
<1>3. \A m \in {To("identifier", Lower(WordChars))} : Plain(m)
  BY <1>1, PlainMoves
<1> QED BY <1>2, <1>3 DEF WordMoves

LEMMA MovesOfOperators == \A q \in DOMAIN OperatorMoves : \A m \in OperatorMoves[q] : Plain(m)
<1>1. \A target \in {"block_comment", "divr_asign", "divi_asign", "mul_asign", "add_asign",
                     "sub_asign", "le", "ne", "ge"} : DigitsKept(target) = 0
  BY DEF DigitsKept
<1> QED BY <1>1, PlainMoves DEF OperatorMoves

LEMMA MovesOfComments == \A q \in DOMAIN CommentMoves : \A m \in CommentMoves[q] : Plain(m)
<1>1. \A target \in {"block_comment", "block_comment_end", "s", "EOL", "end_of_file",
                     "line_comment"} : DigitsKept(target) = 0
  BY DEF DigitsKept
<1> QED BY <1>1, PlainMoves DEF CommentMoves

LEMMA MovesOfNumbers == \A q \in DOMAIN NumberMoves : \A m \in NumberMoves[q] : Plain(m)
<1>1. \A target \in {"integer", "fraction", "exponent", "sign", "real_exp", "real", "binary",
                     "octal", "hexa", "int_bin", "int_octal", "int_hexa"} : DigitsKept(target) = 0
  BY DEF DigitsKept
<1> QED BY <1>1, PlainMoves DEF NumberMoves

LEMMA MovesOfStrings ==
    \A q \in DOMAIN StringMoves : \A m \in StringMoves[q] : Plain(m) \/ NextDigit(m, q)
<1>1. \A target \in {"string", "escape_seq", "string_end"} : DigitsKept(target) = 0
  BY DEF DigitsKept
<1>2. LF \in Char /\ HT \in Char
  BY DEF LF, HT, Char, NUL
<1>3. /\ NextDigit(To("esc_num_one", Raw(FirstEscapeDigits)), "escape_seq")
      /\ NextDigit(To("esc_num_two", Raw(Digits)), "esc_num_one")
      /\ NextDigit(To("escape_code", Raw(Digits)), "esc_num_two")
  <2>1. \A target, keep : To(target, keep).to = target
    BY DEF To
  <2>2. /\ DigitsKept("esc_num_one") = DigitsKept("escape_seq") + 1
        /\ DigitsKept("esc_num_two") = DigitsKept("esc_num_one") + 1
        /\ DigitsKept("escape_code") = DigitsKept("esc_num_two") + 1
    BY DEF DigitsKept
  <2> QED BY <2>1, <2>2, WhatMovesKeep DEF NextDigit
<1>4. \A m \in StringMoves["string_start"] : Plain(m)
  BY <1>1, PlainMoves DEF StringMoves
<1>5. \A m \in StringMoves["string"] : Plain(m)
  BY <1>1, PlainMoves DEF StringMoves
<1>6. \A m \in StringMoves["escape_seq"] : Plain(m) \/ NextDigit(m, "escape_seq")
  BY <1>1, <1>2, <1>3, PlainMoves DEF StringMoves
<1>7. \A m \in StringMoves["esc_num_one"] : NextDigit(m, "esc_num_one")
  BY <1>3 DEF StringMoves
<1>8. \A m \in StringMoves["esc_num_two"] : NextDigit(m, "esc_num_two")
  BY <1>3 DEF StringMoves
<1>9. DOMAIN StringMoves = {"string_start", "string", "escape_seq", "esc_num_one", "esc_num_two"}
  BY DEF StringMoves
<1> QED BY <1>4, <1>5, <1>6, <1>7, <1>8, <1>9

LEMMA EveryMove ==
    ASSUME NEW q \in DOMAIN Moves, NEW m \in Moves[q]
    PROVE  Plain(m) \/ NextDigit(m, q)
<1>1. q \in UNION {DOMAIN WordMoves, DOMAIN OperatorMoves, DOMAIN CommentMoves,
                   DOMAIN NumberMoves, DOMAIN StringMoves}
  BY DEF Moves
<1>2. Moves[q] =
        CASE q \in DOMAIN WordMoves -> WordMoves[q]
          [] q \in DOMAIN OperatorMoves -> OperatorMoves[q]
          [] q \in DOMAIN CommentMoves -> CommentMoves[q]
          [] q \in DOMAIN NumberMoves -> NumberMoves[q]
          [] q \in DOMAIN StringMoves -> StringMoves[q]
  BY <1>1 DEF Moves
<1>3. \/ q \in DOMAIN WordMoves /\ Moves[q] = WordMoves[q]
      \/ q \in DOMAIN OperatorMoves /\ Moves[q] = OperatorMoves[q]
      \/ q \in DOMAIN CommentMoves /\ Moves[q] = CommentMoves[q]
      \/ q \in DOMAIN NumberMoves /\ Moves[q] = NumberMoves[q]
      \/ q \in DOMAIN StringMoves /\ Moves[q] = StringMoves[q]
  BY <1>1, <1>2
<1> QED BY <1>3, MovesOfWords, MovesOfOperators, MovesOfComments, MovesOfNumbers, MovesOfStrings
-----------------------------------------------------------------------------
(* The stream gives characters of the file, or its end.                    *)

LEMMA WhatIsRead ==
    ASSUME IInv, NEW c, CanRead(c)
    PROVE  c \in FileChar \cup {EOF} /\ Known(c) \in FileType /\ After(c) \in Nat
<1>1. /\ file \in FileType /\ pos \in Nat
      /\ file.text \in Seq(FileChar) /\ file.alphabet \subseteq FileChar /\ file.more \in Int
  BY DEF IInv, FileType
<1>2. Len(file.text) \in Nat /\ \A i \in 1 .. Len(file.text) : file.text[i] \in FileChar
  BY <1>1
<1>3. pos < Len(file.text) => file.text[pos + 1] \in FileChar
  BY <1>1, <1>2
<1>4. c \in FileChar \cup {EOF} /\ (pos >= Len(file.text) /\ c # EOF => c \in FileChar)
  BY <1>1, <1>2, <1>3 DEF CanRead
<1>5. Known(c) \in FileType
  <2>1. CASE pos < Len(file.text)
    BY <1>1, <2>1 DEF Known
  <2>2. CASE ~(pos < Len(file.text)) /\ c = EOF
    BY <1>1, <2>2 DEF Known, FileType
  <2>3. CASE ~(pos < Len(file.text)) /\ c # EOF
    <3>1. Append(file.text, c) \in Seq(FileChar) /\ file.more - 1 \in Int
      BY <1>1, <1>4, <2>3
    <3>2. [file EXCEPT !.text = Append(file.text, c), !.more = file.more - 1] \in FileType
      BY <1>1, <3>1 DEF FileType
    <3> QED BY <2>3, <3>2 DEF Known
  <2> QED BY <2>1, <2>2, <2>3
<1> QED BY <1>1, <1>4, <1>5 DEF After

LEMMA KeepingAString ==
    ASSUME NEW b, IsString(b), NEW s \in NothingOrOne
    PROVE  IsString(Appended(b, s)) /\ Appended(b, s).len = b.len + Len(s)
<1>1. b.len \in Nat
  BY Fields DEF IsString
<1>2. CASE s = << >>
  BY <1>1, <1>2 DEF Appended
<1>3. CASE s # << >>
  <2>1. PICK c \in Char : s = <<c>>
    BY <1>3 DEF NothingOrOne
  <2>2. s[1] = c /\ Len(s) = 1 /\ s # << >> /\ Len(<<c>>) = 1
    BY <2>1
  <2>3. Appended(b, s) = buffer_append_c(b, c)
    BY <2>2 DEF Appended
  <2>4. Longer(buffer_append_c(b, c), b, <<c>>)
    BY AppendingACharacter
  <2> QED BY <2>2, <2>3, <2>4 DEF Longer
<1> QED BY <1>2, <1>3

(* Three digits are taken off the end of a string that has them.           *)
LEMMA DigitsTakenOff ==
    ASSUME NEW b, IsString(b), b.len >= 3
    PROVE  IsString(DropDigits(b))
<1> DEFINE n == b.len - 3
           v == Write(b, n, NUL)
           t == [b.str EXCEPT ![n] = NUL]
<1>1. BufferIs(b, b.str, b.len, b.buffer_size) /\ StringIn(b.str, b.len, b.buffer_size)
  BY DEF IsString
<1>2. /\ b.len \in Nat /\ b.buffer_size \in Nat /\ b.len < b.buffer_size
      /\ DOMAIN b.str = 0 .. b.buffer_size - 1 /\ \A i \in 0 .. b.len - 1 : b.str[i] # NUL
  BY <1>1, Fields DEF StringIn
<1>3. n \in Nat /\ n \in 0 .. b.buffer_size - 1 /\ NUL \in Int /\ n < b.buffer_size /\ n <= b.len
  BY <1>2 DEF NUL
<1> HIDE DEF n
<1>4. BufferIs(v, t, b.len, b.buffer_size)
  BY <1>1, <1>3, CellWritten
<1>5. StringIn(t, n, b.buffer_size)
  <2>1. \A i \in 0 .. n - 1 : i # n /\ i \in 0 .. b.len - 1 /\ i \in 0 .. b.buffer_size - 1
    BY <1>2, <1>3
  <2> QED BY <1>2, <1>3, <2>1 DEF StringIn
<1> HIDE DEF v, t
<1>6. DropDigits(b) = [v EXCEPT !.len = n]
  <2>1. v.len = b.len
    BY <1>4, Fields
  <2> QED BY <1>4, <2>1 DEF DropDigits, v, n, BufferIs
<1>7. BufferIs([v EXCEPT !.len = n], t, n, b.buffer_size)
  BY <1>3, <1>4, LengthSet
<1> QED BY <1>5, <1>6, <1>7, IsStringWhen
-----------------------------------------------------------------------------
(* The invariant                                                           *)

LEMMA AtInit == Init => IInv
<1> SUFFICES ASSUME Init PROVE IInv
  OBVIOUS
<1>1. PICK t \in Texts :
        file = [text |-> t.begin, ended |-> FALSE, alphabet |-> t.alphabet, more |-> t.more]
  BY DEF Init
<1>2. t \in [begin : Seq(1 .. 255), alphabet : SUBSET (1 .. 255), more : Nat]
  BY TextAssumption
<1>3. file \in FileType
  BY <1>1, <1>2 DEF FileType, FileChar
<1>4. IsString(buffer) /\ buffer.len = 0
  BY BufferChunkAssumption, InitHoldsNothing DEF Init
<1>5. pos \in Nat /\ DigitsKept(state) = 0
  BY DEF Init, DigitsKept
<1> QED BY <1>3, <1>4, <1>5 DEF IInv

LEMMA AtClient == \A q : q \in {"client", "s", "string"} => DigitsKept(q) = 0
BY DEF DigitsKept

LEMMA AnyStep == IInv /\ [Next]_vars => IInv'
<1> SUFFICES ASSUME IInv, [Next]_vars PROVE IInv'
  OBVIOUS
<1>1. /\ file \in FileType /\ pos \in Nat /\ IsString(buffer) /\ buffer.len >= DigitsKept(state)
      /\ buffer.len \in Nat
  <2>1. IsString(buffer)
    BY DEF IInv
  <2> QED BY <2>1, Fields DEF IInv, IsString
<1>2. CASE GetBacklog
  BY <1>1, <1>2 DEF GetBacklog, IInv
<1>3. CASE StartToken
  <2>1. IsString(buffer_clear(buffer)) /\ buffer_clear(buffer).len = 0
    BY <1>1, ClearingHoldsNothing
  <2>2. /\ file' = file /\ pos' = pos /\ state' = "s" /\ buffer' = buffer_clear(buffer)
    BY <1>3 DEF StartToken
  <2> QED BY <1>1, <2>1, <2>2, AtClient DEF IInv
<1>4. CASE Move
  <2>1. PICK m \in Moves[state] : \E c \in DOMAIN m.keep :
          /\ CanRead(c)
          /\ file' = Known(c) /\ pos' = After(c) /\ state' = m.to
          /\ buffer' = Appended(buffer, m.keep[c])
    BY <1>4 DEF Move
  <2>2. PICK c \in DOMAIN m.keep :
          /\ CanRead(c)
          /\ file' = Known(c) /\ pos' = After(c) /\ state' = m.to
          /\ buffer' = Appended(buffer, m.keep[c])
    BY <2>1
  <2>3. Plain(m) \/ NextDigit(m, state)
    BY <1>4, EveryMove DEF Move
  <2>4. c \in FileChar \cup {EOF} /\ file' \in FileType /\ pos' \in Nat
    BY <2>2, WhatIsRead
  <2>5. m.keep[c] \in NothingOrOne
    BY <2>3, <2>4 DEF Plain, NextDigit, Keeps
  <2>6. IsString(buffer') /\ buffer'.len = buffer.len + Len(m.keep[c])
    BY <1>1, <2>2, <2>5, KeepingAString
  <2>7. Len(m.keep[c]) \in Nat
    BY <2>5 DEF NothingOrOne
  <2>8. buffer'.len >= DigitsKept(state')
    <3>1. CASE Plain(m)
      BY <1>1, <2>2, <2>6, <2>7, <3>1 DEF Plain
    <3>2. CASE NextDigit(m, state)
      <4>1. Len(m.keep[c]) = 1 /\ DigitsKept(state') = DigitsKept(state) + 1
        BY <2>2, <3>2 DEF NextDigit
      <4>2. DigitsKept(state) \in Nat
        BY DEF DigitsKept
      <4> QED BY <1>1, <2>6, <4>1, <4>2
    <3> QED BY <2>3, <3>1, <3>2
  <2> QED BY <2>4, <2>6, <2>8 DEF IInv
<1>5. CASE Otherwise
  <2>1. PICK c : CanRead(c) /\ file' = Known(c) /\ pos' = PushBack(c)
    BY <1>5 DEF Otherwise
  <2>2. file' \in FileType /\ pos' \in Nat
    BY <1>1, <2>1, WhatIsRead DEF PushBack
  <2>3. buffer' = buffer /\ state' = "client"
    BY <1>5 DEF Otherwise, Give
  <2> QED BY <1>1, <2>2, <2>3, AtClient DEF IInv
<1>6. CASE EndState
  <2>1. file' = file /\ pos' = pos /\ buffer' = buffer /\ state' = "client"
    BY <1>6 DEF EndState, Give
  <2> QED BY <1>1, <2>1, AtClient DEF IInv
<1>7. CASE EscapeCode
  <2>1. /\ state = "escape_code" /\ EscapeValue \in 1 .. 255
        /\ buffer' = buffer_append_c(DropDigits(buffer), EscapeValue)
        /\ file' = file /\ pos' = pos /\ state' = "string"
    BY <1>7 DEF EscapeCode
  <2>2. buffer.len >= 3
    BY <1>1, <2>1 DEF DigitsKept
  <2>3. IsString(DropDigits(buffer)) /\ EscapeValue \in Char
    BY <1>1, <2>1, <2>2, DigitsTakenOff DEF Char, NUL
  <2>4. Longer(buffer', DropDigits(buffer), <<EscapeValue>>)
    BY <2>1, <2>3, AppendingACharacter
  <2>5. IsString(buffer')
    BY <2>4 DEF Longer
  <2>6. buffer'.len \in Nat
    BY <2>5, Fields DEF IsString
  <2> QED BY <1>1, <2>1, <2>5, <2>6, AtClient DEF IInv
<1>8. CASE EscapeFails
  <2>1. file' = file /\ pos' = pos /\ buffer' = buffer /\ state' = "client"
    BY <1>8 DEF EscapeFails, Give
  <2> QED BY <1>1, <2>1, AtClient DEF IInv
<1>9. CASE scanner_unget_token
  BY <1>1, <1>9 DEF scanner_unget_token, IInv
<1>10. CASE UNCHANGED vars
  BY <1>1, <1>10 DEF vars, IInv
<1> QED BY <1>2, <1>3, <1>4, <1>5, <1>6, <1>7, <1>8, <1>9, <1>10 DEF Next

(* The buffer of the scanner holds a C string of the length it keeps after *)
(* every character, also while the digits of an escape are in it, whatever *)
(* the text and however the buffer grows.                                  *)
THEOREM BufferStaysAString == Spec => []BufferHoldsString
<1>1. IInv => BufferHoldsString
  BY LengthIsKept DEF IInv, BufferHoldsString
<1> QED BY <1>1, AtInit, AnyStep, PTL DEF Spec
=============================================================================
