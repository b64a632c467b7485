---------------------------- MODULE MCTranslator ----------------------------
(***************************************************************************)
(* Programs to translate, and the declaration a name refers to, read from  *)
(* the text of the program alone.                                          *)
(***************************************************************************)
EXTENDS Translator

Names == {"a", "b", "f", "fo", "i", "o", "oo", "asc", "substr", "length", "chr"}

\* Constants with a value, real ones in halves
Integers4 == {"0", "1", "2", "3"}
Value(word) == CASE word = "0" -> 0 [] word = "1" -> 1 [] word = "2" -> 2 [] word = "3" -> 3
                 [] word = "0.5" -> 1 [] word = "1.5" -> 3 [] word = "2.5" -> 5
Reals == {"0.5", "1.5", "2.5"}
Token(word) ==
    CASE word \in Names -> [id |-> "IDENTIFIER", str |-> word]
      [] word \in Integers4 -> [id |-> "INT", value |-> Value(word)]
      [] word \in Reals -> [id |-> "REAL", value |-> Value(word)]
      [] word \in {"true", "false"} -> [id |-> IF word = "true" THEN "TRUE" ELSE "FALSE", value |-> word = "true"]
      [] OTHER -> [id |-> word]
Text(words) == [k \in DOMAIN words |-> Token(words[k])]

\* The tokens the programs are made of
MCTokens ==
    {Token(word) : word \in Names \cup Integers4 \cup Reals \cup {"true", "false"}}
    \cup {[id |-> t] : t \in UNION {ToSet(r.production) : r \in grammar_rules}
                                 \cup {"INT", "REAL", "STRING", "TRUE", "FALSE", "SUB"}}

\* Blocks around a body
Main(body) == <<"SCOPE", "EOL">> \o body \o <<"END", "SCOPE", "EOL">>
If(body) == <<"IF", "TRUE", "THEN", "EOL">> \o body \o <<"END", "IF", "EOL">>
Else(body1, body2) ==
    <<"IF", "TRUE", "THEN", "EOL">> \o body1 \o <<"ELSE", "EOL">> \o body2 \o <<"END", "IF", "EOL">>
ElseIf(body1, body2) ==
    <<"IF", "TRUE", "THEN", "EOL">> \o body1 \o <<"ELSEIF", "FALSE", "THEN", "EOL">>
    \o body2 \o <<"END", "IF", "EOL">>
Do(body) == <<"DO", "EOL">> \o body \o <<"LOOP", "EOL">>
DoWhile(body) == <<"DO", "WHILE", "TRUE", "EOL">> \o body \o <<"LOOP", "EOL">>
DoUntilEnd(body) == <<"DO", "EOL">> \o body \o <<"LOOP", "UNTIL", "TRUE", "EOL">>
For(name, type, body) ==
    <<"FOR", name, "AS", type, "EQUAL", "INT", "TO", "INT", "EOL">> \o body \o <<"NEXT", "EOL">>
ForStep(name, type, body) ==
    <<"FOR", name, "AS", type, "EQUAL", "INT", "TO", "REAL", "STEP", "INT", "EOL">> \o body
    \o <<"NEXT", name, "EOL">>
Function1(f, params, body) ==
    <<"FUNCTION", f, "LPAR">> \o params \o <<"RPAR", "AS", "KW_INTEGER", "EOL">> \o body
    \o <<"END", "FUNCTION", "EOL">>
Dim(name, type) == <<"DIM", name, "AS", type, "EOL">>
PrintOne == <<"PRINT", "INT", "SEMICOLON", "EOL">>
-----------------------------------------------------------------------------
\* Loops and jumps out of them

Jump1(keyword, loops) == <<keyword>> \o loops \o <<"EOL">>
Jumps == {Jump1(keyword, loops) : keyword \in {"EXIT", "CONTINUE"},
            loops \in {<<"DO">>, <<"FOR">>, <<"DO", "COMMA", "DO">>, <<"FOR", "COMMA", "FOR">>}}
Around(bodies) ==
    UNION {{If(s), Else(PrintOne, s), ElseIf(s, PrintOne), DoUntilEnd(s), DoWhile(s), Do(s),
            For("i", "KW_INTEGER", s), ForStep("i", "KW_DOUBLE", s)} : s \in bodies}
Loops1 == Around(Jumps)
Loops2 == Around(Loops1) \cup Around({s \o PrintOne : s \in Loops1})
LoopPrograms == {Text(Main(s)) : s \in Loops1 \cup Loops2
                                   \cup Around({Do(PrintOne) \o s : s \in Loops1})}
-----------------------------------------------------------------------------
\* Declarations and uses of one name

Use == <<"PRINT", "a", "SEMICOLON", "EOL">>
Declarations == {<< >>, Dim("a", "KW_STRING"), <<"STATIC", "a", "AS", "KW_DOUBLE", "EQUAL", "REAL", "EOL">>}
Inner == {Dim("a", "KW_BOOLEAN") \o Use, Use, <<"INPUT", "a", "EOL">>}
Nested == UNION {{If(s), Else(s, Use), Do(s), For("a", "KW_DOUBLE", s)} : s \in Inner}
Nested2 == UNION {{If(s), Else(Use, s), ForStep("b", "KW_INTEGER", s), For("a", "KW_INTEGER", s)} :
                    s \in Nested}
Bodies == {d \o s \o Use : d \in Declarations, s \in Nested \cup Nested2}
Shared == {<< >>, <<"DIM", "SHARED", "a", "AS", "KW_INTEGER", "EQUAL", "INT", "EOL">>}
NamePrograms ==
    {Text(g \o Main(s)) : g \in Shared, s \in Bodies}
    \cup {Text(g \o Function1("f", p, s) \o Main(Use)) :
            g \in Shared, p \in {<< >>, <<"a", "AS", "KW_BOOLEAN">>}, s \in Bodies}
-----------------------------------------------------------------------------
\* Functions, their declarations, parameters, static variables and returns

Param(name, type) == <<name, "AS", type>>
ParamLists ==
    {<< >>, Param("i", "KW_INTEGER"), Param("i", "KW_STRING"), Param("i", "KW_STRING") \o <<"COMMA">> \o Param("o", "KW_DOUBLE"),
     Param("o", "KW_INTEGER") \o <<"COMMA">> \o Param("i", "KW_INTEGER"),
     Param("i", "KW_BOOLEAN") \o <<"COMMA">> \o Param("i", "KW_BOOLEAN")}
Declare(f, params, type) ==
    <<"DECLARE", "FUNCTION", f, "LPAR">> \o params \o <<"RPAR", "AS", type, "EOL">>
ReturnOf(operand) == <<"RETURN", operand, "EOL">>
Static(name, init) == <<"STATIC", name, "AS", "KW_DOUBLE", "EQUAL", init, "EOL">>
Set1(name, op, operand) == <<name, op, operand, "EOL">>
FunctionBodies ==
    {PrintOne, ReturnOf("i"), ReturnOf("STRING"), Static("oo", "INT") \o ReturnOf("oo"), Static("o", "oo"),
     Dim("o", "KW_STRING") \o Set1("o", "ADD_ASIGN", "STRING"), Set1("i", "DIVI_ASIGN", "INT")}
FunctionPrograms ==
    {Text(d \o Function1("f", p, s) \o Main(PrintOne)) :
        d \in {<< >>} \cup {Declare("f", q, type) : q \in ParamLists, type \in {"KW_INTEGER", "KW_STRING"}},
        p \in ParamLists, s \in FunctionBodies}

\* Two functions, the name of one a prefix of the other's, and programs that
\* are refused
TwoFunctions ==
    {Text(Function1("f", << >>, s) \o Function1("fo", << >>, t) \o Main(PrintOne)) :
        s, t \in {Static(name, "INT") : name \in {"o", "oo", "f"}}}
Refused ==
    {Text(Declare("f", << >>, "KW_INTEGER") \o Main(PrintOne)),
     Text(Function1("f", << >>, PrintOne) \o Function1("f", << >>, PrintOne) \o Main(PrintOne)),
     Text(<<"DIM", "SHARED", "f", "AS", "KW_INTEGER", "EOL">> \o Function1("f", << >>, PrintOne) \o Main(PrintOne))}
    \cup {Text(Main(s)) : s \in {Set1("a", "EQUAL", "INT"), Set1("a", "EQUAL", "EOL"), ReturnOf("INT"),
            Dim("a", "KW_STRING") \o Set1("a", "DIVR_ASIGN", "INT"), <<"SCOPE", "SCOPE">>,
            Dim("a", "KW_STRING") \o Set1("a", "EQUAL", "INT"),
            <<"IF", "INT", "THEN", "EOL", "END", "IF", "EOL">>, <<"PRINT", "INT", "INT">>,
            <<"DO", "WHILE", "INT", "EOL", "LOOP", "EOL">>, <<"DO", "EOL", "LOOP", "WHILE", "INT", "EOL">>,
            <<"FOR", "a", "EQUAL", "INT">>, <<"FOR", "a", "AS", "KW_STRING">>,
            For("i", "KW_INTEGER", <<"EXIT", "FOR", "COMMA", "DO", "EOL">>),
            <<"FOR", "i", "AS", "KW_INTEGER", "EQUAL", "STRING", "TO">>,
            <<"DIM", "SHARED", "a">>}}
    \cup {<< >>}

\* Calls in every place of an expression, right and wrong
CallOf(f, args) == <<f, "LPAR">> \o args \o <<"RPAR">>
PrintCall(f, args) == <<"PRINT">> \o CallOf(f, args) \o <<"SEMICOLON", "EOL">>
Pair == Param("i", "KW_STRING") \o <<"COMMA">> \o Param("o", "KW_DOUBLE")
CallPrograms ==
    {Text(Function1("f", p, ReturnOf("INT")) \o Main(PrintCall(f, args))) :
        p \in {<< >>, Param("i", "KW_INTEGER"), Pair}, f \in {"f", "fo"},
        args \in {<< >>, <<"REAL">>, <<"STRING">>, <<"a">>, <<"STRING", "COMMA", "INT">>,
                 <<"INT", "COMMA", "INT">>, <<"STRING", "COMMA", "a">>}}
    \cup {Text(Function1("f", p, s) \o Main(PrintOne)) :
            p \in {Param("i", "KW_INTEGER")},
            s \in {<<"RETURN">> \o CallOf("f", <<"i">>) \o <<"EOL">>, <<"RETURN", "SUB", "i", "EOL">>,
                  <<"STATIC", "o", "AS", "KW_INTEGER", "EQUAL">> \o CallOf("f", <<"INT">>) \o <<"EOL">>,
                  <<"STATIC", "o", "AS", "KW_INTEGER", "EQUAL">> \o CallOf("f", <<"i">>) \o <<"EOL">>,
                  <<"STATIC", "o", "AS", "KW_DOUBLE", "EQUAL", "SUB", "REAL", "EOL">>}}
    \cup {Text(Main(<<"PRINT", "SUB", t, "SEMICOLON", "EOL">>)) : t \in {"INT", "STRING", "i", "EOL"}}
AllFunctionPrograms == FunctionPrograms \cup CallPrograms \cup TwoFunctions \cup Refused
AllPrograms == LoopPrograms \cup NamePrograms \cup AllFunctionPrograms

-----------------------------------------------------------------------------
(* What a name means at position n of the source: block structure and      *)
(* declarations, "name AS type", are read from the text.                   *)

Block(n) == /\ source[n].id \in BlockKeywords
            /\ n > 1 => source[n - 1].id \notin {"END", "DECLARE", "EXIT", "CONTINUE", "COMMA"}
BlockEnd(n) == source[n].id \in {"LOOP", "NEXT"} \/ (n > 1 /\ source[n - 1].id = "END")
Level(n) == Cardinality({k \in 1 .. n : Block(k)}) - Cardinality({k \in 1 .. n : BlockEnd(k)})

DeclarationsBefore(n, name) ==
    {d \in 1 .. n - 1 : source[d].id = "IDENTIFIER" /\ source[d].str = name
                       /\ source[d + 1].id = "AS"}

\* The block of d is still open at n.
Visible(d, n) ==
    \A k \in d .. n :
        /\ Level(k) >= Level(d)
        /\ Level(k) = Level(d) => source[k].id \notin {"ELSE", "ELSEIF"}

\* FUNCTION occurs twice in a definition.
FunctionsBefore(n) == {k \in 1 .. n : source[k].id = "FUNCTION"}
InFunctionText(n) == Cardinality(FunctionsBefore(n)) % 2 = 1
StaticIn(d, n) == /\ source[d - 1].id = "STATIC" /\ InFunctionText(n)
                  /\ FunctionsBefore(d) = FunctionsBefore(n)

TypeAt(ds) == IF ds = {} THEN "none" ELSE source[Max(ds) + 2].id

(* Blocks in the code generator are created and deleted token by token; a  *)
(* name in an expression must still mean what the text says: the innermost *)
(* iterator of a FOR around it, else a static variable of the function,    *)
(* else the innermost declaration around it, else nothing.  Iterators of   *)
(* loops that ended in the same block are left out: they can still be      *)
(* used.                                                                   *)
NamesMeanWhatTheTextSays ==
    pc = "expression" /\ IsVariable(backlog_token) /\ ~IsCall
    /\ (\A k \in IteratorLoops(parser, backlog_token.str) : ~Stack[k].finished) =>
        LET ds == DeclarationsBefore(delivered, backlog_token.str)
            iterators == {d \in ds : source[d - 1].id = "FOR" /\ Visible(d, delivered)}
            statics == {d \in ds : StaticIn(d, delivered)}
            around == {d \in ds : Visible(d, delivered)}
            type == find_symbol(parser, backlog_token.str).type
        IN  CASE iterators # {} -> type = TypeAt(iterators)
              [] iterators = {} /\ statics # {} -> type = TypeAt(statics)
              [] OTHER -> type = TypeAt(around)
-----------------------------------------------------------------------------
(* A function as the text heads it at position n, the name: the parameters *)
(* up to the parenthesis and the type after it                             *)

Heads(keyword) == {n \in 3 .. Len(source) : source[n - 1].id = "FUNCTION" /\ source[n].id = "IDENTIFIER"
                                            /\ (keyword = "DECLARE" <=> source[n - 2].id = "DECLARE")}
               \cup {n \in {2} \cap DOMAIN source : keyword = "FUNCTION" /\ source[1].id = "FUNCTION"}
HeadEnd(n) == Min({m \in n .. Len(source) : source[m].id = "RPAR"})
ParamsAt(n) == SetToSortSeq({m \in n .. HeadEnd(n) : source[m].id = "AS"}, <)
ParamTypes(n) == [k \in DOMAIN ParamsAt(n) |-> source[ParamsAt(n)[k] + 1].id]
ParamNames(n) == [k \in DOMAIN ParamsAt(n) |-> source[ParamsAt(n)[k] - 1].str]
ReturnType(n) == source[HeadEnd(n) + 2].id

(* In an accepted program every declared function is defined, once and     *)
(* with the parameter and return types of its declaration.                 *)
DeclarationsAreKept ==
    Accepted => \A d \in Heads("DECLARE") :
        LET definitions == {n \in Heads("FUNCTION") : source[n].str = source[d].str}
        IN  /\ Cardinality(definitions) = 1
            /\ \A n \in definitions : /\ ParamTypes(n) = ParamTypes(d)
                                      /\ ReturnType(n) = ReturnType(d)
=============================================================================
