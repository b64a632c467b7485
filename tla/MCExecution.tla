---------------------------- MODULE MCExecution -----------------------------
(***************************************************************************)
(* Programs to translate and run, and how often a FOR loop runs.           *)
(***************************************************************************)
EXTENDS ProgramMeaning, Execution

Let(name, op, operand) == <<name, op, operand, "EOL">>
PrintVar(name) == <<"PRINT", name, "SEMICOLON", "EOL">>
Declared(name, type, init) == <<"DIM", name, "AS", type, "EQUAL", init, "EOL">>

\* Assignments between numbers, and of strings
AssignPrograms ==
    {Text(Main(Dim("a", type) \o Let("a", op, operand) \o Declared("b", other, "a") \o Let("b", "EQUAL", "a")
               \o PrintVar("b"))) :
        type, other \in Numbers, op \in AssignOperators, operand \in {"INT", "REAL"}}
    \cup {Text(Main(Dim("a", "KW_STRING") \o Let("a", op, "STRING") \o PrintVar("a"))) :
            op \in {"EQUAL", "ADD_ASIGN"}}

\* Blocks and jumps out of them, with a name declared in a scope of its own
Blocks ==
    {If(PrintOne), Else(PrintOne, Let("a", "ADD_ASIGN", "INT")), ElseIf(PrintOne, PrintOne), DoWhile(PrintOne),
     DoUntilEnd(PrintOne), Do(If(Jump1("EXIT", <<"DO">>))), DoWhile(Jump1("CONTINUE", <<"DO">>)),
     DoUntilEnd(If(Jump1("CONTINUE", <<"DO">>))), For("i", "KW_INTEGER", Let("a", "EQUAL", "i")),
     ForStep("i", "KW_DOUBLE", If(Jump1("EXIT", <<"FOR">>))),
     For("i", "KW_INTEGER", If(Jump1("CONTINUE", <<"FOR">>))),
     <<"FOR", "a", "EQUAL", "INT", "TO", "REAL", "EOL">> \o PrintVar("a") \o <<"NEXT", "a", "EOL">>,
     <<"INPUT", "a", "EOL">>}
BlockPrograms ==
    {Text(shared \o Main(Dim("a", type) \o s \o t \o PrintVar("a"))) :
        shared \in Shared, type \in Numbers, s \in Blocks, t \in {<< >>, DoWhile(If(Jump1("EXIT", <<"DO">>)))}}
    \cup {Text(Main(Dim("a", type) \o For("i", "KW_DOUBLE", s) \o PrintVar("a"))) :
            type \in Numbers, s \in Blocks}

\* Functions of one and two parameters, a static variable, calls within calls,
\* and the built-in functions but substr, whose loops count
FunctionOf(params, type, body) ==
    <<"FUNCTION", "f", "LPAR">> \o params \o <<"RPAR", "AS", type, "EOL">> \o body
    \o <<"END", "FUNCTION", "EOL">>
SaveCall(f, args) == <<"o", "EQUAL">> \o CallOf(f, args) \o <<"EOL">>
CalledPrograms ==
    {Text(FunctionOf(Param("i", type), ret, s) \o Main(PrintOne \o Dim("o", other) \o SaveCall("f", <<arg>>)
                                                        \o PrintVar("o"))) :
        type, ret, other \in Numbers, arg \in {"INT", "REAL"},
        s \in {PrintVar("i"), ReturnOf("i"), If(ReturnOf("INT")) \o Let("i", "DIVI_ASIGN", "REAL"),
              Static("oo", "INT") \o Let("oo", "ADD_ASIGN", "i") \o ReturnOf("oo"),
              For("a", "KW_INTEGER", If(ReturnOf("a"))), For("a", "KW_DOUBLE", PrintVar("a")),
              If(<<"RETURN">> \o CallOf("f", <<"i">>) \o <<"EOL">>)}}
    \cup {Text(FunctionOf(Param("a", "KW_STRING") \o <<"COMMA">> \o Param("b", type), "KW_STRING", ReturnOf("a"))
               \o Main(Dim("o", "KW_STRING") \o SaveCall("f", <<"o", "COMMA", arg>>) \o PrintVar("o"))) :
            type \in Numbers, arg \in {"INT", "REAL"}}
    \cup {Text(Main(Dim("o", "KW_INTEGER") \o SaveCall("length", <<"STRING">>) \o PrintVar("o")
                    \o PrintCall("asc", <<"STRING", "COMMA", "INT">>))),
          Text(Main(PrintOne \o PrintCall("chr", <<"REAL">>)))}
-----------------------------------------------------------------------------
\* FOR loops over known numbers
Signed == {<<n>> : n \in Integers4} \cup {<<"SUB", n>> : n \in {"1", "2", "0.5", "2.5"}} \cup {<<"1.5">>}
ForPrograms ==
    {Text(Main(<<"FOR", "i", "AS", type, "EQUAL">> \o a \o <<"TO">> \o b \o s \o <<"EOL">> \o PrintVar("i")
               \o <<"NEXT", "EOL">>)) :
        type \in Numbers, a \in {<<"1">>, <<"2.5">>, <<"SUB", "0.5">>}, b \in Signed,
        s \in {<< >>, <<"STEP", "0">>, <<"STEP", "2">>, <<"STEP", "0.5">>, <<"STEP", "1.5">>,
               <<"STEP", "SUB", "1">>, <<"STEP", "SUB", "1.5">>}}

\* The number after a keyword, in the type of the iterator, in halves
Place(keyword) == CHOOSE k \in DOMAIN source : source[k].id = keyword
After(keyword) ==
    LET n == Place(keyword)
        t == IF source[n + 1].id = "SUB" THEN source[n + 2] ELSE source[n + 1]
        halves == (IF source[n + 1].id = "SUB" THEN -1 ELSE 1)
                  * (IF t.id = "INT" THEN 2 * t.value ELSE t.value)
    IN  IF source[Place("AS") + 1].id = "KW_DOUBLE" THEN halves ELSE 2 * RoundEven(halves)
HasStep == \E k \in DOMAIN source : source[k].id = "STEP"
StepOfLoop == IF HasStep THEN After("STEP") ELSE 2

\* The rounds of the loop, up to the bound
Expected ==
    Cardinality({k \in 0 .. MaxRounds - 1 :
        LET i == After("EQUAL") + k * StepOfLoop
        IN  IF StepOfLoop >= 0 THEN i <= After("TO") ELSE i >= After("TO")})

(* A FOR loop runs once for every number from the first to the last one in *)
(* distance of the step, in the type of its iterator, for ever if the step *)
(* is 0, not at all if the last number is on the wrong side.               *)
KnownFor == source \in ForPrograms
ForRunsItsRounds ==
    KnownFor => /\ rounds <= Expected
                /\ Ended => rounds = Expected
-----------------------------------------------------------------------------
\* Programs over a shared number o, in which the marks passed are counted in
\* the order they are passed, and a shared Boolean a

Mark(n) == <<"o", "MUL_ASIGN", "3", "EOL", "o", "ADD_ASIGN", n, "EOL">>
SetA(b) == <<"a", "EQUAL", b, "EOL">>
IfA(s) == <<"IF", "a", "THEN", "EOL">> \o s \o <<"END", "IF", "EOL">>
Chain(c, s, d, t, u) ==
    <<"IF", c, "THEN", "EOL">> \o s \o <<"ELSEIF", d, "THEN", "EOL">> \o t \o <<"ELSE", "EOL">> \o u
    \o <<"END", "IF", "EOL">>
DoTest(first, s, last) == <<"DO">> \o first \o <<"EOL">> \o s \o <<"LOOP">> \o last \o <<"EOL">>
Tested(s) ==
    {DoTest(<<"WHILE", "a">>, s \o SetA("false"), << >>), DoTest(<<"UNTIL", "a">>, s \o SetA("true"), << >>),
     DoTest(<< >>, s \o SetA("false"), <<"WHILE", "a">>), DoTest(<< >>, s \o SetA("true"), <<"UNTIL", "a">>)}
Untested(s) == {DoTest(<< >>, s \o Jump1("EXIT", <<"DO">>), << >>)}
Counted(i, s) ==
    {<<"FOR", i, "AS", "KW_INTEGER", "EQUAL", "0", "TO", "1", "EOL">> \o s \o <<"NEXT", "EOL">>,
     <<"FOR", i, "AS", "KW_DOUBLE", "EQUAL", "2", "TO", "1.5", "STEP", "SUB", "0.5", "EOL">> \o s
     \o <<"NEXT", i, "EOL">>}
Branches == {Chain(c, Mark("1"), d, Mark("2"), SetA("false")) : c, d \in {"true", "false", "a"}}
Leave(keyword, loops) == IfA(SetA("false") \o Jump1(keyword, loops)) \o Mark("1")
EitherWay(loops) == {Leave(keyword, loops) : keyword \in {"EXIT", "CONTINUE"}}
Once ==
    UNION {Tested(s) \cup Untested(s) \cup Counted("i", s) : s \in {c \o Mark("1") : c \in Branches}}
    \cup UNION {Tested(s) : s \in EitherWay(<<"DO">>)} \cup Untested(Leave("EXIT", <<"DO">>))
    \cup UNION {Counted("i", s) : s \in EitherWay(<<"FOR">>)}

\* Loops in loops, and jumps out of one or both of them
InnerDo ==
    UNION {Tested(s) : s \in EitherWay(<<"DO">>) \cup EitherWay(<<"DO", "COMMA", "DO">>)}
    \cup UNION {Untested(Leave("EXIT", loops)) : loops \in {<<"DO">>, <<"DO", "COMMA", "DO">>}}
InnerFor == UNION {Counted("i", s) : s \in EitherWay(<<"FOR">>) \cup EitherWay(<<"FOR", "COMMA", "FOR">>)}
Mixed == EitherWay(<<"DO">>) \cup EitherWay(<<"FOR">>)
InLoops ==
    UNION {Tested(s \o Mark("2")) : s \in InnerDo \cup UNION {Counted("i", s) : s \in Mixed}}
    \cup UNION {Counted("b", s \o Mark("2")) : s \in InnerFor \cup UNION {Tested(s) : s \in Mixed}}
SharedOA(b) == <<"DIM", "SHARED", "o", "AS", "KW_INTEGER", "EQUAL", "1", "EOL">>
               \o <<"DIM", "SHARED", "a", "AS", "KW_BOOLEAN", "EQUAL", b, "EOL">>
MeaningPrograms ==
    {Text(SharedOA(b) \o Main(s \o Mark("1"))) : b \in {"true", "false"}, s \in Branches \cup Once \cup InLoops}

(* A program that is run to its end leaves what it means: every branch and *)
(* every round is the one its text says, and EXIT and CONTINUE leave and   *)
(* go on with the loop they name.  Where it jumps backwards it has not     *)
(* passed more marks than it will in the end, and o grows with each, so    *)
(* that no loop with a mark in it goes on for ever.                        *)
Meaningful == source[1].id = "DIM" /\ source[3] = Token("o")
JumpsBack == Runs({"JUMP", "JUMPIFEQ", "JUMPIFNEQ"}) /\ Target < ip
ProgramsMeanWhatTheySay ==
    Meaningful =>
        /\ JumpsBack => globals["o"].value[1] <= Outcome["o"].value
        /\ Ended => globals["o"].value[1] = Outcome["o"].value
-----------------------------------------------------------------------------
RunnablePrograms == AssignPrograms \cup BlockPrograms \cup CalledPrograms \cup ForPrograms \cup MeaningPrograms

\* test/test_files/syntax/basic/10.code, "Scope inside scope"
ScopePrograms == {Text(Main(Dim("a", "KW_INTEGER") \o Main(s))) : s \in {PrintOne, PrintVar("a"), Dim("a", "KW_DOUBLE")}}
=============================================================================
