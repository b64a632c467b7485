--------------------------- MODULE ProgramMeaning ---------------------------
(***************************************************************************)
(* What a program does, read from its text alone: a statement takes the    *)
(* values of the variables and gives their new values and how it ended.    *)
(* For programs over integers and Booleans whose loops end.                *)
(***************************************************************************)
EXTENDS MCTranslator

Typed(type, value) == [type |-> type, value |-> value]
HalfToEven(halves) ==
    IF halves % 2 = 0 \/ (halves \div 2) % 2 = 0 THEN halves \div 2 ELSE (halves \div 2) + 1
InType(type, v) ==
    CASE type = v.type -> v
      [] type = "KW_DOUBLE" /\ v.type = "KW_INTEGER" -> Typed(type, 2 * v.value)
      [] type = "KW_INTEGER" /\ v.type = "KW_DOUBLE" -> Typed(type, HalfToEven(v.value))

\* The values, and what a statement asks of those around it: nothing, to leave
\* or to go on with the n-th loop of a kind, or to return a value
Ending(values, how, loop, n, result) ==
    [values |-> values, how |-> how, loop |-> loop, n |-> n, result |-> result]
Normal(values) == Ending(values, "normal", "none", 0, Typed("none", 0))
Bind(values, name, v) == [x \in DOMAIN values \cup {name} |-> IF x = name THEN v ELSE values[x]]
-----------------------------------------------------------------------------
\* Places in the text: the next line, the end of a block, and the keyword at
\* which a branch of the IF at n that begins before k ends
LineAfter(n) == 1 + Min({m \in n .. Len(source) : source[m].id = "EOL"})
EndOfBlock(n) == Min({m \in n + 1 .. Len(source) : BlockEnd(m) /\ Level(m) = Level(n) - 1})
BranchAfter(n, k) ==
    Min({m \in k + 1 .. EndOfBlock(n) :
            m = EndOfBlock(n) \/ (source[m].id \in {"ELSE", "ELSEIF"} /\ Level(m) = Level(n))})
StatementAfter(n) ==
    IF Block(n) THEN LineAfter(EndOfBlock(n)) ELSE LineAfter(n)
BodyOf(f) == LineAfter(CHOOSE n \in Heads("FUNCTION") : source[n].str = f)

\* An EXIT or CONTINUE reaches a loop of a kind.
Reaches(e, how, loop) == e.how = how /\ e.loop = loop /\ e.n = 1
LoopGoesOn(e, loop) == e.how = "normal" \/ Reaches(e, "CONTINUE", loop)
LeaveLoop(e, loop) ==
    CASE Reaches(e, "EXIT", loop) -> Normal(e.values)
      [] e.loop = loop /\ e.n > 1 -> [e EXCEPT !.n = @ - 1]
      [] OTHER -> e
-----------------------------------------------------------------------------
RECURSIVE Statements(_, _), Statement(_, _), Branch(_, _, _), DoRounds(_, _), ForRounds(_, _, _, _),
          ValueAt(_, _)

\* The expression that begins at n: a constant, a variable, minus one of
\* these, or a call with one argument
ValueAt(n, values) ==
    LET t == source[n]
    IN  CASE t.id = "SUB" -> LET v == ValueAt(n + 1, values) IN Typed(v.type, -v.value)
          [] t.id = "IDENTIFIER" /\ source[n + 1].id = "LPAR" ->
                LET head == CHOOSE h \in Heads("FUNCTION") : source[h].str = t.str
                    argument == InType(ParamTypes(head)[1], ValueAt(n + 2, values))
                    e == Statements(BodyOf(t.str), Bind(<< >>, ParamNames(head)[1], argument))
                IN  InType(ReturnType(head), IF e.how = "RETURN" THEN e.result ELSE Typed("KW_INTEGER", 0))
          [] t.id = "IDENTIFIER" /\ source[n + 1].id # "LPAR" -> values[t.str]
          [] OTHER -> Typed(ConstantType(t.id), t.value)

\* From n to the end of the block
Statements(n, values) ==
    IF source[n].id \in SequenceEnd THEN Normal(values)
    ELSE LET e == Statement(n, values)
         IN  IF e.how = "normal" THEN Statements(StatementAfter(n), e.values) ELSE e

\* The branch of the IF at n whose keyword is at k
Branch(n, k, values) ==
    CASE k = EndOfBlock(n) -> Normal(values)
      [] source[k].id = "ELSE" -> Statements(LineAfter(k), values)
      [] OTHER -> IF ValueAt(k + 1, values).value THEN Statements(LineAfter(k), values)
                  ELSE Branch(n, BranchAfter(n, k), values)

\* A test is behind the keyword DO or LOOP at n; without one the loop goes on.
TestHolds(n, values) ==
    CASE source[n + 1].id = "WHILE" -> ValueAt(n + 2, values).value
      [] source[n + 1].id = "UNTIL" -> ~ValueAt(n + 2, values).value
      [] OTHER -> TRUE
DoRounds(n, values) ==
    IF ~TestHolds(n, values) THEN Normal(values)
    ELSE LET e == Statements(LineAfter(n), values)
         IN  CASE ~LoopGoesOn(e, "DO") -> LeaveLoop(e, "DO")
               [] LoopGoesOn(e, "DO") /\ TestHolds(EndOfBlock(n), e.values) -> DoRounds(n, e.values)
               [] OTHER -> Normal(e.values)

\* The iterator has its value already.
ForRounds(n, values, last, step) ==
    LET name == source[n + 1].str
        i == values[name].value
        e == Statements(LineAfter(n), values)
    IN  CASE (step >= 0 /\ i > last) \/ (step < 0 /\ i < last) -> Normal(values)
          [] LoopGoesOn(e, "FOR") ->
                ForRounds(n, [e.values EXCEPT ![name].value = @ + step], last, step)
          [] OTHER -> LeaveLoop(e, "FOR")

KeywordIn(n, keyword) == {m \in n .. LineAfter(n) - 1 : source[m].id = keyword}
ForLoop(n, values) ==
    LET declared == KeywordIn(n, "AS")
        type == IF declared # {} THEN source[Min(declared) + 1].id ELSE values[source[n + 1].str].type
        number(keyword) == InType(type, ValueAt(Min(KeywordIn(n, keyword)) + 1, values))
        step == IF KeywordIn(n, "STEP") = {} THEN InType(type, Typed("KW_INTEGER", 1)) ELSE number("STEP")
    IN  ForRounds(n, Bind(values, source[n + 1].str, number("EQUAL")), number("TO").value, step.value)

Assigned(op, old, v) ==
    CASE op = "EQUAL" -> InType(old.type, v)
      [] op = "ADD_ASIGN" -> Typed(old.type, old.value + v.value)
      [] op = "SUB_ASIGN" -> Typed(old.type, old.value - v.value)
      [] op = "MUL_ASIGN" -> Typed(old.type, old.value * v.value)

Statement(n, values) ==
    LET t == source[n]
    IN  CASE t.id = "IDENTIFIER" ->
                Normal(Bind(values, t.str, Assigned(source[n + 1].id, values[t.str], ValueAt(n + 2, values))))
          [] t.id = "IF" -> Branch(n, n, values)
          [] t.id = "DO" -> DoRounds(n, values)
          [] t.id = "FOR" -> ForLoop(n, values)
          [] t.id \in {"EXIT", "CONTINUE"} ->
                Ending(values, t.id, source[n + 1].id,
                       1 + Cardinality(KeywordIn(n, "COMMA")), Typed("none", 0))
          [] t.id = "RETURN" -> Ending(values, "RETURN", "none", 0, ValueAt(n + 1, values))
          [] OTHER -> Normal(values)

\* The shared variables are declared with a constant each, in the first lines.
SharedValues ==
    LET at(n) == ValueAt(n + 6, << >>)
        shared == {n \in DOMAIN source : source[n].id = "DIM" /\ source[n + 1].id = "SHARED"}
    IN  [x \in {source[n + 2].str : n \in shared} |-> at(CHOOSE n \in shared : source[n + 2].str = x)]
MainScope == Min({n \in DOMAIN source : source[n].id = "SCOPE"})
Outcome == Statements(LineAfter(MainScope), SharedValues).values
=============================================================================
