--------------------------- MODULE ExprReference ---------------------------
(***************************************************************************)
(* What an expression of the language means, independent of tables and     *)
(* stacks: binary operators by their level and associativity, parsed top   *)
(* down.  It gives the operands and operators in the order a stack machine *)
(* needs them, which determines the tree.  A minus that stands where an    *)
(* operand is expected is unary.                                           *)
(***************************************************************************)
EXTENDS Naturals, Sequences

\* Levels of binary operators, the loosest first; NOT lies between AND and
\* the comparisons, unary minus above all.
Level(op) ==
    CASE op = "OR" -> 1
      [] op = "AND" -> 2
      [] op \in {"EQUAL", "NE", "GT", "GE", "LT", "LE"} -> 4
      [] op \in {"ADD", "SUB"} -> 5
      [] op = "DIVI" -> 6
      [] op \in {"MUL", "DIVR"} -> 7
      [] OTHER -> 0
Comparison == 4
Literals == {"INT", "REAL", "STRING", "TRUE", "FALSE"}

IdAt(s, i) == IF i <= Len(s) THEN s[i].id ELSE "EOF"
Fail == [ok |-> FALSE, next |-> 0, out |-> << >>]
Ok(next, out) == [ok |-> TRUE, next |-> next, out |-> out]

RECURSIVE Expression(_, _, _), Operators(_, _, _, _), Operand(_, _, _), Args(_, _, _)

Then(r, s, id, out) == IF r.ok /\ IdAt(s, r.next) = id THEN Ok(r.next + 1, out) ELSE Fail

\* An operand from position i; notAllowed says whether NOT may start it.
Operand(s, i, notAllowed) ==
    LET id == IdAt(s, i)
    IN  CASE id \in Literals \/ (id = "IDENTIFIER" /\ IdAt(s, i + 1) # "LPAR") ->
                Ok(i + 1, <<s[i].str>>)
          [] id = "IDENTIFIER" /\ IdAt(s, i + 1) = "LPAR" ->
                LET call == <<"CALL", s[i].str>>
                IN  IF IdAt(s, i + 2) = "RPAR" THEN Ok(i + 3, call)
                    ELSE LET args == Args(s, i + 2, << >>)
                         IN  Then(args, s, "RPAR", args.out \o call)
          [] id = "LPAR" ->
                LET inner == Expression(s, i + 1, 1) IN Then(inner, s, "RPAR", inner.out)
          [] id = "SUB" ->
                LET r == Operand(s, i + 1, FALSE)
                IN  IF r.ok THEN Ok(r.next, Append(r.out, "UNARY_MINUS")) ELSE Fail
          [] id = "NOT" /\ notAllowed ->
                LET r == Expression(s, i + 1, Comparison)
                IN  IF r.ok THEN Ok(r.next, Append(r.out, "NOT")) ELSE Fail
          [] OTHER -> Fail

\* One or more expressions separated by commas
Args(s, i, out) ==
    LET arg == Expression(s, i, 1)
    IN  IF arg.ok /\ IdAt(s, arg.next) = "COMMA"
        THEN Args(s, arg.next + 1, out \o arg.out)
        ELSE [arg EXCEPT !.out = out \o @]

\* Operators of at least this level, after the left operand.  Comparisons do
\* not associate.
Operators(s, left, level, compared) ==
    LET op == IdAt(s, left.next)
    IN  CASE ~left.ok -> Fail
          [] left.ok /\ (Level(op) < level \/ Level(op) = 0) -> left
          [] left.ok /\ Level(op) >= level /\ Level(op) = Comparison /\ compared -> Fail
          [] OTHER ->
                LET right == Expression(s, left.next + 1, Level(op) + 1)
                IN  IF right.ok
                    THEN Operators(s, Ok(right.next, left.out \o Append(right.out, op)),
                                   level, Level(op) = Comparison)
                    ELSE Fail

Expression(s, i, level) == Operators(s, Operand(s, i, TRUE), level, FALSE)

\* The longest expression must end at a token that cannot continue one.
EndsHere(id) ==
    id \notin Literals \cup {"IDENTIFIER", "LPAR", "RPAR", "COMMA", "NOT", "LEX_ERROR"}

Meaning(s) ==
    LET r == Expression(s, 1, 1)
    IN  IF r.ok /\ EndsHere(IdAt(s, r.next)) THEN r ELSE Fail
=============================================================================
