---------------------------- MODULE MCExprParser ----------------------------
(***************************************************************************)
(* Instances of ExprParser for model checking, and the comparison of what  *)
(* it accepts with the reference meaning of the same tokens.               *)
(***************************************************************************)
EXTENDS ExprParser, ExprReference

Var(x) == [id |-> "IDENTIFIER", str |-> x]
Op(id) == [id |-> id, str |-> "none"]
Lit(id) == [id |-> id, str |-> id]
Ops(ids) == {Op(id) : id \in ids}
Upto(alphabet, n) == UNION {[1 .. k -> alphabet] : k \in 0 .. n}

MCVarType == [i |-> "INTEGER", d |-> "DOUBLE", s |-> "STRING", b |-> "BOOLEAN"]
MCFuncSig == [f |-> [params |-> <<"INTEGER">>, ret |-> "DOUBLE"],
              g |-> [params |-> <<"STRING", "DOUBLE">>, ret |-> "BOOLEAN"],
              h |-> [params |-> <<"INTEGER", "STRING", "BOOLEAN">>, ret |-> "INTEGER"],
              z |-> [params |-> << >>, ret |-> "STRING"]]

Names == {Var(x) : x \in DOMAIN MCVarType}
BinaryOps == Ops({"ADD", "SUB", "MUL", "DIVI", "DIVR", "EQUAL", "NE", "GT", "GE", "LT", "LE",
                  "AND", "OR"})
PrefixOps == {<< >>, <<Op("NOT")>>, <<Op("SUB")>>}

\* Every short sequence of operators and operands, well-formed or not, and
\* every pair of binary operators with prefix operators at the operands
OperatorInputs ==
    Upto({Var("i"), Var("b")} \cup Ops({"SUB", "MUL", "EQUAL", "NOT", "AND"}), 4)
    \cup {u \o <<x, p>> \o v \o <<x, q, x>> :
            u, v \in PrefixOps, x \in {Var("i"), Var("b")}, p, q \in BinaryOps}

\* Every short sequence of parentheses, commas and names, and calls with more
\* arguments, nested
CallInputs ==
    LET args == {<<Var("i")>>, <<Var("z"), Op("LPAR"), Op("RPAR")>>, <<Op("SUB")>>,
                 <<Op("LPAR"), Var("i"), Op("COMMA"), Var("s"), Op("RPAR")>>,
                 <<Var("f"), Op("LPAR"), Var("i"), Op("RPAR")>>, <<Var("b")>>, <<Var("s")>>}
    IN  Upto({Var("i"), Var("f"), Var("z")} \cup Ops({"LPAR", "RPAR", "COMMA", "SUB"}), 4)
        \cup {<<Var(name), Op("LPAR")>> \o x \o <<Op("COMMA")>> \o y \o <<Op("RPAR")>> :
                name \in {"g", "i"}, x, y \in args}
        \cup {<<Var("h"), Op("LPAR")>> \o x \o <<Op("COMMA")>> \o y \o <<Op("COMMA")>> \o w
                \o <<Op("RPAR"), Op("STEP")>> : x, y, w \in args}

\* Two operators between operands of any type, the second pair in parentheses
\* or not and the first operand negated or not, and calls of functions of one,
\* two and three parameters with arguments of any type
TypeInputs ==
    LET someOps == Ops({"ADD", "DIVI", "DIVR", "NE", "GE", "OR"})
    IN  UNION {{<<x, p, y, q, w>>, <<Op("SUB"), x, p, Op("LPAR"), y, q, w, Op("RPAR")>>} :
                  x, y, w \in Names, p, q \in someOps}
        \cup UNION {{<<Var("h"), Op("LPAR"), x, Op("COMMA"), y, Op("COMMA"), w, Op("RPAR")>>,
                     <<Var("g"), Op("LPAR"), x, Op("COMMA"), y, Op("RPAR"), Op("AND"), w>>,
                     <<Var("f"), Op("LPAR"), Var("f"), Op("LPAR"), x, Op("RPAR"), Op("DIVI"), y,
                       Op("RPAR"), Op("LE"), w>>} : x, y, w \in Names}
        \cup {<<Lit(c), op, Lit(e)>> : c, e \in Constants, op \in BinaryOps}
        \cup {<<Op("LEX_ERROR")>>, <<Var("i"), Op("ADD"), Op("LEX_ERROR")>>, <<Var("undeclared")>>,
              <<Op("NOT"), Var("b")>>, <<Op("NOT"), Var("s")>>, <<Var("undefined"), Op("LPAR"), Op("RPAR")>>}

\* All of these
AllInputs == OperatorInputs \cup CallInputs \cup TypeInputs
-----------------------------------------------------------------------------
(* An accepted expression means what the reference says it means: the same *)
(* tokens are consumed and the operators are emitted in the order the tree *)
(* of the reference demands.                                               *)
AcceptedMeansReference ==
    pc = "done" /\ ret_code = "SUCCESS" =>
        LET meaning == Meaning(source)
        IN  meaning.ok /\ position = meaning.next - 1 /\ emitted = meaning.out

(* A token sequence is refused as a syntax error only if it has no         *)
(* meaning, or a minus directly follows a boolean operator.                *)
BooleanMinus ==
    \E k \in 2 .. Len(source) : source[k].id = "SUB" /\ source[k - 1].id \in {"NOT", "AND", "OR"}

RefusedHasNoMeaning ==
    pc = "done" /\ ret_code = "SYNTAX_ERROR" => ~Meaning(source).ok \/ BooleanMinus

=============================================================================
