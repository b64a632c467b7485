---------------------------- MODULE ExprGrammar ----------------------------
(***************************************************************************)
(* src/src/expr_grammar.c: the operator-precedence grammar of expressions. *)
(* Token names are those of token.h without their TOKEN_ and KW_ prefixes; *)
(* every token that pt_map_token does not list is an "END" to the table.   *)
(***************************************************************************)
EXTENDS Sequences

Additive == {"ADD", "SUB"}
Relational == {"EQUAL", "NE", "GT", "GE", "LT", "LE"}
Constants == {"INT", "REAL", "STRING", "TRUE", "FALSE"}
Dividing == {"DIVI", "DIVR"}

\* Rows and columns of the precedence table, in classes that share both.
PtIndices == {"ADDSUB", "UNARY_MINUS", "MUL", "DIVI", "DIVR", "REL", "CONST", "ID",
              "NOT", "AND", "OR", "LPAR", "RPAR", "COMMA", "END"}

pt_map_token(t) ==
    CASE t \in Additive -> "ADDSUB"
      [] t \in Relational -> "REL"
      [] t \in Constants -> "CONST"
      [] t = "IDENTIFIER" -> "ID"
      [] t \in {"UNARY_MINUS", "MUL", "DIVI", "DIVR", "NOT", "AND", "OR",
                "LPAR", "RPAR", "COMMA"} -> t
      [] OTHER -> "END"

\* Columns that start an operand, and the ones that only end or continue it.
Starting == {"CONST", "ID", "NOT", "LPAR"}
Ending == {"AND", "OR", "RPAR", "COMMA", "END"}

Closing == {"RPAR", "COMMA", "END"}

\* Mutated: integer division on the level of multiplication
TighterWithoutLevel(row) ==
    CASE row = "REL" -> {"ADDSUB", "UNARY_MINUS", "MUL", "DIVI", "DIVR"}
      [] row = "ADDSUB" -> {"UNARY_MINUS", "MUL", "DIVI", "DIVR"}
      [] row \in {"MUL", "DIVI", "DIVR"} -> {"UNARY_MINUS"}

\* Operators that bind tighter than those of a row
Tighter(row) ==
    CASE row = "REL" -> {"ADDSUB", "UNARY_MINUS", "MUL", "DIVI", "DIVR"}
      [] row = "ADDSUB" -> {"UNARY_MINUS", "MUL", "DIVI", "DIVR"}
      [] row = "DIVI" -> {"UNARY_MINUS", "MUL", "DIVR"}
      [] row \in {"MUL", "DIVR"} -> {"UNARY_MINUS"}

\* Columns with '<' in a row: EXPR_HANDLE_MARKER
ShiftColumns(row) ==
    CASE row \in {"REL", "ADDSUB", "DIVI", "MUL", "DIVR"} -> Starting \cup Tighter(row)
      [] row = "UNARY_MINUS" -> (Starting \ {"NOT"}) \cup {"UNARY_MINUS"}
      [] row \in {"CONST", "ID", "RPAR"} -> {}
      [] row \in {"NOT", "AND"} -> PtIndices \ Ending
      [] row = "OR" -> PtIndices \ (Ending \ {"AND"})
      [] row = "LPAR" -> PtIndices \ {"RPAR", "END"}
      [] row \in {"COMMA", "END"} -> PtIndices \ Closing

\* Columns with '>' in a row: EXPR_REDUCE_MARKER
ReduceColumns(row) ==
    CASE row \in {"ADDSUB", "UNARY_MINUS", "MUL", "DIVI", "DIVR"} ->
                PtIndices \ ShiftColumns(row)
      [] row = "REL" -> Ending
      [] row \in {"CONST", "ID"} ->
                PtIndices \ (Starting \cup {"UNARY_MINUS"})
      [] row \in {"NOT", "AND"} -> Ending
      [] row = "OR" -> Ending \ {"AND"}
      [] row = "RPAR" -> PtIndices \ {"CONST", "ID", "LPAR"}
      [] row = "COMMA" -> {"RPAR", "COMMA"}
      [] row \in {"LPAR", "END"} -> {}

\* GET_ACTION: what to do when t follows, top being the topmost terminal
GET_ACTION(top, t) ==
    LET row == pt_map_token(top)
        column == pt_map_token(t)
    IN  CASE column \in ShiftColumns(row) -> "HANDLE"
          [] column \in ReduceColumns(row) -> "REDUCE"
          [] <<row, column>> \in {<<"ID", "LPAR">>, <<"LPAR", "RPAR">>} -> "PUSH"
          [] row = "END" /\ column = "END" -> "SUCCESS"
          [] OTHER -> "ERROR"

\* The rules: what is reduced, right-hand side reversed as on the stack (the
\* top comes first), to which nonterminal, with which semantic action.
Rule(sem_action, nt, productions) ==
    {[for_nt |-> nt, sem_action |-> sem_action, production |-> p] : p \in productions}

Binary(operators) == {<<"NT_EXPRESSION", op, "NT_EXPRESSION">> : op \in operators}

rules ==
    LET E == "NT_EXPRESSION"
        L == "NT_LIST"
    IN  UNION {
        Rule("sem_expr_func", E, {<<"RPAR", "LPAR", "IDENTIFIER">>,
                                  <<"RPAR", E, "LPAR", "IDENTIFIER">>,
                                  <<"RPAR", L, "LPAR", "IDENTIFIER">>}),
        Rule("sem_expr_list_expr", L, {<<E, "COMMA", L>>}),
        Rule("sem_expr_list", L, {<<E, "COMMA", E>>}),
        Rule("sem_expr_id", E, {<<"IDENTIFIER">>}),
        Rule("sem_expr_const", E, {<<c>> : c \in Constants}),
        Rule("sem_expr_brackets", E, {<<"RPAR", E, "LPAR">>}),
        Rule("sem_expr_unary", E, {<<E, "UNARY_MINUS">>}),
        Rule("sem_expr_aritmetic_basic", E, Binary(Additive \cup {"MUL"})),
        Rule("sem_expr_div", E, Binary(Dividing)),
        Rule("sem_expr_eq_ne", E, Binary({"EQUAL", "NE"})),
        Rule("sem_expr_lte_gte", E, Binary(Relational \ {"EQUAL", "NE"})),
        Rule("sem_expr_and_or_not", E, {<<E, "NOT">>} \cup Binary({"AND", "OR"}))}
=============================================================================
