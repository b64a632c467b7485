------------------------------ MODULE Grammar ------------------------------
(***************************************************************************)
(* src/src/grammar.c: the LL(1) grammar of programs and statements.  The   *)
(* code numbers the rules and its LL table maps a nonterminal and a token  *)
(* to a number; here a rule carries the tokens whose entry in the row of   *)
(* its nonterminal is its number.  Token names are those of token.h        *)
(* without TOKEN_ and KW_, names of types keep KW_.                        *)
(***************************************************************************)
EXTENDS Sequences

Rule(nt, selected, sem_action, production) ==
    [for_nt |-> nt, selected |-> selected, sem_action |-> sem_action,
     production |-> production]

\* Rules of one nonterminal: one rule for each token, deriving that token
Tokens(nt, tokens) == {Rule(nt, {t}, "none", <<t>>) : t \in tokens}

Types == {"KW_INTEGER", "KW_DOUBLE", "KW_STRING", "KW_BOOLEAN"}
AssignOperators == {"EQUAL", "SUB_ASIGN", "ADD_ASIGN", "MUL_ASIGN", "DIVI_ASIGN", "DIVR_ASIGN"}

\* Tokens that start a statement, an empty one included
StatementStart == {"DIM", "STATIC", "IDENTIFIER", "IF", "SCOPE", "DO", "FOR", "PRINT", "INPUT",
                   "RETURN", "EXIT", "CONTINUE", "EOL"}

\* Mutated: the entry of NT_STMT_SEQ for ELSEIF is missing.
SequenceEndButElseif == {"ELSE", "END", "LOOP", "NEXT"}

\* Tokens that end a sequence of statements
SequenceEnd == {"ELSE", "END", "LOOP", "ELSEIF", "NEXT"}

\* Rules 1 to 8: the program
ProgramRules == {
    Rule("NT_LINE", {"DECLARE", "DIM", "FUNCTION", "SCOPE", "EOL"}, "none",
         <<"NT_GLOBAL_STMT", "NT_SCOPE_STMT", "NT_LINE_END">>),
    Rule("NT_LINE_END", {"EOL"}, "none", <<"EOL", "NT_LINE_END">>),
    Rule("NT_LINE_END", {"EOF"}, "none", << >>),
    Rule("NT_GLOBAL_STMT", {"DECLARE"}, "none", <<"NT_FUNC_DECL", "EOL", "NT_GLOBAL_STMT">>),
    Rule("NT_GLOBAL_STMT", {"FUNCTION"}, "none", <<"NT_FUNC_DEF", "EOL", "NT_GLOBAL_STMT">>),
    Rule("NT_GLOBAL_STMT", {"DIM"}, "none", <<"NT_SHARED_VAR", "EOL", "NT_GLOBAL_STMT">>),
    Rule("NT_GLOBAL_STMT", {"EOL"}, "none", <<"EOL", "NT_GLOBAL_STMT">>),
    Rule("NT_GLOBAL_STMT", {"SCOPE"}, "none", << >>)}

\* Rules 9 to 22: statements and their sequences
StatementRules ==
    LET Inner(selected, nt) == Rule("NT_INNER_STMT", selected, "none", <<nt>>)
    IN  {Inner({"DIM", "STATIC"}, "NT_VAR_DECL"), Inner({"IDENTIFIER"}, "NT_ASSIGNMENT"),
         Inner({"IF"}, "NT_IF_STMT"), Inner({"SCOPE"}, "NT_SCOPE_STMT"),
         Inner({"DO"}, "NT_DO_STMT"), Inner({"FOR"}, "NT_FOR_STMT"),
         Inner({"PRINT"}, "NT_PRINT_STMT"), Inner({"INPUT"}, "NT_INPUT_STMT"),
         Inner({"RETURN"}, "NT_RETURN_STMT"), Inner({"EXIT"}, "NT_EXIT_STMT"),
         Inner({"CONTINUE"}, "NT_CONTINUE_STMT"),
         Rule("NT_INNER_STMT", {"EOL"}, "none", << >>),
         Rule("NT_STMT_SEQ", StatementStart, "none", <<"NT_INNER_STMT", "EOL", "NT_STMT_SEQ">>),
         Rule("NT_STMT_SEQ", SequenceEnd, "none", << >>)}

\* Rules 23 to 39: variables and functions
DeclarationRules == {
    Rule("NT_VAR_DECL", {"DIM"}, "sem_var_decl", <<"DIM", "NT_VAR_DEF">>),
    Rule("NT_VAR_DECL", {"STATIC"}, "sem_var_decl", <<"STATIC", "NT_VAR_DEF">>),
    Rule("NT_SHARED_VAR", {"DIM"}, "sem_var_decl", <<"DIM", "SHARED", "NT_VAR_DEF">>),
    Rule("NT_VAR_DEF", {"IDENTIFIER"}, "none",
         <<"IDENTIFIER", "AS", "NT_TYPE", "NT_INIT_OPT">>),
    Rule("NT_INIT_OPT", {"EQUAL"}, "none", <<"EQUAL", "NT_EXPRESSION">>),
    Rule("NT_INIT_OPT", {"EOL"}, "none", << >>),
    Rule("NT_FUNC_DECL", {"DECLARE"}, "sem_func_decl",
         <<"DECLARE", "FUNCTION", "IDENTIFIER", "LPAR", "NT_PARAMS", "RPAR", "AS", "NT_TYPE">>),
    Rule("NT_FUNC_DEF", {"FUNCTION"}, "sem_func_def",
         <<"FUNCTION", "IDENTIFIER", "LPAR", "NT_PARAMS", "RPAR", "AS", "NT_TYPE", "EOL",
           "NT_STMT_SEQ", "END", "FUNCTION">>),
    Rule("NT_PARAM_DECL", {"IDENTIFIER"}, "sem_param_decl", <<"IDENTIFIER", "AS", "NT_TYPE">>),
    Rule("NT_PARAMS", {"IDENTIFIER"}, "none", <<"NT_PARAM_DECL", "NT_PARAMS_NEXT">>),
    Rule("NT_PARAMS", {"RPAR"}, "none", << >>),
    Rule("NT_PARAMS_NEXT", {"COMMA"}, "none", <<"COMMA", "NT_PARAM_DECL", "NT_PARAMS_NEXT">>),
    Rule("NT_PARAMS_NEXT", {"RPAR"}, "none", << >>)}
    \cup Tokens("NT_TYPE", Types)

\* Rules 40 to 46 and 73 to 78: simple statements and SCOPE
SimpleRules == {
    Rule("NT_RETURN_STMT", {"RETURN"}, "sem_return", <<"RETURN", "NT_EXPRESSION">>),
    Rule("NT_ASSIGNMENT", {"IDENTIFIER"}, "sem_expr_assign",
         <<"IDENTIFIER", "NT_ASSIGN_OPERATOR", "NT_EXPRESSION">>),
    Rule("NT_INPUT_STMT", {"INPUT"}, "sem_input", <<"INPUT", "IDENTIFIER">>),
    Rule("NT_PRINT_STMT", {"PRINT"}, "sem_print",
         <<"PRINT", "NT_EXPRESSION", "SEMICOLON", "NT_EXPRESSION_LIST">>),
    Rule("NT_EXPRESSION_LIST", {"FALSE", "TRUE", "STRING", "INT", "REAL", "IDENTIFIER", "SUB"},
         "none", <<"NT_EXPRESSION", "SEMICOLON", "NT_EXPRESSION_LIST">>),
    Rule("NT_EXPRESSION_LIST", {"EOL"}, "none", << >>),
    Rule("NT_SCOPE_STMT", {"SCOPE"}, "sem_scope",
         <<"SCOPE", "EOL", "NT_STMT_SEQ", "END", "SCOPE">>)}
    \cup Tokens("NT_ASSIGN_OPERATOR", AssignOperators)

\* Rules 47 to 51: IF
ConditionRules == {
    Rule("NT_IF_STMT", {"IF"}, "sem_condition",
         <<"IF", "NT_EXPRESSION", "THEN", "EOL", "NT_STMT_SEQ", "NT_IF_STMT_ELSEIF",
           "NT_IF_STMT_ELSE", "END", "IF">>),
    Rule("NT_IF_STMT_ELSEIF", {"ELSEIF"}, "none",
         <<"ELSEIF", "NT_EXPRESSION", "THEN", "EOL", "NT_STMT_SEQ", "NT_IF_STMT_ELSEIF">>),
    Rule("NT_IF_STMT_ELSEIF", {"ELSE", "END"}, "none", << >>),
    Rule("NT_IF_STMT_ELSE", {"ELSE"}, "none", <<"ELSE", "EOL", "NT_STMT_SEQ">>),
    Rule("NT_IF_STMT_ELSE", {"END"}, "none", << >>)}

\* Rules 52 to 72: loops
LoopRules == {
    Rule("NT_DO_STMT", {"DO"}, "sem_do_loop", <<"DO", "NT_DO_STMT_END">>),
    Rule("NT_DO_STMT_END", {"WHILE", "UNTIL"}, "none",
         <<"NT_TEST_TYPE_START", "NT_EXPRESSION", "EOL", "NT_STMT_SEQ", "LOOP">>),
    Rule("NT_DO_STMT_END", {"EOL"}, "none",
         <<"EOL", "NT_STMT_SEQ", "LOOP", "NT_TEST_TYPE_END">>),
    Rule("NT_TEST_TYPE_END", {"WHILE"}, "none", <<"WHILE", "NT_EXPRESSION">>),
    Rule("NT_TEST_TYPE_END", {"UNTIL"}, "none", <<"UNTIL", "NT_EXPRESSION">>),
    Rule("NT_TEST_TYPE_END", {"EOL"}, "none", << >>),
    Rule("NT_EXIT_STMT", {"EXIT"}, "sem_exit", <<"EXIT", "NT_LOOP_TYPE", "NT_LOOP_TYPE_END">>),
    Rule("NT_CONTINUE_STMT", {"CONTINUE"}, "sem_continue",
         <<"CONTINUE", "NT_LOOP_TYPE", "NT_LOOP_TYPE_END">>),
    Rule("NT_LOOP_TYPE_END", {"COMMA"}, "none", <<"COMMA", "NT_LOOP_TYPE", "NT_LOOP_TYPE_END">>),
    Rule("NT_LOOP_TYPE_END", {"EOL"}, "none", << >>),
    Rule("NT_FOR_STMT", {"FOR"}, "sem_for_loop",
         <<"FOR", "IDENTIFIER", "NT_TYPE_OPT", "EQUAL", "NT_EXPRESSION", "TO", "NT_EXPRESSION",
           "NT_STEP_OPT", "EOL", "NT_STMT_SEQ", "NEXT", "NT_ID_OPT">>),
    Rule("NT_TYPE_OPT", {"AS"}, "none", <<"AS", "NT_TYPE">>),
    Rule("NT_TYPE_OPT", {"EQUAL"}, "none", << >>),
    Rule("NT_STEP_OPT", {"STEP"}, "none", <<"STEP", "NT_EXPRESSION">>),
    Rule("NT_STEP_OPT", {"EOL"}, "none", << >>),
    Rule("NT_ID_OPT", {"IDENTIFIER"}, "none", <<"IDENTIFIER">>),
    Rule("NT_ID_OPT", {"EOL"}, "none", << >>)}
    \cup Tokens("NT_TEST_TYPE_START", {"WHILE", "UNTIL"})
    \cup Tokens("NT_LOOP_TYPE", {"DO", "FOR"})

grammar_rules == ProgramRules \cup StatementRules \cup DeclarationRules \cup SimpleRules
                 \cup ConditionRules \cup LoopRules

\* NT_EXPRESSION has no rule: the expression parser takes over.
Nonterminals == {r.for_nt : r \in grammar_rules} \cup {"NT_EXPRESSION"}

\* get_rule_from_ll_table, empty where the table holds 0 and the code NULL
get_rule_from_ll_table(nt, t) == {r \in grammar_rules : r.for_nt = nt /\ t \in r.selected}
=============================================================================
