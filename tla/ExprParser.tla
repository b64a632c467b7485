----------------------------- MODULE ExprParser -----------------------------
(***************************************************************************)
(* src/src/expr_parser.c and ext_stack.c: bottom-up parsing of one         *)
(* expression.  Two stacks grow and shrink together without knowing of     *)
(* each other: the extended stack of the parser, and the parser-wide stack *)
(* of semantic analyzers, which owns a value for every nonterminal of the  *)
(* first one.  A third one exists only when the program runs: the data     *)
(* stack the emitted code works on.                                        *)
(***************************************************************************)
EXTENDS ExprGrammar, ExprCode

CONSTANT Inputs     \* the token sequences the scanner may deliver

Nonterminals == {"NT_EXPRESSION", "NT_LIST"}
Markers == {"END_MARKER", "HANDLE_MARKER"}

\* The enumerations of tokens, nonterminals and markers have no value in common.
TokenType == [id : STRING \ (Nonterminals \cup Markers), str : STRING]

ASSUME InputsAssumption == Inputs \subseteq Seq(TokenType)

VARIABLES
    source,             \* external: the tokens of the source file, never changed
    position,           \* number of them the scanner has delivered for good
    token,              \* the token in hand
    last_token,         \* id of the token before it, "none" at the start
    ext_stack,          \* ExtStack, head is the top
    sem_an_stack,       \* Parser.sem_an_stack, head is the top
    step_found,         \* Parser.step_found
    static_var_decl,    \* Parser.static_var_decl, set by a static declaration
    data_stack,         \* types on the data stack once the emitted code ran
    emitted,            \* history: operands and operators in emission order
    expr_value,         \* type stored in the global EXPR_VALUE, and declared type
    pc,                 \* "get_token", "act" or "done"
    ret_code

vars == <<source, position, token, last_token, ext_stack, sem_an_stack, step_found,
          static_var_decl, data_stack, emitted, expr_value, pc, ret_code>>

NoToken == [id |-> "none", str |-> "none"]
EOF == [id |-> "EOF", str |-> "none"]

Item(type_id, tok) == [type_id |-> type_id, token |-> tok]
Analyzer(action, value, type) ==
    [sem_action |-> action, finished |-> TRUE, value |-> [value_type |-> value, type |-> type]]

\* The statement that asked for the expression waits below it.
Parent == [sem_action |-> "parent", finished |-> FALSE,
           value |-> [value_type |-> "none", type |-> "none"]]

Init ==
    /\ source \in Inputs
    /\ position = 0
    /\ token = NoToken
    /\ last_token = "none"
    /\ ext_stack = <<Item("END_MARKER", NoToken)>>
    /\ sem_an_stack = <<Parent>>
    /\ step_found = FALSE
    /\ static_var_decl \in BOOLEAN
    /\ data_stack = << >>
    /\ emitted = << >>
    /\ expr_value = [stored |-> "none", declared |-> "none"]
    /\ pc = "get_token"
    /\ ret_code = "SUCCESS"
-----------------------------------------------------------------------------
\* Mutated: one relational operator forgotten
UnaryContextButNE == {"none", "ADD", "SUB", "DIVI", "DIVR", "MUL", "UNARY_MINUS",
                      "EQUAL", "LT", "GT", "LE", "GE", "LPAR", "COMMA"}

\* Tokens after which a minus is unary
UnaryContext == {"none", "ADD", "SUB", "DIVI", "DIVR", "MUL", "UNARY_MINUS",
                 "EQUAL", "LT", "GT", "LE", "GE", "NE", "LPAR", "COMMA"}

NextToken == IF position < Len(source) THEN source[position + 1] ELSE EOF

\* The head of the loop: get a token, note STEP, recognise a unary minus.
GetToken ==
    /\ pc = "get_token"
    /\ token' = IF NextToken.id = "SUB" /\ last_token \in UnaryContext
                THEN [NextToken EXCEPT !.id = "UNARY_MINUS"]
                ELSE NextToken
    /\ IF NextToken.id = "LEX_ERROR"      \* reported, and given back to the scanner
       THEN /\ ret_code' = "LEX_ERROR"
            /\ pc' = "done"
            /\ UNCHANGED <<position, step_found>>
       ELSE /\ pc' = "act"
            /\ position' = position + 1
            /\ step_found' = (step_found \/ NextToken.id = "STEP")
            /\ UNCHANGED ret_code
    /\ UNCHANGED <<source, last_token, ext_stack, sem_an_stack, static_var_decl,
                   data_stack, emitted, expr_value>>

\* ext_stack_top: the topmost item that is not a nonterminal
TopTerminal ==
    CHOOSE k \in DOMAIN ext_stack :
        /\ ext_stack[k].type_id \notin Nonterminals
        /\ \A j \in 1 .. k - 1 : ext_stack[j].type_id \in Nonterminals

Action == GET_ACTION(ext_stack[TopTerminal].type_id, token.id)

Acting(action) == pc = "act" /\ Action = action

\* scanner_unget_token and return
Return(code) ==
    /\ pc' = "done"
    /\ ret_code' = code
    /\ position' = position - 1

\* ext_stack_shift: the handle marker goes right above the topmost terminal,
\* below a nonterminal that lies on it; the token goes on the top.
Shift ==
    /\ Acting("HANDLE")
    /\ ext_stack' = <<Item(token.id, token)>> \o SubSeq(ext_stack, 1, TopTerminal - 1)
                    \o <<Item("HANDLE_MARKER", NoToken)>>
                    \o SubSeq(ext_stack, TopTerminal, Len(ext_stack))
    /\ last_token' = token.id
    /\ pc' = "get_token"
    /\ UNCHANGED <<source, position, token, sem_an_stack, step_found, static_var_decl,
                   data_stack, emitted, expr_value, ret_code>>

\* ext_stack_push
Push ==
    /\ Acting("PUSH")
    /\ ext_stack' = <<Item(token.id, token)>> \o ext_stack
    /\ last_token' = token.id
    /\ pc' = "get_token"
    /\ UNCHANGED <<source, position, token, sem_an_stack, step_found, static_var_decl,
                   data_stack, emitted, expr_value, ret_code>>

Reject ==
    /\ Acting("ERROR")
    /\ Return("SYNTAX_ERROR")
    /\ last_token' = token.id
    /\ UNCHANGED <<source, token, ext_stack, sem_an_stack, step_found, static_var_decl,
                   data_stack, emitted, expr_value>>
-----------------------------------------------------------------------------
\* find_rule: the rules whose reversed right side lies between the top and
\* the first handle marker
find_rule ==
    {r \in rules :
        /\ Len(r.production) < Len(ext_stack)
        /\ \A k \in DOMAIN r.production : ext_stack[k].type_id = r.production[k]
        /\ ext_stack[Len(r.production) + 1].type_id = "HANDLE_MARKER"}

\* Mutated: a list is left on the stack of analyzers.
PoppedButLists(r) == Cardinality({k \in DOMAIN r.production : r.production[k] = "NT_EXPRESSION"})

\* The values ext_stack_reduce pops from the analyzer stack, top first: one
\* for each nonterminal of the right side
Popped(r) == Cardinality({k \in DOMAIN r.production : r.production[k] \in Nonterminals})
Value(k) == sem_an_stack[k].value.type

\* The arguments of a call, in the order they were written
Arguments(r) ==
    CASE Popped(r) = 0 -> << >>
      [] Popped(r) = 1 /\ sem_an_stack[1].value.value_type = "LIST" -> Value(1)
      [] OTHER -> <<Value(1)>>

\* What the rule's analyzer computes from the items it is passed
Evaluate(r) ==
    LET op == r.production[2]
        name == ext_stack[Len(r.production)].token.str
    IN  CASE r.sem_action = "sem_expr_id" -> sem_expr_id(name, static_var_decl)
          [] r.sem_action = "sem_expr_const" -> sem_expr_const(r.production[1])
          [] r.sem_action = "sem_expr_brackets" -> sem_expr_brackets(Value(1))
          [] r.sem_action = "sem_expr_unary" -> sem_expr_unary(Value(1))
          [] r.sem_action = "sem_expr_and_or_not" /\ op = "NOT" -> sem_expr_not(Value(1))
          [] r.sem_action = "sem_expr_and_or_not" /\ op # "NOT" ->
                sem_expr_and_or(Value(2), op, Value(1))
          [] r.sem_action = "sem_expr_aritmetic_basic" ->
                sem_expr_aritmetic_basic(Value(2), op, Value(1))
          [] r.sem_action = "sem_expr_div" -> sem_expr_div(Value(2), op, Value(1))
          [] r.sem_action = "sem_expr_eq_ne" -> sem_expr_eq_ne(Value(2), op, Value(1))
          [] r.sem_action = "sem_expr_lte_gte" -> sem_expr_lte_gte(Value(2), op, Value(1))
          [] r.sem_action = "sem_expr_list" -> sem_expr_list(Value(2), Value(1))
          [] r.sem_action = "sem_expr_list_expr" -> sem_expr_list_expr(Value(2), Value(1))
          [] r.sem_action = "sem_expr_func" -> sem_expr_func(name, Arguments(r))

\* What the history remembers of the code a reduction emitted
Trace(r) ==
    LET leaf == ext_stack[Len(r.production)].token.str
    IN  CASE r.sem_action \in {"sem_expr_id", "sem_expr_const"} -> <<leaf>>
          [] r.sem_action = "sem_expr_func" -> <<"CALL", leaf>>
          [] r.sem_action \in {"sem_expr_brackets", "sem_expr_list", "sem_expr_list_expr"} -> << >>
          [] OTHER -> <<r.production[2]>>

\* ext_stack_reduce, the analyzer accepting every item: the handle is
\* replaced by the nonterminal and its analyzers by the new one.
Reduce ==
    /\ Acting("REDUCE")
    /\ \E r \in find_rule :
        /\ Evaluate(r).ret = "SUCCESS"
        /\ ext_stack' = <<Item(r.for_nt, NoToken)>>
                        \o SubSeq(ext_stack, Len(r.production) + 2, Len(ext_stack))
        /\ sem_an_stack' =
                <<Analyzer(r.sem_action, IF r.for_nt = "NT_LIST" THEN "LIST" ELSE "EXPR",
                           Evaluate(r).value)>>
                \o SubSeq(sem_an_stack, Popped(r) + 1, Len(sem_an_stack))
        /\ data_stack' = Run(data_stack, Evaluate(r).code)
        /\ emitted' = emitted \o Trace(r)
    /\ UNCHANGED <<source, position, token, last_token, step_found, static_var_decl,
                   expr_value, pc, ret_code>>

\* Mutated: the result of ext_stack_reduce is not tested.
ReduceFailsUnnoticed ==
    /\ Acting("REDUCE")
    /\ find_rule = {} \/ \E r \in find_rule : Evaluate(r).ret # "SUCCESS"
    /\ UNCHANGED vars

\* ext_stack_reduce fails: no rule has this right side, or the analyzer
\* refuses the types.  The compiler gives up with both stacks as they are.
ReduceFails ==
    /\ Acting("REDUCE")
    /\ \/ find_rule = {} /\ Return("SYNTAX_ERROR")
       \/ \E r \in find_rule : Evaluate(r).ret # "SUCCESS" /\ Return(Evaluate(r).ret)
    /\ last_token' = token.id
    /\ UNCHANGED <<source, token, ext_stack, sem_an_stack, step_found, static_var_decl,
                   data_stack, emitted, expr_value>>

\* The analyzer of the whole expression makes way for one that tells the
\* parent where the value is.
sem_expr_result == <<Analyzer("sem_expr_result", "ID", "EXPR_VALUE")>> \o Tail(sem_an_stack)

\* The end of the loop: the value is popped into EXPR_VALUE.
Finish ==
    /\ Acting("SUCCESS")
    /\ last_token' = token.id
    /\ IF Head(ext_stack).type_id = "NT_EXPRESSION"
       THEN /\ Return("SUCCESS")
            /\ sem_an_stack' = sem_expr_result
            /\ expr_value' = [stored |-> Head(data_stack), declared |-> Value(1)]
            /\ data_stack' = Tail(data_stack)
       ELSE /\ Return("SYNTAX_ERROR")
            /\ UNCHANGED <<sem_an_stack, expr_value, data_stack>>
    /\ UNCHANGED <<source, token, ext_stack, step_found, static_var_decl, emitted>>

Next == GetToken \/ Shift \/ Push \/ Reject \/ Reduce \/ ReduceFails \/ Finish

Spec == Init /\ [][Next]_vars /\ WF_vars(Next)
-----------------------------------------------------------------------------
Running == ret_code = "SUCCESS" /\ pc # "done"

(* ext_stack_reduce pops one analyzer for each nonterminal it removes and  *)
(* trusts that the topmost analyzers are the ones those nonterminals left, *)
(* in the same order and of the same kind; the statement's own analyzer,   *)
(* at the bottom, is never popped for an operand.                          *)
Kind(nt) == IF nt = "NT_LIST" THEN "LIST" ELSE "EXPR"
NonterminalsTo(k) == {j \in 1 .. k : ext_stack[j].type_id \in Nonterminals}

AnalyzersMatchNonterminals ==
    Running =>
        /\ Len(sem_an_stack) = Cardinality(NonterminalsTo(Len(ext_stack))) + 1
        /\ \A k \in NonterminalsTo(Len(ext_stack)) :
              sem_an_stack[Cardinality(NonterminalsTo(k))].value.value_type
                = Kind(ext_stack[k].type_id)
        /\ Last(sem_an_stack) = Parent

(* A finished expression leaves the data stack as it found it, EXPR_VALUE  *)
(* holding a value of the type the parent statement is told, and one       *)
(* analyzer for the parent to read.                                        *)
ResultHandedOver ==
    pc = "done" /\ ret_code = "SUCCESS" =>
        /\ data_stack = << >>
        /\ expr_value.stored = expr_value.declared
        /\ expr_value.stored \in Types
        /\ Len(sem_an_stack) = 2 /\ sem_an_stack[2] = Parent

(* The code emitted so far, when it runs, never meets an operand of the    *)
(* wrong type and leaves on the data stack exactly the values the pending  *)
(* analyzers stand for, of the types they claim; in the end none, but      *)
(* EXPR_VALUE.                                                             *)
TypesLeftBy(value) ==
    CASE value.value_type = "EXPR" -> <<value.type>>
      [] value.value_type = "LIST" -> Reverse(value.type)
      [] OTHER -> << >>

DataStackMatchesAnalyzers ==
    /\ Running => data_stack = FlattenSeq([k \in DOMAIN sem_an_stack |->
                                            TypesLeftBy(sem_an_stack[k].value)])
    /\ ResultHandedOver

(* Every expression, right or wrong, comes to an end: no reduction goes on *)
(* for ever.                                                               *)
Terminates == <>(pc = "done")
=============================================================================
