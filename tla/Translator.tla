----------------------------- MODULE Translator -----------------------------
(***************************************************************************)
(* src/src/parser.c, parse together with the semantic actions: the LL      *)
(* parser of LLParser, where every rule with a semantic action puts an     *)
(* analyzer on the stack of analyzers, every matched token is passed to    *)
(* the topmost analyzer, and an expression leaves its value in an analyzer *)
(* of its own.  A file is one of Programs.  An expression is an operand, a *)
(* minus and an operand, or a call with operands for arguments.            *)
(***************************************************************************)
EXTENDS LLParser, SemActions

CONSTANT Programs       \* sequences of tokens of Scanned, without EOF

ASSUME ProgramsAssumption ==
    \A program \in Programs : program \in Seq(Scanned) /\ Len(program) <= MaxTokens

VARIABLES
    source,         \* the tokens of the file
    parser,         \* the rest of Parser, see Compiler
    owners,         \* history: for every symbol of dtree_stack the depth, from
                    \* the bottom, of the analyzer of the rule it comes from,
                    \* inherited if the rule has none
    owner           \* history: the same for the token matched last

translation == <<source, parser, owners, owner>>
allvars == <<vars, translation>>

TInit ==
    /\ Init
    /\ source \in Programs
    /\ parser = parser_init
    /\ owners = <<0, 0>>
    /\ owner = 0

\* The token the scanner delivers as the n-th, and next
TokenAt(n) == IF n \in DOMAIN source THEN source[n] ELSE EOF
NextToken == TokenAt(delivered + 1)
-----------------------------------------------------------------------------
\* The steps of parse() that no semantic action sees
GetToken ==
    /\ TakeBacklog \/ ReadToken(NextToken)
    /\ UNCHANGED translation

Refuse ==
    /\ NoRule \/ Mismatch
    /\ UNCHANGED translation

GoToExpression ==
    /\ CallExpression
    /\ UNCHANGED translation

\* rewrite_until_terminal with add_rule_semantics
ApplyRule(r) ==
    /\ Rewrite(r)
    /\ parser' = IF r.sem_action = "none" THEN parser
                 ELSE [parser EXCEPT !.sem_an_stack = <<Analyzer(r.sem_action)>> \o @]
    /\ LET depth == IF r.sem_action = "none" THEN Head(owners) ELSE Len(parser'.sem_an_stack)
       IN  owners' = [k \in DOMAIN r.production |-> depth] \o Tail(owners)
    /\ UNCHANGED <<source, owner>>

MatchToken ==
    /\ Match
    /\ owner' = Head(owners)
    /\ owners' = Tail(owners)
    /\ UNCHANGED <<source, parser>>
-----------------------------------------------------------------------------
(* parse_expression.  The first token of the expression is in the backlog. *)

IsCall == backlog_token.id = "IDENTIFIER" /\ NextToken.id = "LPAR"
IsNegated == backlog_token.id = "SUB"
CallEnd == Min({n \in delivered .. Len(source) : source[n].id = "RPAR"})
NotComma(t) == t.id # "COMMA"
Operands == CASE IsCall -> SelectSeq(SubSeq(source, delivered + 2, CallEnd - 1), NotComma)
              [] IsNegated -> <<NextToken>>
              [] OTHER -> <<backlog_token>>

\* Tokens read until the expression ends, and the one it ends at
TokensRead == CASE IsCall -> CallEnd - delivered + 1 [] IsNegated -> 2 [] OTHER -> 1
TokenAfter == TokenAt(delivered + TokensRead)

ConstantType(id) ==
    CASE id = "STRING" -> "KW_STRING" [] id = "INT" -> "KW_INTEGER"
      [] id = "REAL" -> "KW_DOUBLE" [] id \in {"TRUE", "FALSE"} -> "KW_BOOLEAN"

IsVariable(t) == t.id = "IDENTIFIER"

\* Why sem_expr_id refuses an operand
OperandError(t) ==
    CASE IsVariable(t) /\ parser.static_var_decl -> "OTHER_ERROR"
      [] IsVariable(t) /\ ~parser.static_var_decl /\ find_symbol(parser, t.str) = NoValue ->
            "PROG_ERROR"
      [] OTHER -> "SUCCESS"

OperandType(t) == IF IsVariable(t) THEN find_symbol(parser, t.str).type ELSE ConstantType(t.id)

\* A constant has its value where the program gives one.
ConstantAddr(t) == IF "value" \in DOMAIN t THEN addr_value(ConstantType(t.id), t.value)
                   ELSE addr_constant(ConstantType(t.id))
OperandCode(t) ==
    IF IsVariable(t)
    THEN [Push(VarAddr(parser, find_symbol(parser, t.str).key)) EXCEPT !.expected = OperandType(t)]
    ELSE Push(ConstantAddr(t))

\* sem_expr_func: the arguments are checked once all of them are known.
Callee == parser.sym_tab_functions[backlog_token.str]
CallError ==
    CASE backlog_token.str \notin DOMAIN parser.sym_tab_functions -> "PROG_ERROR"
      [] /\ backlog_token.str \in DOMAIN parser.sym_tab_functions
         /\ \/ Len(Callee.params) # Len(Operands)
            \/ \E k \in DOMAIN Operands :
                  ~are_types_compatible(OperandType(Operands[k]), Callee.params[k]) -> "COMP_ERROR"
      [] OTHER -> "SUCCESS"

ExpressionError ==
    LET bad == {k \in DOMAIN Operands : OperandError(Operands[k]) # "SUCCESS"}
    IN  CASE bad # {} -> OperandError(Operands[Min(bad)])
          [] bad = {} /\ IsCall -> CallError
          [] bad = {} /\ IsNegated /\ OperandType(NextToken) \notin Numbers -> "COMP_ERROR"
          [] OTHER -> "SUCCESS"

ExpressionType == IF IsCall THEN Callee.ret_type ELSE OperandType(Operands[1])

\* sem_expr_unary: 0 is subtracted from, below the value on the stack.
Negate(p, type) ==
    LET tmp == generate_uid(p.seed)
        zero == IF type = "KW_INTEGER" THEN Integer(0) ELSE addr_value("KW_DOUBLE", 0)
    IN  Emit(EmitTo(TakeUids(p, 1), "global", <<DefVar("GF", tmp)>>),
             <<Pop(GlobalVar(tmp)), Push(zero), Push(GlobalVar(tmp)), Plain("SUBS")>>)

Evaluate(p) ==
    LET pushed == Emit(p, [k \in DOMAIN Operands |-> OperandCode(Operands[k])])
    IN  CASE IsCall -> Emit(pushed, <<On("CALL", backlog_token.str, 0)>>)
          [] IsNegated -> Negate(pushed, ExpressionType)
          [] OTHER -> pushed

\* sem_expr_result: EXPR_VALUE is defined once, holds every value and has the
\* type of the last one.
sem_expr_result(p, type) ==
    LET defined == IF ExprValue \in DOMAIN p.sym_tab_global THEN p
                   ELSE EmitTo(p, "global", <<DefVar("GF", ExprValue)>>)
        analyzer == [Analyzer("sem_expr_result") EXCEPT !.finished = TRUE,
                                                        !.value = IdValue(ExprValue, type)]
    IN  [Emit(SetGlobal(defined, ExprValue, type), <<[Pop(ExprResult) EXCEPT !.expected = type]>>)
            EXCEPT !.sem_an_stack = <<analyzer>> \o @]

SeeStep(p) == [p EXCEPT !.step_found = @ \/ TokenAfter.id = "STEP"]

AreOperands ==
    \A k \in DOMAIN Operands : Operands[k].id \in Expr!Constants \cup {"IDENTIFIER"}

Expression ==
    /\ pc = "expression"
    /\ AreOperands
    /\ ExpressionError = "SUCCESS"
    /\ ExpressionEnds(TokenAfter, TokensRead)
    /\ parser' = sem_expr_result(Evaluate(SeeStep(parser)), ExpressionType)
    /\ owners' = Tail(owners)
    /\ UNCHANGED <<source, owner>>

BadExpression ==
    /\ pc = "expression"
    /\ IF AreOperands
       THEN /\ ExpressionError # "SUCCESS"
            /\ ExpressionFails(ExpressionError)
       ELSE ExpressionFails("SYNTAX_ERROR")
    /\ owners' = Tail(owners)
    /\ UNCHANGED <<source, parser, owner>>
-----------------------------------------------------------------------------
(* handle_semantics *)

FinishedOnTop == parser.sem_an_stack # << >> /\ Me(parser).finished
Popped == [parser EXCEPT !.sem_an_stack = Tail(@)]

\* One round of handle_finished_semantics: the analyzer below gets the value.
PassedDown ==
    IF Popped.sem_an_stack = << >> \/ Me(parser).value = NoValue THEN Ok(Popped)
    ELSE sem_action(Popped, Me(parser).value)

FlushFinished ==
    /\ pc = "semantics"
    /\ FinishedOnTop
    /\ PassedDown.ret = "SUCCESS"
    /\ parser' = PassedDown.parser
    /\ UNCHANGED <<vars, source, owners, owner>>

FlushFails ==
    /\ pc = "semantics"
    /\ FinishedOnTop
    /\ PassedDown.ret # "SUCCESS"
    /\ SemanticsFail(PassedDown.ret)
    /\ UNCHANGED translation

\* Then the token goes to the analyzer on the top.
TokenPassed ==
    IF parser.sem_an_stack = << >> THEN Ok(parser) ELSE sem_action(parser, TokenValue(token))

PassToken ==
    /\ pc = "semantics"
    /\ ~FinishedOnTop
    /\ TokenPassed.ret = "SUCCESS"
    /\ SemanticsDone
    /\ parser' = TokenPassed.parser
    /\ UNCHANGED <<source, owners, owner>>

TokenRefused ==
    /\ pc = "semantics"
    /\ ~FinishedOnTop
    /\ TokenPassed.ret # "SUCCESS"
    /\ SemanticsFail(TokenPassed.ret)
    /\ UNCHANGED translation

TNext ==
    \/ GetToken
    \/ Refuse
    \/ GoToExpression
    \/ \E r \in grammar_rules : ApplyRule(r)
    \/ MatchToken
    \/ Expression
    \/ BadExpression
    \/ FlushFinished
    \/ FlushFails
    \/ PassToken
    \/ TokenRefused

TSpec == TInit /\ [][TNext]_allvars /\ WF_allvars(TNext)
-----------------------------------------------------------------------------
Accepted == pc = "done" /\ ret_code = "SUCCESS"
Stack == parser.sem_an_stack
Depth(k) == Len(Stack) + 1 - k      \* from the bottom, of the k-th analyzer

(* handle_semantics passes a token to whatever analyzer is on the top.     *)
(* Only the analyzer of the rule the token comes from acts on it, except   *)
(* that the EOL after a statement may be acted on by that statement, with  *)
(* nothing but finished analyzers between the two.                         *)
ReachedByItsStatement ==
    \/ Len(Stack) = owner
    \/ /\ token.id = "EOL" /\ Len(Stack) > owner
       /\ \A k \in DOMAIN Stack : k > 1 /\ Depth(k) > owner => Stack[k].finished
TokensReachTheirStatement ==
    [][pc = "semantics" /\ ~FinishedOnTop /\ parser' # parser => ReachedByItsStatement]_allvars

(* handle_finished_semantics passes the value of every analyzer that is    *)
(* removed to the one below, whoever that is: only an expression and a     *)
(* parameter say anything to it.                                           *)
StatementsLeaveParentsAlone ==
    [][pc = "semantics" /\ FinishedOnTop =>
          \/ Me(parser).sem_action \in {"sem_expr_result", "sem_param_decl"}
          \/ parser' = Popped]_allvars

(* An accepted program leaves no analyzer and no table behind.             *)
NothingLeft == Accepted => Stack = << >> /\ parser.sym_tab_stack = << >>

(* Where a statement starts no flag of an earlier statement is left: the   *)
(* declaration, the FOR or the jump it belongs to has reset it.            *)
AtStatement == pc = "rewrite" /\ Top = "NT_INNER_STMT"
NoFlagsLeft ==
    AtStatement => /\ ~parser.static_var_decl /\ parser.il_override = "none"
                   /\ ~parser.step_found /\ parser.last_loop_type = "none"

(* There the unfinished analyzers are those of the open blocks, with one   *)
(* local symbol table each, and code goes to the list of the function or   *)
(* the main body.                                                          *)
BlockAction(keyword) ==
    CASE keyword = "SCOPE" -> "sem_scope" [] keyword = "IF" -> "sem_condition"
      [] keyword = "DO" -> "sem_do_loop" [] keyword = "FOR" -> "sem_for_loop"
      [] keyword = "FUNCTION" -> "sem_func_def"
UnfinishedUpTo(k) == {j \in DOMAIN Stack : j <= k /\ ~Stack[j].finished}
OpenBlocksRun ==
    AtStatement =>
        /\ Cardinality(UnfinishedUpTo(Len(Stack))) = Len(open_blocks)
        /\ \A k \in UnfinishedUpTo(Len(Stack)) :
              Stack[k].sem_action = BlockAction(open_blocks[Cardinality(UnfinishedUpTo(k))])
        /\ Len(parser.sym_tab_stack) = Len(open_blocks)
        /\ get_current_il_list(parser) = IF Last(open_blocks) = "FUNCTION" THEN "func" ELSE "main"

(* Whatever was translated before it, a statement starts as if it came     *)
(* first in its blocks, and a program ends as if there had been none.      *)
StatementsStartClean == NothingLeft /\ NoFlagsLeft /\ OpenBlocksRun

(* EXIT and CONTINUE jump to the loop they name: the n-th of its kind, for *)
(* n keywords, counted from the inside among the loops not yet ended.      *)
(* Where a loop of that kind has ended in the same block its analyzer is   *)
(* still there and counts as well; that is left out.                       *)
Jumping == pc = "semantics" /\ token.id = "EOL" /\ Stack # << >>
           /\ Me(parser).state = "NEXT_LOOP_TYPE" /\ ~Me(parser).finished
NamedLoops ==
    LET start == CHOOSE n \in 1 .. delivered :
            /\ source[n].id \in {"EXIT", "CONTINUE"}
            /\ \A m \in n + 1 .. delivered : source[m].id \notin {"EXIT", "CONTINUE"}
    IN  Cardinality({n \in start .. delivered : source[n].id \in {"DO", "FOR"}})
LoopsNamed == Running(parser, BlockAction(parser.last_loop_type))
OpenLoops == {k \in LoopsNamed : ~Stack[k].finished}
JumpsToTheNamedLoop ==
    Jumping /\ OpenLoops = LoopsNamed =>
        \E k \in OpenLoops :
            /\ Cardinality({j \in OpenLoops : j <= k}) = NamedLoops
            /\ Me(parser).value.uid = Stack[k].value.uid

(* test/test_files/syntax/loops/23.code, "exit too many loops": a jump out *)
(* of more loops than there are around it is refused.                      *)
JumpsOnlyOutOfOpenLoops == Jumping => NamedLoops <= Cardinality(OpenLoops)

(* In the code of an accepted program, the built-in functions included,    *)
(* every label is defined once, every jump goes to a label of its own list *)
(* and every call to a function.  CONTINUE of a DO without a test is left  *)
(* out: it jumps to the test.                                              *)
Positions(list, op, label) ==
    {n \in DOMAIN list : list[n].op = op /\ list[n].label = label}
HasTest(list, uid) == Positions(list, "JUMPIFEQ", [kind |-> "LOOP_END", uid |-> uid]) # {}
JumpsLand ==
    Accepted =>
        LET code == generate_code(parser.il)
            defined == {n \in DOMAIN code : code[n].op = "LABEL"}
        IN  /\ Cardinality({code[n].label : n \in defined}) = Cardinality(defined)
            /\ \A n \in DOMAIN code : code[n].op = "CALL" => Positions(code, "LABEL", code[n].label) # {}
            /\ \A list \in {parser.il.main, parser.il.func} :
                  \A n \in DOMAIN list :
                      /\ list[n].op \in {"JUMP", "JUMPIFEQ", "JUMPIFNEQ"}
                      /\ list[n].label.kind = "LOOP_COND" => HasTest(list, list[n].label.uid)
                      => Positions(list, "LABEL", list[n].label) # {}

(* In the code of an accepted program every variable of the global frame   *)
(* is defined once, by the global list, which runs first, and before that  *)
(* list uses it.                                                           *)
Written == parser.il.global \o parser.il.main \o parser.il.func
Definitions(list, key) == {n \in DOMAIN list : list[n] = DefVar("GF", key)}
GlobalKeys(instr) == {v.key : v \in {u \in Variables(instr) : u.frame = "GF"}}
GlobalsDefinedOnce ==
    Accepted =>
        /\ \A key \in UNION {GlobalKeys(Written[n]) : n \in DOMAIN Written} :
              Cardinality(Definitions(parser.il.global, key)) = 1
        /\ \A n \in DOMAIN parser.il.global : \A key \in GlobalKeys(parser.il.global[n]) :
              \E d \in Definitions(parser.il.global, key) : d <= n

(* A local variable gets its first value in the frame it was defined in.   *)
(* Where the function has a static variable of the same name the frame is  *)
(* the wrong one; that is left out here.                                   *)
KeyAt(list, n) == list[n].addresses[1].key
WrittenWhereDefined(list, n) ==
    \E m \in n + 1 .. Len(list) :
        /\ IsWrite(list[m], addr_symbol("LF", KeyAt(list, n)))
        /\ \A k \in n + 1 .. m - 1 : ~(list[k].op \in Writing /\ KeyAt(list, k) = KeyAt(list, n))
LocalDefinitions(list) ==
    {n \in DOMAIN list : list[n].op = "DEFVAR" /\ list[n].addresses[1].frame = "LF"}
NameOfStatic(name) ==
    \E f \in DOMAIN parser.sym_tab_functions :
        get_static_var_name(f, name) \in DOMAIN parser.sym_tab_global
LocalsInitialised ==
    Accepted =>
        /\ \A n \in LocalDefinitions(parser.il.main) : WrittenWhereDefined(parser.il.main, n)
        /\ \A n \in LocalDefinitions(parser.il.func) :
              \/ WrittenWhereDefined(parser.il.func, n)
              \/ NameOfStatic(KeyAt(parser.il.func, n))

(* What the code of an accepted program jumps to, calls and names is       *)
(* there, once, and local variables have a value before they are used.     *)
CodeIsWellFormed == JumpsLand /\ GlobalsDefinedOnce /\ LocalsInitialised
=============================================================================
