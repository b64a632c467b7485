------------------------------ MODULE LLParser ------------------------------
(***************************************************************************)
(* src/src/parser.c, parse: top-down parsing of a program, driven by the   *)
(* LL table, with one token of lookahead.  The expression parser reads     *)
(* from the same scanner and gives back the token it stopped at, so every  *)
(* token passes through the one-token backlog of the scanner when an       *)
(* expression begins or ends.  Here an expression is a single operand and  *)
(* may fail for any reason of its own; so may the semantic actions.        *)
(***************************************************************************)
EXTENDS Grammar, Naturals

CONSTANTS
    Scanned,        \* tokens the scanner can deliver, records with an id
    MaxTokens       \* bound on the length of the file, EOF not counted

Expr == INSTANCE ExprGrammar

EOF == [id |-> "EOF"]
NoToken == [id |-> "none"]     \* a NULL token

ASSUME ScannedAssumption == \A t \in Scanned : t.id \notin {"EOF", "none"}
ASSUME MaxTokensAssumption == MaxTokens \in Nat

VARIABLES
    dtree_stack,        \* Parser.dtree_stack, head is the top
    token,              \* the token in hand
    backlog_token,      \* Scanner.backlog_token
    delivered,          \* number of tokens read from the file
    pc,                 \* where parse() is
    ret_code,
    expected,           \* history: dtree_stack when the token was taken
    open_blocks,        \* history: keywords of the blocks not yet closed
    last_matched        \* history: id of the token matched last

vars == <<dtree_stack, token, backlog_token, delivered, pc, ret_code,
          expected, open_blocks, last_matched>>
history == <<expected, open_blocks, last_matched>>

Init ==
    /\ dtree_stack = <<"NT_LINE", "EOF">>
    /\ token = NoToken
    /\ backlog_token = NoToken
    /\ delivered = 0
    /\ pc = "get_token"
    /\ ret_code = "SUCCESS"
    /\ expected = << >>
    /\ open_blocks = << >>
    /\ last_matched = "none"

Top == Head(dtree_stack)
Fail(code) == pc' = "done" /\ ret_code' = code
GoTo(label) == pc' = label /\ UNCHANGED ret_code
-----------------------------------------------------------------------------
\* Use the token in hand, unless it is a lexical error.
Consider(t) ==
    /\ token' = t
    /\ expected' = dtree_stack
    /\ IF t.id = "LEX_ERROR" THEN Fail("LEX_ERROR") ELSE GoTo("rewrite")
    /\ UNCHANGED <<dtree_stack, open_blocks, last_matched>>

\* Mutated: the token stays in the backlog when it is delivered.
KeepBacklog ==
    /\ pc = "get_token"
    /\ backlog_token # NoToken
    /\ Consider(backlog_token)
    /\ UNCHANGED <<backlog_token, delivered>>

\* scanner_get_token with a token in the backlog
TakeBacklog ==
    /\ pc = "get_token"
    /\ backlog_token # NoToken
    /\ backlog_token' = NoToken
    /\ Consider(backlog_token)
    /\ UNCHANGED delivered

\* scanner_get_token reading t from the file
ReadToken(t) ==
    /\ pc = "get_token"
    /\ backlog_token = NoToken
    /\ delivered' = delivered + 1
    /\ Consider(t)
    /\ UNCHANGED backlog_token

\* rewrite_until_terminal, one round of its loop: the production replaces the
\* nonterminal
Rewrite(r) ==
    /\ pc = "rewrite"
    /\ r \in get_rule_from_ll_table(Top, token.id)
    /\ dtree_stack' = r.production \o Tail(dtree_stack)
    /\ UNCHANGED <<token, backlog_token, delivered, pc, ret_code, history>>

\* Mutated: where the table holds no rule the loop goes on.
NoRuleUnnoticed ==
    /\ pc = "rewrite"
    /\ Top \in Nonterminals \ {"NT_EXPRESSION"}
    /\ get_rule_from_ll_table(Top, token.id) = {}
    /\ UNCHANGED vars

NoRule ==
    /\ pc = "rewrite"
    /\ Top \in Nonterminals \ {"NT_EXPRESSION"}
    /\ get_rule_from_ll_table(Top, token.id) = {}
    /\ Fail("SYNTAX_ERROR")
    /\ UNCHANGED <<dtree_stack, token, backlog_token, delivered, history>>

\* RET_CODE_HANDLE_EXPRESSION: the token goes back to the scanner.
CallExpression ==
    /\ pc = "rewrite"
    /\ Top = "NT_EXPRESSION"
    /\ backlog_token' = token
    /\ token' = NoToken
    /\ GoTo("expression")
    /\ UNCHANGED <<dtree_stack, delivered, history>>

\* parse_expression accepts an expression, here the operand it finds in the
\* backlog, and gives back the next token, at which no expression goes on.
ExpressionStart == Expr!Constants \cup {"IDENTIFIER", "LPAR", "NOT", "SUB"}

\* n is the number of tokens read, the one given back included.
ExpressionEnds(next, n) ==
    /\ pc = "expression"
    /\ backlog_token.id \in ExpressionStart
    /\ Expr!pt_map_token(next.id) = "END" /\ next.id # "LEX_ERROR"
    /\ backlog_token' = next
    /\ delivered' = delivered + n
    /\ dtree_stack' = Tail(dtree_stack)
    /\ last_matched' = "expression"
    /\ GoTo("get_token")
    /\ UNCHANGED <<token, expected, open_blocks>>

ParseExpression(next) == ExpressionEnds(next, 1)

\* parse_expression fails, on a token that starts no expression or later.
\* Its caller pops the nonterminal all the same.
ExpressionFails(code) ==
    /\ pc = "expression"
    /\ Fail(code)
    /\ dtree_stack' = Tail(dtree_stack)
    /\ UNCHANGED <<token, backlog_token, delivered, history>>

\* What the matched token does to the open blocks: END, LOOP and NEXT close
\* one, a keyword that does not follow END, DECLARE, EXIT or CONTINUE opens
\* one.
BlockKeywords == {"SCOPE", "IF", "FUNCTION", "DO", "FOR"}
Closes == CASE last_matched = "END" -> token.id
            [] token.id = "LOOP" -> "DO"
            [] token.id = "NEXT" -> "FOR"
            [] OTHER -> "nothing"
Opens == /\ token.id \in BlockKeywords
         /\ last_matched \notin {"END", "DECLARE", "EXIT", "CONTINUE", "COMMA"}

BlocksAfterMatch ==
    CASE Opens -> <<token.id>> \o open_blocks
      [] Closes # "nothing" /\ open_blocks # << >> ->
            IF Head(open_blocks) = Closes THEN Tail(open_blocks) ELSE <<"broken">> \o open_blocks
      [] Closes # "nothing" /\ open_blocks = << >> -> <<"broken">>
      [] OTHER -> open_blocks

\* Mutated: any terminal will do.
AnyTerminalMatches == Top \notin Nonterminals

TokenMatches == Top \notin Nonterminals /\ Top = token.id

\* The terminal on the top is the token: pop it and tell the analyzers.
Match ==
    /\ pc = "rewrite"
    /\ TokenMatches
    /\ dtree_stack' = Tail(dtree_stack)
    /\ open_blocks' = BlocksAfterMatch
    /\ last_matched' = token.id
    /\ GoTo("semantics")
    /\ UNCHANGED <<token, backlog_token, delivered, expected>>

Mismatch ==
    /\ pc = "rewrite"
    /\ Top \notin Nonterminals
    /\ ~TokenMatches
    /\ Fail("SYNTAX_ERROR")
    /\ UNCHANGED <<dtree_stack, token, backlog_token, delivered, history>>

\* handle_semantics, then the test of the loop
SemanticsDone ==
    /\ pc = "semantics"
    /\ GoTo(IF token.id = "EOF" THEN "done" ELSE "get_token")
    /\ UNCHANGED <<dtree_stack, token, backlog_token, delivered, history>>

SemanticsFail(code) ==
    /\ pc = "semantics"
    /\ Fail(code)
    /\ UNCHANGED <<dtree_stack, token, backlog_token, delivered, history>>

SemanticErrors == {"PROG_ERROR", "COMP_ERROR", "OTHER_ERROR"}

\* The file goes on with any token until its length is reached.
FromFile == IF delivered < MaxTokens THEN Scanned \cup {EOF} ELSE {EOF}

Next ==
    \/ TakeBacklog
    \/ \E t \in FromFile : ReadToken(t) \/ ParseExpression(t)
    \/ \E r \in grammar_rules : Rewrite(r)
    \/ NoRule
    \/ CallExpression
    \/ \E code \in SemanticErrors \cup {"SYNTAX_ERROR", "LEX_ERROR"} : ExpressionFails(code)
    \/ Match
    \/ Mismatch
    \/ SemanticsDone
    \/ \E code \in SemanticErrors : SemanticsFail(code)

Spec == Init /\ [][Next]_vars /\ WF_vars(Next)
-----------------------------------------------------------------------------
AllTokens == Scanned \cup {EOF, NoToken}
Symbols == Nonterminals \cup {"EOF"}
           \cup (UNION {{r.production[k] : k \in DOMAIN r.production} : r \in grammar_rules})

(* Type invariant of parse().  A token is in hand or in the backlog, never *)
(* in both: scanner_unget_token never drops a token it still holds.        *)
TypeOK ==
    /\ dtree_stack \in Seq(Symbols)
    /\ token \in AllTokens /\ backlog_token \in AllTokens
    /\ delivered \in 0 .. MaxTokens + 1
    /\ pc \in {"get_token", "rewrite", "expression", "semantics", "done"}
    /\ ret_code \in SemanticErrors \cup {"SUCCESS", "SYNTAX_ERROR", "LEX_ERROR"}
    /\ pc \in {"rewrite", "semantics"} => backlog_token = NoToken

(* stack_top is dereferenced without a test in rewrite_until_terminal and  *)
(* parse: until EOF itself is matched the derivation stack holds the EOF   *)
(* terminal, at its bottom and nowhere else, so no token but EOF can empty *)
(* it, and nothing can be read past the end of the file.                   *)
EOFAtBottom ==
    IF last_matched = "EOF"
    THEN dtree_stack = << >> /\ pc \in {"semantics", "done"}
    ELSE /\ dtree_stack # << >>
         /\ \A k \in DOMAIN dtree_stack : dtree_stack[k] = "EOF" <=> k = Len(dtree_stack)

(* parse() ends on every file: the rewriting loop always reaches a         *)
(* terminal or an error.                                                   *)
ParseEnds == <>(pc = "done")
=============================================================================
