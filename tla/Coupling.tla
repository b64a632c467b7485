------------------------------ MODULE Coupling ------------------------------
(***************************************************************************)
(* How the three stacks of parse() hang together: the symbols still to be  *)
(* matched, the analyzers of the rules they come from, and the tables of   *)
(* symbols.  Places and Rows number the places of the rules of each        *)
(* semantic action and say in which states its analyzer may stand there;   *)
(* TInv, the inductive invariant of Translator, is built on them.  BInv    *)
(* adds which of the symbols still close one of the open blocks.           *)
(***************************************************************************)
EXTENDS Translator, SequenceLemmas

(* Places(action) holds <<i, s, j>> where s, or a symbol that s is         *)
(* rewritten to, stands at place i of the rule of the action and j is the  *)
(* place behind it, 0 at the end of the rule.  Rows(action) holds          *)
(* <<state, above, i>> where its analyzer may be in the state at place i,  *)
(* with nothing, the value of an expression, a parameter or the analyzer   *)
(* of another statement above it.                                          *)
Expressions == {"NT_EXPRESSION"}
Statements == {"NT_INNER_STMT", "NT_VAR_DECL", "NT_ASSIGNMENT", "NT_IF_STMT", "NT_SCOPE_STMT",
               "NT_DO_STMT", "NT_FOR_STMT", "NT_PRINT_STMT", "NT_INPUT_STMT", "NT_RETURN_STMT",
               "NT_EXIT_STMT", "NT_CONTINUE_STMT"}
TypeSymbols == Types \cup {"NT_TYPE"}

ProgramPlaces ==
    {<<10, "NT_LINE", 1>>, <<9, "NT_GLOBAL_STMT", 8>>, <<8, "NT_SCOPE_STMT", 7>>,
     <<7, "NT_LINE_END", 1>>, <<6, "EOL", 7>>, <<5, "NT_FUNC_DECL", 4>>, <<5, "NT_FUNC_DEF", 4>>,
     <<5, "NT_SHARED_VAR", 4>>, <<4, "EOL", 9>>, <<1, "EOF", 0>>}

ScopePlaces ==
    {<<5, "SCOPE", 4>>, <<4, "EOL", 3>>, <<3, "NT_STMT_SEQ", 2>>, <<2, "END", 1>>, <<1, "SCOPE", 0>>}
    \cup {<<6, s, 4>> : s \in Statements}
ScopeRows ==
    {<<"START", "none", 5>>}
    \cup {<<"SCOPE_END", above, i>> : above \in {"none", "other"}, i \in {4, 3, 6, 2, 1}}

PrintPlaces ==
    {<<4, "PRINT", 3>>, <<3, "NT_EXPRESSION", 2>>, <<2, "SEMICOLON", 1>>, <<1, "NT_EXPRESSION_LIST", 0>>}
PrintRows ==
    {<<"START", "none", i>> : i \in {4, 3, 2, 1, 0}} \cup {<<"START", "expr", 2>>}

InputPlaces == {<<2, "INPUT", 1>>, <<1, "IDENTIFIER", 0>>}
InputRows == {<<"START", "none", i>> : i \in {2, 1, 0}}

AssignPlaces ==
    {<<3, "IDENTIFIER", 2>>, <<1, "NT_EXPRESSION", 0>>}
    \cup {<<2, s, 1>> : s \in AssignOperators \cup {"NT_ASSIGN_OPERATOR"}}
AssignRows ==
    {<<"START", "none", 3>>, <<"OPERATOR", "none", 2>>, <<"OPERAND", "none", 1>>,
     <<"OPERAND", "expr", 0>>}

ReturnPlaces == {<<2, "RETURN", 1>>, <<1, "NT_EXPRESSION", 0>>}
ReturnRows == {<<"START", "none", 2>>, <<"START", "none", 1>>, <<"START", "expr", 0>>}

ConditionPlaces ==
    {<<9, "IF", 8>>, <<8, "NT_EXPRESSION", 7>>, <<7, "THEN", 6>>, <<6, "EOL", 5>>,
     <<5, "NT_STMT_SEQ", 4>>, <<4, "NT_IF_STMT_ELSEIF", 3>>, <<3, "NT_IF_STMT_ELSE", 2>>,
     <<2, "END", 1>>, <<1, "IF", 0>>, <<11, "ELSEIF", 8>>, <<14, "ELSE", 13>>, <<13, "EOL", 12>>,
     <<12, "NT_STMT_SEQ", 2>>}
    \cup {<<10, s, 6>> : s \in Statements} \cup {<<15, s, 13>> : s \in Statements}
ConditionRows ==
    {<<"START", "none", 9>>, <<"START", "none", 8>>, <<"START", "expr", 7>>,
     <<"IF_EOL", "none", 7>>, <<"IF_EOL", "none", 6>>, <<"IF_ELSEIF_COND", "none", 8>>,
     <<"IF_ELSEIF_COND", "expr", 7>>, <<"IF_ELSEIF_EOL", "none", 7>>, <<"IF_ELSEIF_EOL", "none", 6>>}
    \cup {<<"IF_CONT", above, i>> : above \in {"none", "other"}, i \in {6, 5, 10, 4, 11, 3, 14, 2}}
    \cup {<<"IF_ELSE", above, i>> : above \in {"none", "other"}, i \in {13, 12, 15, 2}}

DoPlaces ==
    {<<20, "DO", 19>>, <<19, "NT_DO_STMT_END", 0>>, <<15, "NT_TEST_TYPE_START", 14>>,
     <<15, "WHILE", 14>>, <<15, "UNTIL", 14>>, <<14, "NT_EXPRESSION", 13>>, <<13, "EOL", 12>>,
     <<12, "NT_STMT_SEQ", 11>>, <<11, "LOOP", 0>>, <<5, "EOL", 4>>, <<4, "NT_STMT_SEQ", 3>>,
     <<3, "LOOP", 2>>, <<2, "NT_TEST_TYPE_END", 0>>, <<8, "WHILE", 7>>, <<8, "UNTIL", 7>>,
     <<7, "NT_EXPRESSION", 0>>}
    \cup {<<16, s, 13>> : s \in Statements} \cup {<<6, s, 5>> : s \in Statements}
DoRows ==
    {<<"START", "none", 20>>, <<"DO_TEST_TYPE", "none", 19>>, <<"DO_TEST_TYPE", "none", 15>>,
     <<"DO_TEST_TYPE", "none", 5>>, <<"DO_TEST_TYPE_END", "none", 2>>,
     <<"DO_TEST_TYPE_END", "none", 8>>, <<"DO_TEST_TYPE_END", "none", 0>>}
    \cup {<<s, "none", 14>> : s \in {"DO_WHILE", "DO_UNTIL"}}
    \cup {<<s, "expr", 13>> : s \in {"DO_WHILE", "DO_UNTIL"}}
    \cup {<<s, "none", 7>> : s \in {"DO_WHILE_END", "DO_UNTIL_END"}}
    \cup {<<s, "expr", 0>> : s \in {"DO_WHILE_END", "DO_UNTIL_END"}}
    \cup {<<"DO_LOOP_TEST_START", above, i>> : above \in {"none", "other"}, i \in {13, 12, 16, 11}}
    \cup {<<"DO_LOOP_TEST_END", above, i>> : above \in {"none", "other"}, i \in {5, 4, 6, 3}}

ForPlaces ==
    {<<12, "FOR", 11>>, <<11, "IDENTIFIER", 10>>, <<10, "NT_TYPE_OPT", 9>>, <<9, "EQUAL", 8>>,
     <<8, "NT_EXPRESSION", 7>>, <<7, "TO", 6>>, <<6, "NT_EXPRESSION", 5>>, <<5, "NT_STEP_OPT", 4>>,
     <<4, "EOL", 3>>, <<3, "NT_STMT_SEQ", 2>>, <<2, "NEXT", 1>>, <<1, "NT_ID_OPT", 0>>,
     <<1, "IDENTIFIER", 0>>, <<14, "AS", 13>>, <<16, "STEP", 15>>, <<15, "NT_EXPRESSION", 4>>}
    \cup {<<13, s, 9>> : s \in TypeSymbols} \cup {<<17, s, 4>> : s \in Statements}
ForRows ==
    {<<"START", "none", 12>>, <<"START", "none", 11>>}
    \cup {<<"FOR_ITERATOR", "none", i>> : i \in {10, 14, 13, 9}}
    \cup {<<"FOR_INIT", "none", 9>>, <<"FOR_INIT", "none", 8>>, <<"FOR_INIT", "expr", 7>>}
    \cup {<<"FOR_ENDVAL", "none", 7>>, <<"FOR_ENDVAL", "none", 6>>}
    \cup {<<"FOR_ENDVAL", "expr", i>> : i \in {5, 16, 4}}
    \cup {<<"FOR_STEP", "none", 16>>, <<"FOR_STEP", "none", 15>>, <<"FOR_STEP", "expr", 4>>}
    \cup {<<"FOR_NEXT", above, i>> : above \in {"none", "other"}, i \in {4, 3, 17, 2}}
    \cup {<<"FOR_END", "none", 1>>, <<"FOR_END", "none", 0>>}

JumpPlaces(start) ==
    {<<5, start, 4>>, <<4, "NT_LOOP_TYPE", 3>>, <<4, "DO", 3>>,
     <<4, "FOR", 3>>, <<3, "NT_LOOP_TYPE_END", 0>>, <<2, "COMMA", 4>>}
JumpRows ==
    {<<"START", "none", 5>>} \cup {<<"NEXT_LOOP_TYPE", "none", i>> : i \in {4, 3, 2, 0}}

VarPlaces ==
    {<<8, "DIM", 6>>, <<8, "STATIC", 6>>, <<9, "DIM", 7>>, <<7, "SHARED", 6>>, <<6, "NT_VAR_DEF", 0>>,
     <<5, "IDENTIFIER", 4>>, <<4, "AS", 3>>, <<2, "NT_INIT_OPT", 0>>, <<1, "EQUAL", 10>>,
     <<10, "NT_EXPRESSION", 0>>}
    \cup {<<3, s, 2>> : s \in TypeSymbols}
VarRows ==
    {<<"START", "none", i>> : i \in {8, 9, 7, 6, 5}}
    \cup {<<s, "none", i>> : s \in {"VAR_ID", "VAR_ID_STATIC", "VAR_ID_SHARED"}, i \in {6, 5}}
    \cup {<<"VAR_TYPE", "none", 4>>, <<"VAR_TYPE", "none", 3>>}
    \cup {<<"ASSIGN", "none", i>> : i \in {2, 1, 10, 0}} \cup {<<"ASSIGN", "expr", 0>>}

ParamPlaces ==
    {<<4, "IDENTIFIER", 3>>, <<3, "AS", 2>>} \cup {<<2, s, 0>> : s \in TypeSymbols}
ParamRows == {<<"START", "none", 4>>, <<"VAR_TYPE", "none", 3>>, <<"VAR_TYPE", "none", 2>>}

DeclPlaces ==
    {<<10, "DECLARE", 9>>, <<9, "FUNCTION", 8>>, <<8, "IDENTIFIER", 7>>, <<7, "LPAR", 6>>,
     <<6, "NT_PARAMS", 5>>, <<5, "RPAR", 4>>, <<4, "AS", 3>>, <<11, "NT_PARAM_DECL", 12>>,
     <<12, "NT_PARAMS_NEXT", 5>>, <<13, "COMMA", 11>>}
    \cup {<<3, s, 0>> : s \in TypeSymbols}
DeclRows ==
    {<<"START", "none", i>> : i \in {10, 9, 8}}
    \cup {<<"VAR_TYPE", "none", i>> : i \in {7, 6, 11, 12, 13, 5}}
    \cup {<<"VAR_TYPE", "param", i>> : i \in {12, 13, 5}}
    \cup {<<"FUNC_RETURN_TYPE", "none", 4>>, <<"FUNC_RETURN_TYPE", "none", 3>>, <<"EOL", "none", 0>>}

DefPlaces ==
    {<<11, "FUNCTION", 10>>, <<10, "IDENTIFIER", 9>>, <<9, "LPAR", 8>>, <<8, "NT_PARAMS", 7>>,
     <<7, "RPAR", 6>>, <<6, "AS", 5>>, <<4, "EOL", 3>>, <<3, "NT_STMT_SEQ", 2>>, <<2, "END", 1>>,
     <<1, "FUNCTION", 0>>, <<12, "NT_PARAM_DECL", 13>>, <<13, "NT_PARAMS_NEXT", 7>>,
     <<14, "COMMA", 12>>}
    \cup {<<5, s, 4>> : s \in TypeSymbols} \cup {<<15, s, 4>> : s \in Statements}
DefRows ==
    {<<"START", "none", 11>>, <<"START", "none", 10>>}
    \cup {<<s, "none", i>> : s \in {"VAR_TYPE", "DECLARED_VAR_TYPE"}, i \in {9, 8, 12, 13, 14, 7}}
    \cup {<<s, "param", i>> : s \in {"VAR_TYPE", "DECLARED_VAR_TYPE"}, i \in {13, 14, 7}}
    \cup {<<s, "none", i>> : s \in {"FUNC_RETURN_TYPE", "DECLARED_RETURN_TYPE"}, i \in {6, 5}}
    \cup {<<"FUNC_END", above, i>> : above \in {"none", "other"}, i \in {4, 3, 15, 2, 1}}

Places(action) ==
    CASE action = "program" -> ProgramPlaces [] action = "sem_scope" -> ScopePlaces
      [] action = "sem_print" -> PrintPlaces [] action = "sem_input" -> InputPlaces
      [] action = "sem_expr_assign" -> AssignPlaces [] action = "sem_return" -> ReturnPlaces
      [] action = "sem_condition" -> ConditionPlaces [] action = "sem_do_loop" -> DoPlaces
      [] action = "sem_for_loop" -> ForPlaces
      [] action = "sem_exit" -> JumpPlaces("EXIT")
      [] action = "sem_continue" -> JumpPlaces("CONTINUE")
      [] action = "sem_var_decl" -> VarPlaces [] action = "sem_param_decl" -> ParamPlaces
      [] action = "sem_func_decl" -> DeclPlaces [] action = "sem_func_def" -> DefPlaces
      [] OTHER -> {}
Rows(action) ==
    CASE action = "sem_scope" -> ScopeRows
      [] action = "sem_print" -> PrintRows [] action = "sem_input" -> InputRows
      [] action = "sem_expr_assign" -> AssignRows [] action = "sem_return" -> ReturnRows
      [] action = "sem_condition" -> ConditionRows [] action = "sem_do_loop" -> DoRows
      [] action = "sem_for_loop" -> ForRows
      [] action \in {"sem_exit", "sem_continue"} -> JumpRows
      [] action = "sem_var_decl" -> VarRows [] action = "sem_param_decl" -> ParamRows
      [] action = "sem_func_decl" -> DeclRows [] action = "sem_func_def" -> DefRows
      [] OTHER -> {}

IsValue(value) == {"value_type", "token"} \subseteq DOMAIN value
Quiet(value) == IsValue(value) /\ (value.value_type = "TOKEN" => value.token \in {"IDENTIFIER", "uninitialised"})
IsAnalyzer(a) ==
    /\ DOMAIN a = {"sem_action", "state", "finished", "value"}
    /\ a.finished \in BOOLEAN /\ Quiet(a.value)

\* What holds of Parser whatever is on its stack
Fields == {"sem_an_stack", "sym_tab_stack", "sym_tab_global", "sym_tab_functions", "il", "il_override",
           "static_var_decl", "step_found", "seed", "active", "last_loop_type", "op"}
Fit(p) ==
    /\ DOMAIN p = Fields
    /\ IsSeq(p.sem_an_stack) /\ \A k \in 1 .. Len(p.sem_an_stack) : IsAnalyzer(p.sem_an_stack[k])
    /\ IsSeq(p.sym_tab_stack)

Tables(p) == Len(p.sym_tab_stack)

\* States in which a statement has a table of its own
OneTable ==
    {<<"sem_scope", "SCOPE_END">>, <<"sem_condition", "IF_CONT">>, <<"sem_condition", "IF_ELSE">>}
    \cup {<<"sem_do_loop", s>> : s \in {"DO_TEST_TYPE", "DO_WHILE", "DO_UNTIL", "DO_LOOP_TEST_START",
                                          "DO_LOOP_TEST_END"}}
    \cup {<<"sem_for_loop", s>> : s \in {"FOR_INIT", "FOR_ENDVAL", "FOR_STEP", "FOR_NEXT", "FOR_END"}}
    \cup {<<"sem_func_decl", s>> : s \in {"VAR_TYPE", "FUNC_RETURN_TYPE", "EOL"}}
    \cup {<<"sem_func_def", s>> : s \in {"VAR_TYPE", "DECLARED_VAR_TYPE", "FUNC_RETURN_TYPE",
                                           "DECLARED_RETURN_TYPE", "FUNC_END"}}
Has(action, state, finished) == ~finished /\ <<action, state>> \in OneTable
TablesOf(action, state, finished) == IF Has(action, state, finished) THEN 1 ELSE 0
TablesHeld(a) == TablesOf(a.sem_action, a.state, a.finished)
-----------------------------------------------------------------------------
(* The two stacks together.  Of the m symbols on dtree_stack the h-th from *)
(* the bottom, sym[h], comes from the rule of analyzer own[h], counted from*)
(* the bottom as well, 0 for the program; it stands at place lab[h] of that*)
(* rule.  cur[d] is the place the rule of analyzer d has come to.          *)
ActionAt(an, d) == IF d = 0 THEN "program" ELSE an[d].sem_action
Over(a) == a.finished = TRUE

\* The place of the symbol below the h-th in the same rule
Below(own, lab, h) == IF h > 1 /\ own[h - 1] = own[h] THEN lab[h - 1] ELSE 0

Ordered(m, own, n) ==
    /\ m \in Nat \ {0} /\ n \in Nat /\ own[1] = 0
    /\ \A h \in 1 .. m : own[h] \in 0 .. n
    /\ \A g, h \in 1 .. m : g <= h => own[g] <= own[h]
Placed(m, sym, own, lab, an) ==
    \A h \in 1 .. m : <<lab[h], sym[h], Below(own, lab, h)>> \in Places(ActionAt(an, own[h]))
Current(m, own, lab, cur, n) ==
    /\ \A h \in 1 .. m : h = m \/ own[h + 1] # own[h] => cur[own[h]] = lab[h]
    /\ \A d \in 0 .. n : (\A h \in 1 .. m : own[h] # d) => cur[d] = 0
Heights(m, sym, own, lab, cur, n, an) ==
    Ordered(m, own, n) /\ Placed(m, sym, own, lab, an) /\ Current(m, own, lab, cur, n)

\* What lies above analyzer d
AboveAt(n, an, d) ==
    IF d = n THEN "none"
    ELSE IF an[d + 1].sem_action = "sem_expr_result" THEN "expr"
    ELSE IF an[d + 1].sem_action = "sem_param_decl" THEN "param" ELSE "other"
Standing(n, an, cur, d) ==
    IF Over(an[d]) THEN cur[d] = 0 \/ (an[d].sem_action = "sem_condition" /\ cur[d] = 1 /\ d = n)
    ELSE <<an[d].state, AboveAt(n, an, d), cur[d]>> \in Rows(an[d].sem_action)
Rowed(n, an, cur) == \A d \in 1 .. n : Standing(n, an, cur, d)

\* Values of expressions and parameters are passed to the analyzer below.
Speaks(a) == a.sem_action \in {"sem_expr_result", "sem_param_decl"}
Heard(n, an, d) ==
    /\ Speaks(an[d]) => d = n /\ d > 1 /\ ~Over(an[d - 1])
    /\ an[d].sem_action = "sem_expr_result" => Over(an[d]) /\ an[d].value.value_type = "ID"
Voiced(n, an) == \A d \in 1 .. n : Heard(n, an, d)

\* A statement whose symbols are all matched ends at the end of the line.
Loose(a) == ~Over(a) /\ a.sem_action \notin {"sem_scope", "sem_param_decl", "sem_expr_result"}
DefOver(a) == a.sem_action = "sem_func_def" /\ Over(a)
Between(m, own, h, d) == own[h] < d /\ (h = m \/ d <= own[h + 1])
Lined(m, sym, own, n, an) ==
    \A h \in 1 .. m, d \in 1 .. n : Between(m, own, h, d) /\ Loose(an[d]) => sym[h] = "EOL"

Coupled(m, sym, own, lab, cur, n, an) ==
    /\ Heights(m, sym, own, lab, cur, n, an)
    /\ Rowed(n, an, cur) /\ Voiced(n, an) /\ Lined(m, sym, own, n, an)
Joined(m, sym, own, n, an) == \E lab, cur : Coupled(m, sym, own, lab, cur, n, an)
-----------------------------------------------------------------------------
(* The tables of the analyzers, added up                                   *)
Adds(n, an, total, c) ==
    /\ c[0] = 0 /\ c[n] = total /\ \A d \in 0 .. n : c[d] \in Nat
    /\ \A d \in 1 .. n : c[d] = c[d - 1] + TablesHeld(an[d])
Sums(n, an, total) == \E c : Adds(n, an, total, c)
-----------------------------------------------------------------------------
(* Parser and its stack of analyzers                                       *)
Height(p) == Len(p.sem_an_stack)
Frames(p) == Flip(p.sem_an_stack)

FlagsOf(p, a) ==
    /\ p.static_var_decl # FALSE \/ p.il_override # "none" =>
          a.sem_action = "sem_var_decl" /\ ~a.finished /\ a.state \in {"VAR_TYPE", "ASSIGN"}
    /\ p.last_loop_type # "none" =>
          a.sem_action \in {"sem_exit", "sem_continue"} /\ ~a.finished /\ a.state = "NEXT_LOOP_TYPE"
NoFlags(p) == p.static_var_decl = FALSE /\ p.il_override = "none" /\ p.last_loop_type = "none"

\* The flags belong to the topmost analyzer that is not the value of an
\* expression.
FlagsKept(p, n, an) ==
    IF n = 0 THEN NoFlags(p)
    ELSE FlagsOf(p, IF an[n].sem_action = "sem_expr_result" THEN an[n - 1] ELSE an[n])

\* step_found is set between the end value of a FOR and STEP, the next token.
StepSeen(p, n, an, id) ==
    /\ p.step_found \in BOOLEAN
    /\ p.step_found = TRUE <=> n > 0 /\ an[n].sem_action = "sem_expr_result" /\ id = "STEP"

Kept(p, id) ==
    /\ Fit(p) /\ Sums(Height(p), Frames(p), Tables(p))
    /\ FlagsKept(p, Height(p), Frames(p)) /\ StepSeen(p, Height(p), Frames(p), id)
-----------------------------------------------------------------------------
(* dtree_stack, its owners and the stack of analyzers, counted from the    *)
(* bottom                                                                  *)
Paired(s, o, st) ==
    /\ IsSeq(s) /\ IsSeq(o) /\ Len(o) = Len(s)
    /\ Joined(Len(s), Flip(s), Flip(o), Len(st), Flip(st))
-----------------------------------------------------------------------------
(* The inductive invariant of parse() with the semantic actions            *)
NextUp == IF pc = "get_token" THEN backlog_token ELSE token
ValueOnTop(p) == Height(p) > 0 /\ Frames(p)[Height(p)].sem_action = "sem_expr_result"

\* The analyzer the matched token belongs to is there and reads it, but for
\* the IF behind END.
OwnerReads ==
    owner \in 0 .. Height(parser) /\ (owner = 0 \/ ~Over(Frames(parser)[owner]))

\* The owner of the symbol on the top has not finished.
OwnerLives(m, own, n, an) == own[m] \in 0 .. n /\ (own[m] = 0 \/ ~Over(an[own[m]]))
StacksPaired ==
    IF pc = "semantics" /\ OwnerReads
    THEN Paired(<<last_matched>> \o dtree_stack, <<owner>> \o owners, parser.sem_an_stack)
    ELSE Paired(dtree_stack, owners, parser.sem_an_stack)

\* Nobody reads that IF: what it meets is an open block.
Closed(p, s, o, d, n, an) ==
    /\ d \in Nat /\ n <= d /\ (n = d => n > 0 /\ Over(an[n]))
    /\ n > 0 => ~Speaks(an[n])
    /\ n > 0 /\ n < d /\ ~Over(an[n]) => \E i : <<an[n].state, "other", i>> \in Rows(an[n].sem_action)
    /\ OwnerLives(Len(s), Flip(o), n, an)
IFIsClosed ==
    token.id = "IF" /\ Closed(parser, dtree_stack, owners, owner, Height(parser), Frames(parser))

Working ==
    /\ Kept(parser, NextUp.id) /\ StacksPaired /\ IsSeq(dtree_stack) /\ IsSeq(owners)
    /\ Len(owners) = Len(dtree_stack)
    /\ pc = "get_token" /\ ValueOnTop(parser) => backlog_token # NoToken
    /\ pc = "expression" => dtree_stack # << >> /\ Top = "NT_EXPRESSION" /\ token = NoToken
    /\ pc = "semantics" => /\ token.id = last_matched /\ token.id \notin Nonterminals
                           /\ ~OwnerReads => IFIsClosed

TInv ==
    /\ source \in Programs /\ (pc # "done" => Working) /\ NothingLeft
-----------------------------------------------------------------------------
(* Symbols that are still to close a block, and the keyword that block was *)
(* opened with.  blocks are the b open blocks, the outermost first, and    *)
(* c[h] of them are closed by the lowest h symbols.                        *)
Closers == {"END", "LOOP", "NEXT", "NT_DO_STMT_END"}
ClosedAt(sym, h) == IF sym[h] = "END" THEN sym[h - 1] ELSE IF sym[h] = "NEXT" THEN "FOR" ELSE "DO"
CloserAt(sym, h) == IF sym[h] \in Closers THEN 1 ELSE 0
Counts(m, sym, b, c) ==
    /\ b \in Nat /\ c[0] = 0 /\ c[m] = b /\ \A h \in 0 .. m : c[h] \in Nat
    /\ \A g, h \in 0 .. m : g <= h => c[g] <= c[h]
    /\ \A h \in 1 .. m : c[h] = c[h - 1] + CloserAt(sym, h)
ClosesBlocks(m, sym, blocks, c) ==
    \A h \in 1 .. m : sym[h] \in Closers =>
        blocks[c[h]] = ClosedAt(sym, h) /\ (sym[h] = "END" => h > 1)
Nests(m, sym, b, blocks) == \E c : Counts(m, sym, b, c) /\ ClosesBlocks(m, sym, blocks, c)
Nested(s, t) == IsSeq(s) /\ IsSeq(t) /\ Nests(Len(s), Flip(s), Len(t), Flip(t))
-----------------------------------------------------------------------------
(* What follows what: the words that open and close blocks are known by    *)
(* the word before them, on the stack and in the program.                  *)
JumpWords == {"EXIT", "CONTINUE", "COMMA"}
LineStart == {"EOL", "none"}
Starting == {"NT_LINE", "NT_GLOBAL_STMT", "NT_SCOPE_STMT", "NT_STMT_SEQ", "NT_INNER_STMT", "NT_IF_STMT",
             "NT_DO_STMT", "NT_FOR_STMT", "NT_FUNC_DEF"}
EndedByWord == {"SCOPE", "IF", "FUNCTION"}
MayPrecede(a, b) ==
    /\ a = "END" => b \in EndedByWord
    /\ b \in Starting => a \in {"EOL", "NT_GLOBAL_STMT"}
    /\ b = "NT_LOOP_TYPE" => a \in JumpWords
    /\ b \in EndedByWord => a \in {"END", "DECLARE"}
    /\ b \notin {"DO", "FOR"}
MayFollow(last, top) ==
    /\ last = "END" => top \in EndedByWord
    /\ top \in Starting => last \in LineStart
    /\ top = "NT_LOOP_TYPE" => last \in JumpWords
    /\ top \in EndedByWord => last \in LineStart \cup {"END", "DECLARE"}
    /\ top \in {"DO", "FOR"} => last \in LineStart \cup JumpWords
-----------------------------------------------------------------------------
(* The open blocks and what closes them: behind END its keyword is still   *)
(* to come, and a keyword on the top at the start of a line is about to    *)
(* open a block.                                                           *)
Opening(s, last) == Len(s) > 0 /\ Head(s) \in BlockKeywords /\ last \in LineStart
StillToClose(s, last) == IF last = "END" THEN <<"END">> \o s ELSE s
Opened(s, last, blocks) == IF Opening(s, last) THEN <<Head(s)>> \o blocks ELSE blocks
Outermost(blocks) == \A k \in 1 .. Len(blocks) : blocks[k] = "FUNCTION" => k = Len(blocks)
Adjacent(s) == \A k \in 1 .. Len(s) - 1 : MayPrecede(s[k], s[k + 1])
Following(s, last) == Adjacent(s) /\ (Len(s) > 0 => MayFollow(last, Head(s)))
Tracked(s, last, blocks) ==
    /\ IsSeq(s) /\ IsSeq(blocks) /\ Following(s, last)
    /\ Nested(StillToClose(s, last), Opened(s, last, blocks)) /\ Outermost(Opened(s, last, blocks))

\* EOL is the next symbol to be matched.
EndOnTop == Len(dtree_stack) > 0 /\ Head(dtree_stack) = "EOL"
-----------------------------------------------------------------------------
(* The steps of parse() and the open blocks.  A definition of a function   *)
(* is over only where its line ends.                                       *)
LineEnds == EndOnTop \/ (pc = "semantics" /\ last_matched = "EOL")
DefsGone(p, ends) == \A d \in 1 .. Height(p) : DefOver(Frames(p)[d]) => d = Height(p) /\ ends

BInv == pc # "done" => Tracked(dtree_stack, last_matched, open_blocks) /\ DefsGone(parser, LineEnds)

\* What an analyzer may get, and the place of its rule it is then at
Reads(p, value, j) ==
    /\ IsValue(value) /\ value.value_type = "TOKEN" /\ value.token \notin Nonterminals
    /\ p.step_found = FALSE
    /\ \E i : /\ <<Me(p).state, "none", i>> \in Rows(Me(p).sem_action)
              /\ <<i, value.token, j>> \in Places(Me(p).sem_action)
EndsLine(p, value, j) ==
    /\ IsValue(value) /\ value.value_type = "TOKEN" /\ value.token = "EOL" /\ j = 0
    /\ p.step_found = FALSE
    /\ <<Me(p).state, "none", 0>> \in Rows(Me(p).sem_action)
Evaluates(p, value, j) ==
    /\ IsValue(value) /\ value.value_type = "ID"
    /\ <<Me(p).state, "expr", j>> \in Rows(Me(p).sem_action)
    /\ p.step_found \in BOOLEAN
    /\ p.step_found = TRUE <=> Me(p).sem_action = "sem_for_loop" /\ j = 16
    /\ Me(p).sem_action = "sem_for_loop" => j # 5
TakesParam(p, value, j) ==
    /\ Quiet(value) /\ p.step_found = FALSE
    /\ <<Me(p).state, "param", j>> \in Rows(Me(p).sem_action)
Expected(p, value, j) ==
    Reads(p, value, j) \/ EndsLine(p, value, j) \/ Evaluates(p, value, j) \/ TakesParam(p, value, j)
-----------------------------------------------------------------------------
(* The tables of the analyzers and the blocks still to close               *)

\* The places of a rule behind which the block of its statement ends
OpenPlaces(action) ==
    CASE action = "sem_scope" -> 2 .. 6
      [] action \in {"sem_condition", "sem_func_def"} -> 2 .. 15
      [] action = "sem_do_loop" -> 3 .. 6 \cup 11 .. 20
      [] action = "sem_for_loop" -> 2 .. 17
      [] OTHER -> {}
Ind(x) == IF x THEN 1 ELSE 0

\* The word of a block and the analyzer of its statement
Matches(word, action) ==
    <<word, action>> \in {<<"SCOPE", "sem_scope">>, <<"IF", "sem_condition">>, <<"FUNCTION", "sem_func_def">>,
                          <<"DO", "sem_do_loop">>, <<"FOR", "sem_for_loop">>}
EndsAt(i, s, j, action) ==
    /\ i \in OpenPlaces(action) <=> j \in OpenPlaces(action) \/ s \in Closers
    /\ s \in Closers => j \notin OpenPlaces(action) /\ action # "program"
    /\ s = "END" => j = 1 /\ \A w, k : <<1, w, k>> \in Places(action) => Matches(w, action)
    /\ s \in Closers /\ s # "END" => Matches(IF s = "NEXT" THEN "FOR" ELSE "DO", action)
    /\ s = "NT_INNER_STMT" => i \in OpenPlaces(action) /\ action # "program"
    /\ s \in {"END", "DECLARE"} => j # 0

\* An analyzer has a table, and has not finished, while its block is open.
HeldAt(an, cur, d) ==
    /\ TablesHeld(an[d]) = Ind(cur[d] \in OpenPlaces(an[d].sem_action))
    /\ ~Over(an[d]) <=> cur[d] \in OpenPlaces(an[d].sem_action)

\* The d-th analyzer, unfinished, belongs to a block, a finished one to none.
BlockHeld(an, b, blocks, u, d) ==
    IF Over(an[d]) THEN u[d] = u[d - 1]
    ELSE u[d] = u[d - 1] + 1 /\ u[d] \in 1 .. b /\ Matches(blocks[u[d]], an[d].sem_action)

\* Their number, counted from the top
Filled(n, an, b, blocks, u) ==
    /\ u[0] = 0 /\ u[n] = b /\ \A d \in 0 .. n : u[d] \in Nat
    /\ \A d \in 1 .. n : BlockHeld(an, b, blocks, u, d)
=============================================================================
