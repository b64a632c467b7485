----------------------------- MODULE SemActions -----------------------------
(***************************************************************************)
(* src/src/sem_analyzer.c: the semantic actions of statements, each a      *)
(* state machine.  An action gets the Parser, whose topmost analyzer is    *)
(* its own, and one value: a token, or the value of an analyzer that       *)
(* finished above it.  What no state expects is ignored.                   *)
(***************************************************************************)
EXTENDS Compiler

-----------------------------------------------------------------------------
(* SCOPE, PRINT, INPUT, assignment *)

sem_scope(p, value) ==
    CASE Me(p).state = "START" /\ IsToken(value, {"SCOPE"}) ->
            IF ~InFunction(p) /\ p.sym_tab_stack = << >> /\ ~AllDefined(p)
            THEN Error("PROG_ERROR", p)
            ELSE Ok(Become(Emit(create_scope(p), <<Plain("CREATEFRAME"), Plain("PUSHFRAME")>>), "SCOPE_END"))
      [] Me(p).state = "SCOPE_END" /\ IsToken(value, {"SCOPE"}) ->
            Ok(Finish(delete_scope(Emit(p, <<Plain("POPFRAME")>>))))
      [] OTHER -> Ok(p)

sem_print(p, value) ==
    CASE IsId(value) -> Ok(Emit(p, <<instruction("WRITE", <<GlobalVar(value.key)>>)>>))
      [] IsToken(value, {"EOL"}) -> Ok(Finish(p))
      [] OTHER -> Ok(p)

\* A prompt, and what is read has the type of the variable.
ReadVariable(p, symbol) ==
    <<instruction("WRITE", <<addr_constant("KW_STRING")>>),
      instruction("READ", <<VarAddr(p, symbol.key), addr_constant(symbol.type)>>)>>

\* Mutated: the statement does not end with its line.
sem_input_goes_on(p, value) ==
    IF ~IsToken(value, {"IDENTIFIER"}) THEN Ok(p)
    ELSE LET symbol == find_symbol(p, value.key)
         IN  IF symbol = NoValue THEN Error("PROG_ERROR", p)
             ELSE Ok(Emit(p, ReadVariable(p, symbol)))

sem_input(p, value) ==
    CASE IsToken(value, {"IDENTIFIER"}) ->
            LET symbol == find_symbol(p, value.key)
            IN  IF symbol = NoValue THEN Error("PROG_ERROR", p)
                ELSE Ok(Emit(p, ReadVariable(p, symbol)))
      [] IsToken(value, {"EOL"}) -> Ok(Finish(p))
      [] OTHER -> Ok(p)

\* The types an assignment operator accepts
Assignable(op, type, value_type) ==
    CASE op = "EQUAL" -> are_types_compatible(type, value_type)
      [] op = "ADD_ASIGN" /\ type = "KW_STRING" -> value_type = "KW_STRING"
      [] op = "DIVI_ASIGN" -> type \in Numbers
      [] OTHER -> type \in Numbers /\ value_type \in Numbers

\* The number in an address of this type converted to the other type, in
\* place or into another address
Convert(op, address) == instruction(op, <<address, address>>)

\* Mutated: the fraction is cut off.
StoreTruncated(address, type, from, from_type) ==
    CASE <<type, from_type>> = <<"KW_DOUBLE", "KW_INTEGER">> -> instruction("INT2FLOAT", <<address, from>>)
      [] <<type, from_type>> = <<"KW_INTEGER", "KW_DOUBLE">> -> instruction("FLOAT2INT", <<address, from>>)
      [] OTHER -> Move(address, from)

StoreAs(address, type, from, from_type) ==
    CASE <<type, from_type>> = <<"KW_DOUBLE", "KW_INTEGER">> -> instruction("INT2FLOAT", <<address, from>>)
      [] <<type, from_type>> = <<"KW_INTEGER", "KW_DOUBLE">> -> instruction("FLOAT2R2EINT", <<address, from>>)
      [] OTHER -> Move(address, from)

\* Mutated: an integer stays one.
AsItIs(address, type) == << >>

\* A number as a real one, and the same rounded to a whole one first
AsReal(address, type) == IF type = "KW_INTEGER" THEN <<Convert("INT2FLOAT", address)>> ELSE << >>
AsWhole(address, type) ==
    CASE type = "KW_INTEGER" -> <<Convert("INT2FLOAT", address)>>
      [] type = "KW_DOUBLE" -> <<Convert("FLOAT2R2EINT", address), Convert("INT2FLOAT", address)>>
      [] OTHER -> << >>

\* target is the variable and its type, from EXPR_VALUE and its type.
AssignCode(op, target, type, from, from_type) ==
    LET real == op = "DIVR_ASIGN" \/ (op # "DIVI_ASIGN" /\ {type, from_type} = Numbers)
        operation == CASE op = "ADD_ASIGN" -> "ADD" [] op = "SUB_ASIGN" -> "SUB"
                       [] op = "MUL_ASIGN" -> "MUL" [] op \in {"DIVR_ASIGN", "DIVI_ASIGN"} -> "DIV"
                       [] op = "EQUAL" -> "MOVE"
        compute == IF op = "EQUAL" THEN Move(target, from)
                   ELSE instruction(operation, <<target, target, from>>)
    IN  CASE op = "ADD_ASIGN" /\ type = "KW_STRING" -> <<instruction("CONCAT", <<target, target, from>>)>>
          [] op = "DIVI_ASIGN" ->
                AsWhole(target, type) \o AsWhole(from, from_type) \o <<compute, Convert("FLOAT2INT", target)>>
                \o (IF type = "KW_DOUBLE" THEN <<Convert("INT2FLOAT", target)>> ELSE << >>)
          [] real -> AsReal(target, type) \o AsReal(from, from_type) \o <<compute>>
                     \o (IF type = "KW_INTEGER" THEN <<Convert("FLOAT2R2EINT", target)>> ELSE << >>)
          [] OTHER -> <<compute>>

sem_expr_assign(p, value) ==
    CASE Me(p).state = "START" /\ IsToken(value, {"IDENTIFIER"}) ->
            LET symbol == find_symbol(p, value.key)
            IN  IF symbol = NoValue THEN Error("PROG_ERROR", p)
                ELSE Ok(Become(Hold(p, symbol), "OPERATOR"))
      [] Me(p).state = "OPERATOR" /\ value.value_type = "TOKEN" ->
            IF value.token = "DIVR_ASIGN" /\ Me(p).value.type = "KW_STRING"
            THEN Error("COMP_ERROR", p)
            ELSE Ok(Become([p EXCEPT !.op = value.token], "OPERAND"))
      [] Me(p).state = "OPERAND" /\ IsId(value) ->
            LET target == Me(p).value
            IN  IF ~Assignable(p.op, target.type, value.type) THEN Error("COMP_ERROR", p)
                ELSE Ok(Finish(Emit(p, AssignCode(p.op, VarAddr(p, target.key), target.type,
                                                  VarAddr(p, value.key), value.type))))
      [] OTHER -> Ok(p)
-----------------------------------------------------------------------------
(* IF.  value.uid labels the end, value.else_uid the next branch. *)

JumpUnless(kind, uid, condition) == JumpIf("JUMPIFEQ", kind, uid, condition, Bool(FALSE))

\* Mutated: the analyzer goes on waiting for the condition.
TestAgain(p, condition, held, state) ==
    IF condition.type # "KW_BOOLEAN" THEN Error("COMP_ERROR", p)
    ELSE Ok(Emit(Hold(p, held),
                 <<JumpUnless("ELSE", held.else_uid, VarAddr(p, condition.key))>>))

\* The condition of a branch is known; held has the labels.
Test(p, condition, held, state) ==
    IF condition.type # "KW_BOOLEAN" THEN Error("COMP_ERROR", p)
    ELSE Ok(Become(Emit(Hold(p, held),
                        <<JumpUnless("ELSE", held.else_uid, VarAddr(p, condition.key))>>), state))

\* Mutated: a branch that ends goes on with the next one.
BranchEndGoesOn(value) == <<On("LABEL", "ELSE", value.else_uid)>>

BranchEnd(value) ==
    <<On("JUMP", "ENDIF", value.uid), On("LABEL", "ELSE", value.else_uid)>>

sem_condition(p, value) ==
    LET me == Me(p)
    IN  CASE me.state = "START" /\ IsId(value) ->
                Test(TakeUids(p, 2), value,
                     [NoValue EXCEPT !.value_type = "IF", !.uid = p.seed, !.else_uid = p.seed + 1],
                     "IF_EOL")
          [] me.state \in {"IF_EOL", "IF_ELSEIF_EOL"} /\ IsToken(value, {"EOL"}) ->
                Ok(Become(create_scope(p), "IF_CONT"))
          [] me.state = "IF_CONT" /\ IsToken(value, {"END"}) ->
                Ok(Finish(Hold(delete_scope(
                    Emit(p, <<On("LABEL", "ENDIF", me.value.uid),
                              On("LABEL", "ELSE", me.value.else_uid)>>)), NoValue)))
          [] me.state = "IF_CONT" /\ IsToken(value, {"ELSE"}) ->
                Ok(Become(create_scope(delete_scope(Emit(p, BranchEnd(me.value)))), "IF_ELSE"))
          [] me.state = "IF_CONT" /\ IsToken(value, {"ELSEIF"}) ->
                Ok(Become(delete_scope(Emit(p, BranchEnd(me.value))), "IF_ELSEIF_COND"))
          [] me.state = "IF_ELSEIF_COND" /\ IsId(value) ->
                Test(TakeUids(p, 1), value, [me.value EXCEPT !.else_uid = p.seed],
                     "IF_ELSEIF_EOL")
          [] me.state = "IF_ELSE" /\ IsToken(value, {"END"}) ->
                Ok(Finish(Hold(delete_scope(
                    Emit(p, <<On("LABEL", "ENDIF", me.value.uid)>>)), NoValue)))
          [] OTHER -> Ok(p)
-----------------------------------------------------------------------------
(* DO.  The generated id is kept as the text of an identifier token. *)

\* The states WHILE and UNTIL, at either end of the loop, wait for a condition.
TestAtStart(token) == IF token = "WHILE" THEN "DO_WHILE" ELSE "DO_UNTIL"
TestAtEnd(token) == IF token = "WHILE" THEN "DO_WHILE_END" ELSE "DO_UNTIL_END"
LoopTest(p, condition) ==
    <<JumpIf("JUMPIFEQ", "LOOP_END", Me(p).value.uid, VarAddr(p, condition),
             Bool(Me(p).state \in {"DO_UNTIL", "DO_UNTIL_END"}))>>
LoopBack(uid) == <<On("JUMP", "DO_LOOP", uid), On("LABEL", "LOOP_END", uid)>>

sem_do_loop(p, value) ==
    LET me == Me(p)
        uid == me.value.uid
    IN  CASE me.state = "START" /\ IsToken(value, {"DO"}) ->
                LET held == [NoValue EXCEPT !.value_type = "TOKEN", !.token = "IDENTIFIER",
                                            !.uid = p.seed]
                IN  Ok(Become(Emit(Hold(TakeUids(create_scope(p), 1), held),
                                   <<On("LABEL", "DO_LOOP", p.seed)>>), "DO_TEST_TYPE"))
          [] me.state = "DO_TEST_TYPE" /\ IsToken(value, {"WHILE", "UNTIL"}) ->
                Ok(Become(Emit(p, <<On("LABEL", "LOOP_COND", uid)>>), TestAtStart(value.token)))
          [] me.state = "DO_TEST_TYPE" /\ ~IsToken(value, {"WHILE", "UNTIL"}) ->
                Ok(Become(p, "DO_LOOP_TEST_END"))
          [] me.state \in {"DO_WHILE", "DO_UNTIL"} /\ IsId(value) ->
                IF value.type # "KW_BOOLEAN" THEN Error("COMP_ERROR", p)
                ELSE Ok(Become(Emit(p, LoopTest(p, value.key)), "DO_LOOP_TEST_START"))
          [] me.state = "DO_LOOP_TEST_START" /\ IsToken(value, {"LOOP"}) ->
                Ok(Finish(delete_scope(Emit(p, <<On("JUMP", "LOOP_COND", uid),
                                                 On("LABEL", "LOOP_END", uid)>>))))
          [] me.state = "DO_LOOP_TEST_END" /\ IsToken(value, {"LOOP"}) ->
                Ok(Become(delete_scope(p), "DO_TEST_TYPE_END"))
          [] me.state = "DO_TEST_TYPE_END" /\ IsToken(value, {"WHILE", "UNTIL"}) ->
                Ok(Become(Emit(p, <<On("LABEL", "LOOP_COND", uid)>>), TestAtEnd(value.token)))
          [] me.state = "DO_TEST_TYPE_END" /\ ~IsToken(value, {"WHILE", "UNTIL"}) ->
                Ok(Finish(Emit(p, LoopBack(uid))))
          [] me.state \in {"DO_WHILE_END", "DO_UNTIL_END"} /\ IsId(value) ->
                IF value.type # "KW_BOOLEAN" THEN Error("COMP_ERROR", p)
                ELSE Ok(Finish(Emit(p, LoopTest(p, value.key) \o LoopBack(uid))))
          [] OTHER -> Ok(p)
-----------------------------------------------------------------------------
(* FOR.  Once the iterator is known the analyzer holds it with the loop's  *)
(* id, which also names the end value and the step.                        *)

EndVal(uid) == "ENDVAL" \o generate_uid(uid)
StepVal(uid) == "STEP" \o generate_uid(uid)

\* The iterator symbol becomes the loop's, in a new scope.
StartLoop(p, iterator) ==
    Become(Hold(TakeUids(create_scope(p), 1),
                [iterator EXCEPT !.value_type = "FOR", !.uid = p.seed]), "FOR_INIT")

\* Its value of an expression, 1 or 0 in the type of the iterator
ForValue(p, key, value) == StoreAs(GlobalVar(key), Me(p).value.type, ExprResult, value.type)
ForConstant(p, n) ==
    IF Me(p).value.type = "KW_INTEGER" THEN Integer(n) ELSE addr_value("KW_DOUBLE", 2 * n)

\* The head of the loop: the iterator has reached the end value, or is still
\* on the right side of it.
LoopHead(p) ==
    LET uid == Me(p).value.uid
        both == <<Push(VarAddr(p, Me(p).value.key)), Push(GlobalVar(EndVal(uid)))>>
        stepAndZero == <<Push(GlobalVar(StepVal(uid))), Push(ForConstant(p, 0))>>
    IN  <<On("LABEL", "FOR_LOOP", uid)>> \o both
        \o <<Plain("EQS"), Pop(ExprResult), JumpIf("JUMPIFEQ", "FOR_EQUAL", uid, ExprResult, Bool(TRUE))>>
        \o both \o <<Plain("LTS")>> \o stepAndZero \o <<Plain("GTS")>> \o stepAndZero
        \o <<Plain("EQS"), Plain("ORS"), Plain("EQS"), Pop(ExprResult), On("LABEL", "FOR_EQUAL", uid),
              JumpUnless("LOOP_END", uid, ExprResult)>>

\* The foot, which pushes the end value and the step and leaves them there
LoopFoot(p) ==
    LET uid == Me(p).value.uid
        iterator == VarAddr(p, Me(p).value.key)
    IN  <<On("LABEL", "LOOP_COND", uid), Push(iterator), Push(GlobalVar(StepVal(uid))), Plain("ADDS"),
          Pop(ExprResult), Move(iterator, ExprResult), Push(GlobalVar(EndVal(uid))), Push(GlobalVar(StepVal(uid))),
          On("JUMP", "FOR_LOOP", uid), On("LABEL", "LOOP_END", uid)>>

sem_for_loop(p, value) ==
    LET me == Me(p)
        notNumber == value.type \notin Numbers
    IN  CASE me.state = "START" /\ IsToken(value, {"IDENTIFIER"}) ->
                Ok(Become(Hold(p, value), "FOR_ITERATOR"))
          [] me.state = "FOR_ITERATOR" /\ IsToken(value, {"EQUAL"}) ->
                LET symbol == find_symbol(p, me.value.key)
                IN  CASE symbol = NoValue -> Error("PROG_ERROR", p)
                      [] symbol # NoValue /\ symbol.type \notin Numbers -> Error("COMP_ERROR", p)
                      [] OTHER -> Ok(StartLoop(p, symbol))
          [] me.state = "FOR_ITERATOR" /\ IsToken(value, Types \ Numbers) -> Error("COMP_ERROR", p)
          [] me.state = "FOR_ITERATOR" /\ IsToken(value, Numbers) ->
                LET key == Iterator(me.value.key, p.seed)
                IN  Ok(EmitTo(SetGlobal(StartLoop(p, IdValue(key, value.token)), key, value.token),
                              "global", <<DefVar("GF", key)>>))
          [] me.state \in {"FOR_INIT", "FOR_ENDVAL", "FOR_STEP"} /\ IsId(value) /\ notNumber ->
                Error("COMP_ERROR", p)
          [] me.state = "FOR_INIT" /\ IsId(value) /\ ~notNumber ->
                Ok(Become(Emit(p, <<StoreAs(VarAddr(p, me.value.key), me.value.type, ExprResult, value.type)>>),
                          "FOR_ENDVAL"))
          [] me.state = "FOR_ENDVAL" /\ IsId(value) /\ ~notNumber ->
                LET uid == me.value.uid
                    ended == Emit(EmitTo(p, "global", <<DefVar("GF", EndVal(uid)), DefVar("GF", StepVal(uid))>>),
                                  <<ForValue(p, EndVal(uid), value)>>)
                IN  IF p.step_found
                    THEN Ok(Become([ended EXCEPT !.step_found = FALSE], "FOR_STEP"))
                    ELSE Ok(Become(Emit(ended, <<Move(GlobalVar(StepVal(uid)), ForConstant(p, 1))>>
                                                  \o LoopHead(p)), "FOR_NEXT"))
          [] me.state = "FOR_STEP" /\ IsId(value) /\ ~notNumber ->
                Ok(Become(Emit(p, <<ForValue(p, StepVal(me.value.uid), value)>> \o LoopHead(p)), "FOR_NEXT"))
          [] me.state = "FOR_NEXT" /\ IsToken(value, {"NEXT"}) -> Ok(Become(p, "FOR_END"))
          [] me.state = "FOR_END" /\ IsToken(value, {"EOL"}) ->
                Ok(Finish(delete_scope(Emit(p, LoopFoot(p)))))
          [] me.state = "FOR_END" /\ IsToken(value, {"IDENTIFIER"}) ->
                LET symbol == find_symbol(p, value.key)
                IN  CASE symbol = NoValue -> Error("PROG_ERROR", p)
                      [] symbol # NoValue /\ symbol.key # me.value.key -> Error("OTHER_ERROR", p)
                      [] OTHER -> Ok(p)
          [] OTHER -> Ok(p)
-----------------------------------------------------------------------------
(* EXIT and CONTINUE: every DO or FOR in the list takes the next loop of   *)
(* that kind down the stack of analyzers, finished or not.  The value the  *)
(* analyzer keeps is a token whose id nobody sets; memory from malloc      *)
(* holds no token number there.                                            *)

\* Mutated: every search starts at the top.
sem_action_search_first(p, action) == Running(p, action)

sem_action_search_next(p, action) ==
    {k \in Running(p, action) : p.active # 0 /\ k >= p.active}

Jump(p, value, start, label) ==
    LET me == Me(p)
        action == IF value.token = "DO" THEN "sem_do_loop" ELSE "sem_for_loop"
        found == sem_action_search_next(p, action)
        held == [NoValue EXCEPT !.value_type = "TOKEN", !.token = "uninitialised"]
    IN  CASE me.state = "START" /\ IsToken(value, {start}) ->
                Ok(Become(Hold([p EXCEPT !.active = 1], held), "NEXT_LOOP_TYPE"))
          [] me.state = "NEXT_LOOP_TYPE" /\ IsToken(value, {"DO", "FOR"}) ->
                CASE p.last_loop_type \notin {"none", value.token} -> Error("SYNTAX_ERROR", p)
                  [] p.last_loop_type \in {"none", value.token} /\ found = {} ->
                        Error("OTHER_ERROR", p)
                  [] OTHER ->
                        LET k == Topmost(found)
                        IN  Ok(Hold([p EXCEPT !.last_loop_type = value.token,
                                              !.active = IF k < Len(p.sem_an_stack) THEN k + 1 ELSE 0],
                                    [me.value EXCEPT !.uid = p.sem_an_stack[k].value.uid]))
          [] me.state = "NEXT_LOOP_TYPE" /\ IsToken(value, {"EOL"}) ->
                Ok(Finish(Emit([p EXCEPT !.active = 0, !.last_loop_type = "none"],
                               <<On("JUMP", label, me.value.uid)>>)))
          [] OTHER -> Ok(p)

sem_exit(p, value) == Jump(p, value, "EXIT", "LOOP_END")
sem_continue(p, value) == Jump(p, value, "CONTINUE", "LOOP_COND")
-----------------------------------------------------------------------------
(* Declarations of variables *)

\* def_var
DefineVar(p, name) ==
    IF name \in DOMAIN CurrentTable(p) \cup DOMAIN p.sym_tab_functions
    THEN Error("PROG_ERROR", p)
    ELSE Ok(Become(Emit(Hold(SetCurrent(p, name, "none"), IdValue(name, "none")),
                        <<DefVar(get_current_scope_prefix(p), name)>>), "VAR_TYPE"))

\* A static variable is a global one; until its declaration ends code goes to
\* the global list.
DefineStatic(p, name) ==
    LET static == get_static_var_name(Function(p), name)
    IN  IF \/ name \in DOMAIN CurrentTable(p) \cup DOMAIN p.sym_tab_functions
           \/ static \in DOMAIN p.sym_tab_global \cup DOMAIN p.sym_tab_functions
        THEN Error("PROG_ERROR", p)
        ELSE Ok(Become([EmitTo(Hold(SetGlobal(p, static, "none"), IdValue(static, "none")),
                               "global", <<DefVar("GF", static)>>)
                            EXCEPT !.static_var_decl = TRUE, !.il_override = "global"], "VAR_TYPE"))

SetType(p, type) ==
    LET key == Me(p).value.key
        typed == Hold(p, IdValue(key, type))
    IN  IF p.static_var_decl THEN SetGlobal(typed, key, type) ELSE SetCurrent(typed, key, type)

EndDeclaration(p, code) ==
    Finish([Emit(p, code) EXCEPT !.il_override = "none", !.static_var_decl = FALSE])

sem_var_decl(p, value) ==
    LET me == Me(p)
    IN  CASE me.state = "START" /\ IsToken(value, {"STATIC"}) ->
                Ok(Become(p, IF InFunction(p) THEN "VAR_ID_STATIC" ELSE "VAR_ID"))
          [] me.state = "START" /\ IsToken(value, {"SHARED"}) ->
                IF p.sym_tab_stack # << >> THEN Error("SYNTAX_ERROR", p)
                ELSE Ok(Become(p, "VAR_ID_SHARED"))
          [] me.state \in {"START", "VAR_ID", "VAR_ID_SHARED"} /\ IsToken(value, {"IDENTIFIER"}) ->
                DefineVar(p, value.key)
          [] me.state = "VAR_ID_STATIC" /\ IsToken(value, {"IDENTIFIER"}) ->
                DefineStatic(p, value.key)
          [] me.state = "VAR_TYPE" /\ IsToken(value, Types) ->
                Ok(Become(SetType(p, value.token), "ASSIGN"))
          [] me.state = "ASSIGN" /\ IsId(value) ->
                IF ~are_types_compatible(value.type, me.value.type) THEN Error("COMP_ERROR", p)
                ELSE Ok(EndDeclaration(p, <<StoreAs(VarAddr(p, me.value.key), me.value.type,
                                                     VarAddr(p, value.key), value.type)>>))
          [] me.state = "ASSIGN" /\ IsToken(value, {"EOL"}) ->
                Ok(EndDeclaration(p, <<Move(VarAddr(p, me.value.key), addr_constant(me.value.type))>>))
          [] OTHER -> Ok(p)
-----------------------------------------------------------------------------
(* Functions.  Parameters are checked one by one by analyzers of their own *)
(* and handed to the declaration or definition as symbols.                 *)

sem_param_decl(p, value) ==
    LET me == Me(p)
    IN  CASE me.state = "START" /\ IsToken(value, {"IDENTIFIER"}) ->
                IF value.key \in DOMAIN CurrentTable(p) \cup DOMAIN p.sym_tab_functions
                THEN Error("PROG_ERROR", p)
                ELSE Ok(Become(Hold(SetCurrent(p, value.key, "none"), value), "VAR_TYPE"))
          [] me.state = "VAR_TYPE" /\ IsToken(value, Types) ->
                Ok(Finish(Hold(SetCurrent(p, me.value.key, value.token),
                               IdValue(me.value.key, value.token))))
          [] OTHER -> Ok(p)

\* What sem_func_decl and sem_func_def do to the record of their function
MyFunction(p) == p.sym_tab_functions[Me(p).value.key]
func_add_param(p, type) ==
    [p EXCEPT !.sym_tab_functions[Me(p).value.key].params = Append(@, type)]
func_store_param_name(p, name) ==
    [p EXCEPT !.sym_tab_functions[Me(p).value.key].names = Append(@, name)]
func_set_ret_type(p, type) ==
    [p EXCEPT !.sym_tab_functions[Me(p).value.key].ret_type = type]
func_set_defined(p) ==
    [p EXCEPT !.sym_tab_functions[Me(p).value.key].defined = TRUE]

sem_func_decl(p, value) ==
    LET me == Me(p)
    IN  CASE me.state = "START" /\ IsToken(value, {"IDENTIFIER"}) ->
                IF value.key \in DOMAIN p.sym_tab_functions \cup DOMAIN p.sym_tab_global
                THEN Error("PROG_ERROR", p)
                ELSE Ok(Become(create_scope(InsertFunction(Hold(p, value), value.key)), "VAR_TYPE"))
          [] me.state = "VAR_TYPE" /\ IsId(value) -> Ok(func_add_param(p, value.type))
          [] me.state = "VAR_TYPE" /\ IsToken(value, {"RPAR"}) -> Ok(Become(p, "FUNC_RETURN_TYPE"))
          [] me.state = "FUNC_RETURN_TYPE" /\ IsToken(value, Types) ->
                Ok(Become(func_set_ret_type(p, value.token), "EOL"))
          [] me.state = "EOL" /\ IsToken(value, {"EOL"}) -> Ok(Finish(delete_scope(p)))
          [] OTHER -> Ok(p)

\* Mutated: a number stays what it was.
PopUnconverted(name, type, uid) == <<DefVar("LF", name), Pop(addr_symbol("LF", name))>>

\* The parameters are on the data stack, the last one on top.  A number is
\* converted if it is of the other numeric type.
PopParam(name, type, uid) ==
    LET param == addr_symbol("LF", name)
        cast(op, other) ==
            <<instruction("TYPE", <<ExprResult, param>>), JumpIf("JUMPIFNEQ", "CAST", uid, ExprResult, Chars(<<other>>)),
              Convert(op, param), On("LABEL", "CAST", uid)>>
    IN  <<DefVar("LF", name), Pop(param)>> \o
        (CASE type = "KW_DOUBLE" -> cast("INT2FLOAT", "int")
           [] type = "KW_INTEGER" -> cast("FLOAT2R2EINT", "float")
           [] OTHER -> << >>)

PopParams(p) ==
    LET f == MyFunction(p)
        n == Len(f.params)
        numbersAfter(i) == Cardinality({j \in i + 1 .. n : f.params[j] \in Numbers})
    IN  TakeUids(EmitTo(p, "func", FlattenSeq([k \in 1 .. n |->
                    PopParam(f.names[n + 1 - k], f.params[n + 1 - k],
                             p.seed + numbersAfter(n + 1 - k))])),
                 numbersAfter(0))

\* The head of a definition; a declared function must agree with its
\* declaration, in the order the parameters come.
StartFunction(p, name, state) ==
    Become(EmitTo(create_scope(Hold(p, IdValue(name, "none"))), "func",
                  <<On("LABEL", name, 0), Plain("CREATEFRAME"), Plain("PUSHFRAME")>>), state)

EndFunction(p) ==
    Finish(EmitTo(delete_scope(p), "func",
                  <<Push(addr_constant(MyFunction(p).ret_type)), Plain("POPFRAME"), Plain("RETURN")>>))

sem_func_def(p, value) ==
    LET me == Me(p)
        name == value.key
        index == Len(MyFunction(p).names) + 1
    IN  CASE me.state = "START" /\ IsToken(value, {"IDENTIFIER"}) ->
                CASE name \in DOMAIN p.sym_tab_global -> Error("PROG_ERROR", p)
                  [] name \in DOMAIN p.sym_tab_functions \ DOMAIN p.sym_tab_global ->
                        IF p.sym_tab_functions[name].defined THEN Error("PROG_ERROR", p)
                        ELSE Ok(StartFunction(p, name, "DECLARED_VAR_TYPE"))
                  [] OTHER -> Ok(StartFunction(InsertFunction(p, name), name, "VAR_TYPE"))
          [] me.state = "DECLARED_VAR_TYPE" /\ IsId(value) ->
                IF index \in DOMAIN MyFunction(p).params /\ MyFunction(p).params[index] = value.type
                THEN Ok(func_store_param_name(p, name)) ELSE Error("PROG_ERROR", p)
          [] me.state = "DECLARED_VAR_TYPE" /\ IsToken(value, {"RPAR"}) ->
                IF Len(MyFunction(p).params) # index - 1 THEN Error("PROG_ERROR", p)
                ELSE Ok(Become(PopParams(p), "DECLARED_RETURN_TYPE"))
          [] me.state = "VAR_TYPE" /\ IsId(value) ->
                Ok(func_add_param(func_store_param_name(p, name), value.type))
          [] me.state = "VAR_TYPE" /\ IsToken(value, {"RPAR"}) ->
                Ok(Become(PopParams(p), "FUNC_RETURN_TYPE"))
          [] me.state = "DECLARED_RETURN_TYPE" /\ IsToken(value, Types) ->
                IF MyFunction(p).ret_type # value.token THEN Error("PROG_ERROR", p)
                ELSE Ok(Become(func_set_defined(p), "FUNC_END"))
          [] me.state = "FUNC_RETURN_TYPE" /\ IsToken(value, Types) ->
                Ok(Become(func_set_defined(func_set_ret_type(p, value.token)), "FUNC_END"))
          [] me.state = "FUNC_END" /\ IsToken(value, {"FUNCTION"}) -> Ok(EndFunction(p))
          [] OTHER -> Ok(p)

MyReturnType(p) == p.sym_tab_functions[Function(p)].ret_type

\* Mutated: the frame of the function stays.
ReturnInFrame(type, value) == <<Push(GlobalVar(value.key)), Plain("RETURN")>>

\* The value is left on the data stack in the type of the function.
ReturnCode(type, value) ==
    <<Push(GlobalVar(value.key))>>
    \o (CASE <<type, value.type>> = <<"KW_INTEGER", "KW_DOUBLE">> -> <<Plain("FLOAT2R2EINTS")>>
          [] <<type, value.type>> = <<"KW_DOUBLE", "KW_INTEGER">> -> <<Plain("INT2FLOATS")>>
          [] OTHER -> << >>)
    \o <<Plain("POPFRAME"), Plain("RETURN")>>

sem_return(p, value) ==
    CASE Me(p).state = "START" /\ IsId(value) ->
            CASE ~InFunction(p) -> Error("SYNTAX_ERROR", p)
              [] InFunction(p) /\ ~are_types_compatible(
                        MyReturnType(p), value.type) ->
                    Error("COMP_ERROR", p)
              [] OTHER -> Ok(Finish(Emit(p, ReturnCode(MyReturnType(p), value))))
      [] OTHER -> Ok(p)
-----------------------------------------------------------------------------
(* SEM_ACTION_CHECK: an action that finished ignores every value. *)

sem_action(p, value) ==
    LET action == Me(p).sem_action
    IN  IF Me(p).finished THEN Ok(p) ELSE
        CASE action = "sem_scope" -> sem_scope(p, value)
        [] action = "sem_print" -> sem_print(p, value)
        [] action = "sem_input" -> sem_input(p, value)
        [] action = "sem_expr_assign" -> sem_expr_assign(p, value)
        [] action = "sem_condition" -> sem_condition(p, value)
        [] action = "sem_do_loop" -> sem_do_loop(p, value)
        [] action = "sem_for_loop" -> sem_for_loop(p, value)
        [] action = "sem_exit" -> sem_exit(p, value)
        [] action = "sem_continue" -> sem_continue(p, value)
        [] action = "sem_var_decl" -> sem_var_decl(p, value)
        [] action = "sem_param_decl" -> sem_param_decl(p, value)
        [] action = "sem_func_decl" -> sem_func_decl(p, value)
        [] action = "sem_func_def" -> sem_func_def(p, value)
        [] action = "sem_return" -> sem_return(p, value)
=============================================================================
