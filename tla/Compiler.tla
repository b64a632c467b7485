------------------------------ MODULE Compiler ------------------------------
(***************************************************************************)
(* The state the semantic actions of src/src/sem_analyzer.c share, Parser, *)
(* and the helpers they read and change it with: symbol tables, instruc-   *)
(* tion lists, scopes and the search in the stack of analyzers.            *)
(***************************************************************************)
EXTENDS Grammar, SequencesExt, BuiltIns

-----------------------------------------------------------------------------
(* Names, values, analyzers and instructions *)

\* A key of a symbol table is a string.  Names from the program have no upper
\* case letter; what is added to them has, or is a generated id.
generate_uid(seed) == "ID" \o ToString(seed)

Iterator(name, uid) == name \o generate_uid(uid)
get_static_var_name(func, name) == "S" \o func \o name
NoKey == "NO KEY"

\* SemValue: the fields of its union side by side.  token is the id of a
\* token and key its text; key and type stand for a symbol; uid and else_uid
\* are generated ids.
NoValue == [value_type |-> "NULL", token |-> "none", key |-> NoKey, type |-> "none",
            uid |-> 0, else_uid |-> 0]
TokenValue(t) == [NoValue EXCEPT !.value_type = "TOKEN", !.token = t.id,
                          !.key = IF t.id = "IDENTIFIER" THEN t.str ELSE NoKey]
IdValue(key, type) == [NoValue EXCEPT !.value_type = "ID", !.key = key, !.type = type]

\* sem_an_init
Analyzer(action) ==
    [sem_action |-> action, state |-> "START", finished |-> FALSE, value |-> NoValue]
-----------------------------------------------------------------------------
(* Parser.  The head of a stack is its top. *)

Insert(table, key, item) ==
    [k \in DOMAIN table \cup {key} |-> IF k = key THEN item ELSE table[k]]

parser_init ==
    [sem_an_stack |-> << >>,
     sym_tab_stack |-> << >>,
     sym_tab_global |-> << >>,
     sym_tab_functions |-> built_in_functions,
     il |-> [global |-> << >>, main |-> << >>, func |-> << >>],
     il_override |-> "none",
     static_var_decl |-> FALSE,
     step_found |-> FALSE,
     seed |-> 1,                  \* of generate_uid
     active |-> 0,                \* analyzer where the search goes on, 0 for none
     last_loop_type |-> "none",   \* static in sem_exit, and another in sem_continue
     op |-> "none"]               \* static in sem_expr_assign

\* The result of a semantic action
Ok(p) == [ret |-> "SUCCESS", parser |-> p]
Error(code, p) == [ret |-> code, parser |-> p]

\* The analyzer that is running is the topmost one.
Me(p) == Head(p.sem_an_stack)
Become(p, state) == [p EXCEPT !.sem_an_stack[1].state = state]
Hold(p, value) == [p EXCEPT !.sem_an_stack[1].value = value]
Finish(p) == [p EXCEPT !.sem_an_stack[1].finished = TRUE]

IsToken(value, ids) == value.value_type = "TOKEN" /\ value.token \in ids
IsId(value) == value.value_type = "ID"

\* Positions of the analyzers running an action, the topmost first
Running(p, action) == {k \in DOMAIN p.sem_an_stack : p.sem_an_stack[k].sem_action = action}

\* Mutated: the search starts at the bottom of the stack.
Bottommost(positions) == CHOOSE k \in positions : \A j \in positions : j <= k

Topmost(positions) == CHOOSE k \in positions : \A j \in positions : k <= j

InFunction(p) == Running(p, "sem_func_def") # {}
Function(p) == p.sem_an_stack[Topmost(Running(p, "sem_func_def"))].value.key

get_current_il_list(p) ==
    CASE p.il_override # "none" -> p.il_override
      [] p.il_override = "none" /\ InFunction(p) -> "func"
      [] p.il_override = "none" /\ ~InFunction(p) /\ p.sym_tab_stack # << >> -> "main"
      [] OTHER -> "global"

EmitTo(p, list, instructions) == [p EXCEPT !.il[list] = @ \o instructions]
Emit(p, instructions) == EmitTo(p, get_current_il_list(p), instructions)

\* The lists one after the other; the built-in functions were added to the
\* last one before anything else.
generate_code(il) ==
    il.global \o il.main \o <<On("JUMP", "PROGRAM_END", 0)>> \o add_built_ins \o il.func
    \o <<On("LABEL", "PROGRAM_END", 0)>>
-----------------------------------------------------------------------------
(* Symbol tables *)

create_scope(p) == [p EXCEPT !.sym_tab_stack = << << >> >> \o @]

\* Mutated: the table stays.
delete_nothing(p) == p

delete_scope(p) == [p EXCEPT !.sym_tab_stack = IF @ = << >> THEN << >> ELSE Tail(@)]

\* get_current_sym_tab, and the frame its variables live in
CurrentTable(p) == IF p.sym_tab_stack = << >> THEN p.sym_tab_global ELSE Head(p.sym_tab_stack)
get_current_scope_prefix(p) == IF p.sym_tab_stack = << >> THEN "GF" ELSE "LF"

SetGlobal(p, key, type) == [p EXCEPT !.sym_tab_global = Insert(@, key, type)]
SetCurrent(p, key, type) ==
    IF p.sym_tab_stack = << >> THEN SetGlobal(p, key, type)
    ELSE [p EXCEPT !.sym_tab_stack[1] = Insert(@, key, type)]

Locals(p, key) == {k \in DOMAIN p.sym_tab_stack : key \in DOMAIN p.sym_tab_stack[k]}

\* The key of the static variable of this name, if the function has one
StaticKey(p, name) ==
    IF InFunction(p) /\ get_static_var_name(Function(p), name) \in DOMAIN p.sym_tab_global
    THEN get_static_var_name(Function(p), name) ELSE NoKey

\* FOR loops on the stack that declared an iterator of this name
IteratorLoops(p, name) ==
    {k \in Running(p, "sem_for_loop") :
        LET value == p.sem_an_stack[k].value
        IN  value.value_type = "FOR" /\ Iterator(name, value.uid) \in DOMAIN p.sym_tab_global}

\* The symbol a name stands for, NoValue if none
find_symbol(p, name) ==
    LET loops == IteratorLoops(p, name)
        global(k) == IdValue(k, p.sym_tab_global[k])
    IN  CASE loops # {} ->
                global(Iterator(name, p.sem_an_stack[Topmost(loops)].value.uid))
          [] loops = {} /\ StaticKey(p, name) # NoKey -> global(StaticKey(p, name))
          [] loops = {} /\ StaticKey(p, name) = NoKey /\ Locals(p, name) # {} ->
                IdValue(name, p.sym_tab_stack[Topmost(Locals(p, name))][name])
          [] OTHER -> IF name \in DOMAIN p.sym_tab_global THEN global(name) ELSE NoValue

\* Mutated: global variables come first.
GlobalScopeFirst(p, key) == IF key \in DOMAIN p.sym_tab_global THEN "GF" ELSE "LF"

\* The frame of the variable a name stands for: the search by name of
\* find_symbol again, without its symbol
get_var_scope_prefix(p, key) ==
    IF Locals(p, key) # {} /\ StaticKey(p, key) = NoKey THEN "LF" ELSE "GF"

\* The address of the variable a name stands for, and of EXPR_VALUE
VarAddr(p, key) == addr_symbol(get_var_scope_prefix(p, key), key)
GlobalVar(key) == addr_symbol("GF", key)
ExprResult == GlobalVar(ExprValue)

\* generate_uid gives p.seed; n ids were taken
TakeUids(p, n) == [p EXCEPT !.seed = @ + n]

\* A function that was just inserted
NewFunction == [params |-> << >>, names |-> << >>, ret_type |-> "none", defined |-> FALSE]
InsertFunction(p, name) ==
    [p EXCEPT !.sym_tab_functions = Insert(@, name, NewFunction)]

\* Mutated: declared is enough.
NoneChecked(p) == TRUE

\* func_check_all_defined
AllDefined(p) == \A f \in DOMAIN p.sym_tab_functions : p.sym_tab_functions[f].defined

are_types_compatible(t1, t2) == t1 = t2 \/ {t1, t2} = {"KW_INTEGER", "KW_DOUBLE"}
Numbers == {"KW_INTEGER", "KW_DOUBLE"}
=============================================================================
