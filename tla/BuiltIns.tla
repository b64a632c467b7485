------------------------------ MODULE BuiltIns ------------------------------
(***************************************************************************)
(* add_built_ins of src/src/parser.c: the functions asc, substr, length    *)
(* and chr, which are written in three-address code.                       *)
(***************************************************************************)
EXTENDS ThreeAddressCode

\* The variable every value of an expression goes through
ExprValue == "EXPR_VALUE"

LOCAL Builtin(params, ret_type) ==
    [params |-> params, names |-> << >>, ret_type |-> ret_type, defined |-> TRUE]

\* The symbol table of functions before the program is read
built_in_functions ==
    [length |-> Builtin(<<"KW_STRING">>, "KW_INTEGER"),
     substr |-> Builtin(<<"KW_STRING", "KW_INTEGER", "KW_INTEGER">>, "KW_STRING"),
     asc |-> Builtin(<<"KW_STRING", "KW_INTEGER">>, "KW_INTEGER"),
     chr |-> Builtin(<<"KW_INTEGER">>, "KW_STRING")]

LOCAL L(key) == addr_symbol("LF", key)
LOCAL T(key) == addr_symbol("TF", key)
LOCAL GlobalValue == addr_symbol("GF", ExprValue)
LOCAL I2(op, a, b) == instruction(op, <<a, b>>)
LOCAL I3(op, a, b, c) == instruction(op, <<a, b, c>>)
LOCAL Label(name) == On("LABEL", name, 0)
LOCAL Goto(name) == On("JUMP", name, 0)

\* The parameters are taken from the data stack, the last one first.
LOCAL Params(names) ==
    [k \in DOMAIN names |-> DefVar("TF", names[k])] \o [k \in DOMAIN names |-> Pop(T(names[k]))]

\* A real number given for an integer is rounded.
LOCAL Converted(name, to, label) ==
    <<I2("TYPE", GlobalValue, T(name)),
      JumpIf("JUMPIFNEQ", label, 0, GlobalValue, Chars(<<"float">>)),
      I2("FLOAT2R2EINT", T(to), T(name)),
      Label(label)>>

\* Mutated: indices are used as they come.
IndexFromOne == Move(L("i"), L("i"))

\* Indices of the language start with 1, those of the interpreter with 0.
IndexFromZero == I3("SUB", L("i"), L("i"), Integer(1))

LOCAL ReturnValue == <<Push(L("retval")), Plain("POPFRAME"), Plain("RETURN")>>

asc ==
    <<Label("asc"), Plain("CREATEFRAME")>> \o Params(<<"i", "str">>) \o Converted("i", "i", "asc_noconvert")
    \o <<Plain("PUSHFRAME"), DefVar("LF", "retval"), DefVar("LF", "strlength"),
         IndexFromZero,
         I2("STRLEN", L("strlength"), L("str")),
         DefVar("LF", "if1cond"),
         I3("LT", L("if1cond"), L("i"), Integer(0)),
         JumpIf("JUMPIFEQ", "wrongindex", 0, L("if1cond"), Bool(TRUE)),
         DefVar("LF", "if2cond"),
         I3("GT", L("if2cond"), L("i"), L("strlength")),
         JumpIf("JUMPIFEQ", "wrongindex", 0, L("if2cond"), Bool(TRUE)),
         I3("STRI2INT", L("retval"), L("str"), L("i")),
         Goto("ascvalue"),
         Label("wrongindex"),
         Move(L("retval"), Integer(0)),
         Label("ascvalue")>> \o ReturnValue

\* Mutated: the character is read and nothing goes on.
SameChar == <<I3("GETCHAR", L("anotherchar"), L("str"), L("i"))>>

\* The character at i is added to substr.
NextChar ==
    <<I3("GETCHAR", L("anotherchar"), L("str"), L("i")),
      I3("CONCAT", L("substr"), L("substr"), L("anotherchar")),
      I3("ADD", L("i"), L("i"), Integer(1))>>

substr_head ==
    <<Label("substr"), Plain("CREATEFRAME")>> \o Params(<<"n", "i", "str">>)
    \o Converted("n", "n", "substr_n_noconvert") \o Converted("i", "i", "substr_i_noconvert")
    \o <<Plain("PUSHFRAME"), DefVar("LF", "substr"), DefVar("LF", "anotherchar"),
         DefVar("LF", "counter"), DefVar("LF", "total"), DefVar("LF", "retval"),
         I2("STRLEN", L("total"), L("str")),
         Move(L("substr"), Chars(<< >>)),
         Move(L("counter"), Integer(0)),
         DefVar("LF", "if1cond"),
         I3("LT", L("if1cond"), L("i"), Integer(1)),
         IndexFromZero,
         JumpIf("JUMPIFEQ", "finalstring", 0, L("if1cond"), Bool(TRUE)),
         DefVar("LF", "if2cond"),
         I3("LT", L("if2cond"), L("n"), Integer(0)),
         JumpIf("JUMPIFEQ", "itoend", 0, L("if2cond"), Bool(TRUE))>>

substr_rest ==
    <<DefVar("LF", "if3cond"),
      I3("SUB", L("total"), L("total"), L("i")),
      I3("GT", L("if3cond"), L("n"), L("total")),
      JumpIf("JUMPIFEQ", "itoend", 0, L("if3cond"), Bool(TRUE))>>

substr_loops ==
    <<Label("charloop"), JumpIf("JUMPIFEQ", "finalstring", 0, L("counter"), L("n"))>> \o NextChar
    \o <<I3("ADD", L("counter"), L("counter"), Integer(1)), Goto("charloop")>>
    \o <<Label("itoend"), I2("STRLEN", L("total"), L("str")), DefVar("LF", "itoendwhilecond"),
         Label("itoendwhile"), I3("LT", L("itoendwhilecond"), L("i"), L("total")),
         JumpIf("JUMPIFEQ", "finalstring", 0, L("itoendwhilecond"), Bool(FALSE))>> \o NextChar
    \o <<Goto("itoendwhile"), Label("finalstring"), Move(L("retval"), L("substr"))>> \o ReturnValue

substr == substr_head \o substr_rest \o substr_loops

length ==
    <<Label("length"), Plain("CREATEFRAME")>> \o Params(<<"sl">>)
    \o Converted("sl", "i", "length_noconvert")
    \o <<Plain("PUSHFRAME"), DefVar("LF", "retval"), I2("STRLEN", L("retval"), L("sl"))>> \o ReturnValue

chr ==
    <<Label("chr"), Plain("CREATEFRAME")>> \o Params(<<"i">>) \o Converted("i", "i", "chr_noconvert")
    \o <<Plain("PUSHFRAME"), DefVar("LF", "retval"), I2("INT2CHAR", L("retval"), L("i"))>> \o ReturnValue

add_built_ins == asc \o substr \o length \o chr
=============================================================================
