------------------------------ MODULE ExprCode ------------------------------
(***************************************************************************)
(* src/src/sem_analyzer.c, sem_expr_*: the types the semantic actions of   *)
(* expressions compute and the stack code they emit, with the typed data   *)
(* stack of IFJcode17 that code runs on.  Types stand for values.  A stack *)
(* is a sequence whose head is the top.                                    *)
(***************************************************************************)
EXTENDS Naturals, SequencesExt

CONSTANTS
    VarType,     \* declared variables: name |-> type
    FuncSig      \* functions: name |-> [params |-> <<types>>, ret |-> type]

Types == {"INTEGER", "DOUBLE", "STRING", "BOOLEAN"}
Numeric == {"INTEGER", "DOUBLE"}

ASSUME VarTypeAssumption == \A x \in DOMAIN VarType : VarType[x] \in Types
ASSUME FuncSigAssumption ==
    \A f \in DOMAIN FuncSig : /\ FuncSig[f].ret \in Types
                              /\ FuncSig[f].params \in Seq(Types)

are_types_compatible(t1, t2) == t1 = t2 \/ {t1, t2} = Numeric
-----------------------------------------------------------------------------
(* The data stack.  An instruction is <<opcode>> or <<opcode, operand>>,   *)
(* the operand of PUSHS being the type of a variable or constant or the    *)
(* name of a temporary, that of POPS the temporary that takes the top.     *)

\* What each stack instruction takes (top first) and leaves.
Signatures(op) ==
    CASE op = "INT2FLOATS" -> {<< <<"INTEGER">>, <<"DOUBLE">> >>}
      [] op \in {"FLOAT2INTS", "FLOAT2R2EINTS"} -> {<< <<"DOUBLE">>, <<"INTEGER">> >>}
      [] op \in {"ADDS", "SUBS", "MULS"} -> {<< <<t, t>>, <<t>> >> : t \in Numeric}
      [] op = "DIVS" -> {<< <<"DOUBLE", "DOUBLE">>, <<"DOUBLE">> >>}
      [] op \in {"LTS", "GTS", "EQS"} -> {<< <<t, t>>, <<"BOOLEAN">> >> : t \in Types}
      [] op \in {"ANDS", "ORS"} -> {<< <<"BOOLEAN", "BOOLEAN">>, <<"BOOLEAN">> >>}
      [] op = "NOTS" -> {<< <<"BOOLEAN">>, <<"BOOLEAN">> >>}
      [] op = "CONCAT" -> {<< <<"STRING", "STRING">>, <<"STRING">> >>}

\* The interpreter stops at an instruction its operands do not suit.
Stuck == [stack |-> <<"stuck">>, temps |-> << >>, stuck |-> TRUE]

Machine(stack, temps) == [stack |-> stack, temps |-> temps, stuck |-> FALSE]

Rewrite(m, takes, leaves) ==
    Machine(leaves \o SubSeq(m.stack, Len(takes) + 1, Len(m.stack)), m.temps)

\* CALL: the callee pops its parameters, last first, converts a number to
\* the declared type and leaves its return value.
Call(m, f) ==
    LET params == Reverse(FuncSig[f].params)
    IN  IF /\ Len(params) <= Len(m.stack)
           /\ \A k \in DOMAIN params : are_types_compatible(m.stack[k], params[k])
        THEN Rewrite(m, params, <<FuncSig[f].ret>>)
        ELSE Stuck

Execute(m, i) ==
    IF m.stuck THEN m ELSE
    CASE i[1] = "PUSHS" /\ i[2] \in Types -> Rewrite(m, << >>, <<i[2]>>)
      [] i[1] = "PUSHS" /\ i[2] \in DOMAIN m.temps \ Types -> Rewrite(m, << >>, <<m.temps[i[2]]>>)
      [] i[1] = "POPS" /\ m.stack # << >> ->
            Machine(Tail(m.stack), [x \in DOMAIN m.temps \cup {i[2]} |->
                                      IF x = i[2] THEN Head(m.stack) ELSE m.temps[x]])
      [] i[1] = "CALL" -> Call(m, i[2])
      [] i[1] \notin {"PUSHS", "POPS", "CALL"}
         /\ \E s \in Signatures(i[1]) : IsPrefix(s[1], m.stack) ->
            LET s == CHOOSE s \in Signatures(i[1]) : IsPrefix(s[1], m.stack)
            IN  Rewrite(m, s[1], s[2])
      [] OTHER -> Stuck

Run(stack, code) ==
    LET m[k \in 0 .. Len(code)] ==
            IF k = 0 THEN Machine(stack, << >>) ELSE Execute(m[k - 1], code[k])
    IN  m[Len(code)].stack
-----------------------------------------------------------------------------
(* The semantic actions.  Each gives an exit code and, on success, the     *)
(* type (of a list: the types) of its value and the code it emits.  right  *)
(* is the operand on top of the data stack.                                *)
Success(value, code) == [ret |-> "SUCCESS", value |-> value, code |-> code]
Failure(ret) == [ret |-> ret, value |-> "none", code |-> << >>]

BelowTop(code) == << <<"POPS", "tmp">> >> \o code \o << <<"PUSHS", "tmp">> >>
cast_second_operand(inst) == BelowTop(<< <<inst>> >>)

\* Mutated: the operand on top is converted whichever is the integer.
PromoteTop(left, right) ==
    IF {left, right} = Numeric THEN << <<"INT2FLOATS">> >> ELSE << >>

\* The conversion that gives two operands of different numeric types one type
Promote(left, right) ==
    CASE right = "INTEGER" /\ left = "DOUBLE" -> << <<"INT2FLOATS">> >>
      [] right = "DOUBLE" /\ left = "INTEGER" -> cast_second_operand("INT2FLOATS")
      [] OTHER -> << >>

sem_expr_id(name, static_var_decl) ==
    CASE static_var_decl -> Failure("OTHER_ERROR")
      [] ~static_var_decl /\ name \notin DOMAIN VarType -> Failure("PROG_ERROR")
      [] OTHER -> Success(VarType[name], << <<"PUSHS", VarType[name]>> >>)

sem_expr_const(id) ==
    LET type == CASE id = "STRING" -> "STRING"
                  [] id = "INT" -> "INTEGER"
                  [] id = "REAL" -> "DOUBLE"
                  [] id \in {"TRUE", "FALSE"} -> "BOOLEAN"
    IN  Success(type, << <<"PUSHS", type>> >>)

sem_expr_not(operand) ==
    IF operand # "BOOLEAN" THEN Failure("COMP_ERROR")
    ELSE Success("BOOLEAN", << <<"NOTS">> >>)

sem_expr_and_or(left, op, right) ==
    IF {left, right} # {"BOOLEAN"} THEN Failure("COMP_ERROR")
    ELSE Success("BOOLEAN", << <<IF op = "AND" THEN "ANDS" ELSE "ORS">> >>)

\* <= and >= : both operands are used twice, from temporaries
OrEqual(strict) ==
    << <<"POPS", "tmp1">>, <<"POPS", "tmp2">>,
       <<"PUSHS", "tmp2">>, <<"PUSHS", "tmp1">>, <<strict>>,
       <<"PUSHS", "tmp2">>, <<"PUSHS", "tmp1">>, <<"EQS">>, <<"ORS">> >>

sem_expr_lte_gte(left, op, right) ==
    CASE right = "BOOLEAN" -> Failure("PROG_ERROR")
      [] right # "BOOLEAN" /\ ~are_types_compatible(left, right) -> Failure("COMP_ERROR")
      [] OTHER -> Success("BOOLEAN", Promote(left, right) \o
                    CASE op = "LT" -> << <<"LTS">> >>
                      [] op = "GT" -> << <<"GTS">> >>
                      [] op = "LE" -> OrEqual("LTS")
                      [] op = "GE" -> OrEqual("GTS"))

sem_expr_eq_ne(left, op, right) ==
    IF ~are_types_compatible(left, right) THEN Failure("COMP_ERROR")
    ELSE Success("BOOLEAN", Promote(left, right) \o
                    IF op = "EQUAL" THEN << <<"EQS">> >> ELSE << <<"EQS">>, <<"NOTS">> >>)

\* Strings can only be added, and only in temporaries: CONCAT has no stack form.
sem_expr_aritmetic_basic(left, op, right) ==
    CASE ~are_types_compatible(left, right) \/ right = "BOOLEAN" -> Failure("COMP_ERROR")
      [] left = "STRING" /\ right = "STRING" ->
            IF op # "ADD" THEN Failure("COMP_ERROR")
            ELSE Success("STRING", << <<"CONCAT">> >>)
      [] OTHER -> Success(IF left = right THEN left ELSE "DOUBLE",
                          Promote(left, right) \o
                          << <<CASE op = "ADD" -> "ADDS"
                                 [] op = "SUB" -> "SUBS"
                                 [] op = "MUL" -> "MULS">> >>)

\* DIVS takes two floats.  Integer division first rounds both operands.
RoundToFloat == << <<"FLOAT2R2EINTS">>, <<"INT2FLOATS">> >>

sem_expr_div(left, op, right) ==
    LET castLeft == CASE left = "INTEGER" -> cast_second_operand("INT2FLOATS")
                      [] left = "DOUBLE" /\ op = "DIVI" -> BelowTop(RoundToFloat)
                      [] OTHER -> << >>
        castRight == CASE right = "INTEGER" -> << <<"INT2FLOATS">> >>
                       [] right = "DOUBLE" /\ op = "DIVI" -> RoundToFloat
                       [] OTHER -> << >>
    IN  CASE right \notin Numeric -> Failure("PROG_ERROR")
          [] right \in Numeric /\ left \notin Numeric -> Failure("COMP_ERROR")
          [] OTHER -> IF op = "DIVI"
                      THEN Success("INTEGER", castLeft \o castRight \o
                                              << <<"DIVS">>, <<"FLOAT2INTS">> >>)
                      ELSE Success("DOUBLE", castLeft \o castRight \o << <<"DIVS">> >>)

\* 0 - operand
sem_expr_unary(operand) ==
    IF operand \notin Numeric THEN Failure("COMP_ERROR")
    ELSE Success(operand, BelowTop(<< <<"PUSHS", operand>> >>) \o << <<"SUBS">> >>)

sem_expr_brackets(inner) == Success(inner, << >>)
sem_expr_list(left, right) == Success(<<left, right>>, << >>)
sem_expr_list_expr(list, right) == Success(list \o <<right>>, << >>)

\* args: the types of the arguments in the order they were written
sem_expr_func(name, args) ==
    CASE name \notin DOMAIN FuncSig -> Failure("PROG_ERROR")
      [] name \in DOMAIN FuncSig ->
            LET params == FuncSig[name].params
            IN  IF /\ Len(args) = Len(params)
                   /\ \A k \in DOMAIN args : are_types_compatible(args[k], params[k])
                THEN Success(FuncSig[name].ret, << <<"CALL", name>> >>)
                ELSE Failure("COMP_ERROR")
=============================================================================
