------------------------------ MODULE Machine -------------------------------
(***************************************************************************)
(* The interpreter the code is written for, tools/ic17int, as the code     *)
(* uses it.  Of a value the type is kept and, where it is known, the       *)
(* value itself; a jump that depends on anything unknown goes either way.  *)
(* Real numbers are counted in halves.                                     *)
(***************************************************************************)
EXTENDS ThreeAddressCode

CONSTANTS
    MaxCalls,       \* bound on the depth of calls
    MaxRounds       \* bound on the rounds of FOR loops

ASSUME MachineAssumption == MaxCalls \in Nat /\ MaxRounds \in Nat

VARIABLES
    code,           \* what is run
    ip,             \* position of the next instruction
    globals,        \* the global frame: a function from keys to values
    frames,         \* local frames, the head is LF
    temp,           \* TF, << >> or one frame
    data,           \* data stack, the head is its top
    calls,          \* call stack.  history: with every return position the
                    \* number of frames and of values the call started with
    fault,          \* why the interpreter gave up, "none"
    rounds          \* history: rounds of FOR loops that were completed

machine == <<code, ip, globals, frames, temp, data, calls, fault, rounds>>

ValueTypes == {"KW_INTEGER", "KW_DOUBLE", "KW_STRING", "KW_BOOLEAN"}
Unset == [type |-> "unset", value |-> << >>]
Unknown(type) == [type |-> type, value |-> << >>]

MInit ==
    /\ code = << >> /\ ip = 1
    /\ globals = << >> /\ frames = << >> /\ temp = << >>
    /\ data = << >> /\ calls = << >>
    /\ fault = "none" /\ rounds = 0

Executing == fault = "none" /\ ip \in DOMAIN code
Instr == code[ip]
Addr(k) == Instr.addresses[k]
Ended == code # << >> /\ ip = Len(code) + 1
-----------------------------------------------------------------------------
(* Variables *)

\* The frame of an address, in a sequence, empty if there is none
FrameOf(a) ==
    CASE a.frame = "GF" -> <<globals>>
      [] a.frame = "LF" -> SubSeq(frames, 1, 1)
      [] a.frame = "TF" -> temp
IsConst(a) == a.frame = "const"
Exists(a) == IsConst(a) \/ (FrameOf(a) # << >> /\ a.key \in DOMAIN FrameOf(a)[1])
ValueOf(a) == IF IsConst(a) THEN [type |-> a.key, value |-> a.value] ELSE FrameOf(a)[1][a.key]

With(frame, key, v) == [k \in DOMAIN frame \cup {key} |-> IF k = key THEN v ELSE frame[k]]
Store(a, v) ==
    /\ globals' = IF a.frame = "GF" THEN With(globals, a.key, v) ELSE globals
    /\ frames' = IF a.frame = "LF" THEN [frames EXCEPT ![1] = With(@, a.key, v)] ELSE frames
    /\ temp' = IF a.frame = "TF" THEN <<With(temp[1], a.key, v)>> ELSE temp
-----------------------------------------------------------------------------
(* Operations on values *)

Arithmetic == {"ADD", "SUB", "MUL", "DIV", "ADDS", "SUBS"}
Comparing == {"LT", "GT", "LTS", "GTS", "EQS"}

\* The type of the result, in a set, for operands of these types
ResultTypes(op, types) ==
    CASE op = "MOVE" -> {types[1]}
      [] op = "TYPE" -> {"KW_STRING"}
      [] op \in Arithmetic ->
            {t \in {"KW_INTEGER", "KW_DOUBLE"} : types = <<t, t>> /\ (op = "DIV" => t = "KW_DOUBLE")}
      [] op \in Comparing -> {"KW_BOOLEAN" : t \in {u \in ValueTypes : types = <<u, u>>}}
      [] OTHER ->
            {r \in ValueTypes : <<op, types, r>> \in
                {<<"INT2FLOAT", <<"KW_INTEGER">>, "KW_DOUBLE">>,
                 <<"INT2FLOATS", <<"KW_INTEGER">>, "KW_DOUBLE">>,
                 <<"FLOAT2INT", <<"KW_DOUBLE">>, "KW_INTEGER">>,
                 <<"FLOAT2R2EINT", <<"KW_DOUBLE">>, "KW_INTEGER">>,
                 <<"FLOAT2R2EINTS", <<"KW_DOUBLE">>, "KW_INTEGER">>,
                 <<"INT2CHAR", <<"KW_INTEGER">>, "KW_STRING">>,
                 <<"STRI2INT", <<"KW_STRING", "KW_INTEGER">>, "KW_INTEGER">>,
                 <<"GETCHAR", <<"KW_STRING", "KW_INTEGER">>, "KW_STRING">>,
                 <<"STRLEN", <<"KW_STRING">>, "KW_INTEGER">>,
                 <<"CONCAT", <<"KW_STRING", "KW_STRING">>, "KW_STRING">>,
                 <<"ORS", <<"KW_BOOLEAN", "KW_BOOLEAN">>, "KW_BOOLEAN">>}}

\* To the nearest integer, halves to the even one
RoundEven(halves) ==
    LET floor == halves \div 2
    IN  IF halves % 2 = 0 \/ floor % 2 = 0 THEN floor ELSE floor + 1

\* Products of real numbers are left out.
Known(operands) == \A k \in DOMAIN operands : operands[k].value # << >>
OutOfRange(op, operands) ==
    LET x(k) == operands[k].value[1]
    IN  Known(operands) /\
        (CASE op \in {"STRI2INT", "GETCHAR"} -> x(2) \notin 0 .. Len(x(1)) - 1
           [] op = "INT2CHAR" -> x(1) \notin 0 .. 255
           [] OTHER -> FALSE)

\* To zero
Truncate(halves) == IF halves >= 0 THEN halves \div 2 ELSE -(-halves \div 2)

Compute(op, operands) ==
    LET x(k) == operands[k].value[1]
    IN  CASE op \in {"ADD", "ADDS"} -> x(1) + x(2)
          [] op \in {"SUB", "SUBS"} -> x(1) - x(2)
          [] op = "MUL" -> x(1) * x(2)
          [] op \in {"LT", "LTS"} -> x(1) < x(2)
          [] op \in {"GT", "GTS"} -> x(1) > x(2)
          [] op = "EQS" -> x(1) = x(2)
          [] op = "ORS" -> x(1) \/ x(2)
          [] op \in {"INT2FLOAT", "INT2FLOATS"} -> 2 * x(1)
          [] op \in {"FLOAT2R2EINT", "FLOAT2R2EINTS"} -> RoundEven(x(1))
          [] op = "FLOAT2INT" -> Truncate(x(1))
          [] op = "INT2CHAR" -> <<x(1)>>
          [] op = "STRI2INT" -> x(1)[x(2) + 1]
          [] op = "GETCHAR" -> <<x(1)[x(2) + 1]>>
          [] op = "STRLEN" -> Len(x(1))
          [] op = "CONCAT" -> x(1) \o x(2)
Computed == {"ADD", "SUB", "MUL", "LT", "GT", "ADDS", "SUBS", "LTS", "GTS", "EQS", "ORS", "INT2FLOAT",
             "INT2FLOATS", "FLOAT2INT", "FLOAT2R2EINT", "FLOAT2R2EINTS", "INT2CHAR", "STRI2INT", "GETCHAR",
             "STRLEN", "CONCAT"}

TypesOf(operands) == [k \in DOMAIN operands |-> operands[k].type]
TypeName(type) == CASE type = "KW_INTEGER" -> <<"int">> [] type = "KW_DOUBLE" -> <<"float">>
                    [] type = "KW_STRING" -> <<"string">> [] type = "KW_BOOLEAN" -> <<"bool">>
                    [] OTHER -> << >>
Result(op, operands) ==
    CASE op = "MOVE" -> operands[1]
      [] op = "TYPE" -> [type |-> "KW_STRING", value |-> <<TypeName(operands[1].type)>>]
      [] op \notin {"MOVE", "TYPE"} /\ op \in Computed /\ Known(operands)
             /\ (op = "MUL" => operands[1].type = "KW_INTEGER") ->
            [type |-> CHOOSE t \in ResultTypes(op, TypesOf(operands)) : TRUE,
             value |-> <<Compute(op, operands)>>]
      [] OTHER -> Unknown(CHOOSE t \in ResultTypes(op, TypesOf(operands)) : TRUE)
-----------------------------------------------------------------------------
(* Why an instruction cannot be run *)

StackOps == {"ADDS", "SUBS", "LTS", "GTS", "EQS", "ORS", "INT2FLOATS", "FLOAT2R2EINTS"}
StackOperands(op) == IF op \in {"INT2FLOATS", "FLOAT2R2EINTS"} THEN 1 ELSE 2
Computing == Writing \ {"POPS", "READ"}

\* Addresses an instruction reads
Reads(instr) ==
    CASE instr.op \in Computing -> Tail(instr.addresses)
      [] instr.op \in {"PUSHS", "WRITE", "JUMPIFEQ", "JUMPIFNEQ"} -> instr.addresses
      [] OTHER -> << >>
OperandsOf(instr) ==
    IF instr.op \in StackOps
    THEN [k \in 1 .. StackOperands(instr.op) |-> data[StackOperands(instr.op) + 1 - k]]
    ELSE [k \in DOMAIN Reads(instr) |-> ValueOf(Reads(instr)[k])]

LabelsNamed(label) == {n \in DOMAIN code : code[n].op = "LABEL" /\ code[n].label = label}

NoFrame == \/ \E k \in DOMAIN Instr.addresses : ~IsConst(Addr(k)) /\ FrameOf(Addr(k)) = << >>
           \/ Instr.op = "PUSHFRAME" /\ temp = << >>
           \/ Instr.op = "POPFRAME" /\ frames = << >>
NoVariable == Instr.op # "DEFVAR" /\ \E k \in DOMAIN Instr.addresses : ~Exists(Addr(k))
DefinedTwice == Instr.op = "DEFVAR" /\ Exists(Addr(1))
NotInitialised ==
    Instr.op # "TYPE" /\ \E k \in DOMAIN Reads(Instr) : ValueOf(Reads(Instr)[k]) = Unset
StackEmpty == \/ Instr.op = "POPS" /\ data = << >>
              \/ Instr.op \in StackOps /\ Len(data) < StackOperands(Instr.op)
              \/ Instr.op = "RETURN" /\ calls = << >>
WrongTypes ==
    LET operands == OperandsOf(Instr)
    IN  \/ Instr.op \in Computing \cup StackOps /\ ResultTypes(Instr.op, TypesOf(operands)) = {}
        \/ Instr.op \in {"JUMPIFEQ", "JUMPIFNEQ"} /\ operands[1].type # operands[2].type
NoSuchLabel == Instr.op \in {"JUMP", "CALL", "JUMPIFEQ", "JUMPIFNEQ"} /\ LabelsNamed(Instr.label) = {}

FaultOf ==
    CASE NoFrame -> "no frame"
      [] ~NoFrame /\ (NoVariable \/ DefinedTwice) -> "variable"
      [] ~NoFrame /\ ~NoVariable /\ NotInitialised -> "not initialised"
      [] ~NoFrame /\ ~NoVariable /\ ~NotInitialised /\ StackEmpty -> "stack empty"
      [] OTHER -> CASE WrongTypes -> "types"
                    [] ~WrongTypes /\ Instr.op \in Computing /\ OutOfRange(Instr.op, OperandsOf(Instr)) ->
                            "range"
                    [] NoSuchLabel -> "label"
                    [] OTHER -> "none"

Fault ==
    /\ Executing
    /\ FaultOf # "none"
    /\ fault' = FaultOf
    /\ UNCHANGED <<code, ip, globals, frames, temp, data, calls, rounds>>

Runs(ops) == Executing /\ Instr.op \in ops /\ FaultOf = "none"
-----------------------------------------------------------------------------
Go(n) == ip' = n /\ UNCHANGED <<code, fault>>
Advance == Go(ip + 1)

DefineVariable ==
    /\ Runs({"DEFVAR"})
    /\ Store(Addr(1), Unset)
    /\ Advance /\ UNCHANGED <<data, calls, rounds>>

ComputeValue ==
    /\ Runs(Computing)
    /\ Store(Addr(1), Result(Instr.op, OperandsOf(Instr)))
    /\ Advance /\ UNCHANGED <<data, calls, rounds>>

\* What is read has the type asked for.
ReadInput ==
    /\ Runs({"READ"})
    /\ Store(Addr(1), Unknown(Addr(2).key))
    /\ Advance /\ UNCHANGED <<data, calls, rounds>>

PushValue ==
    /\ Runs({"PUSHS"})
    /\ data' = <<ValueOf(Addr(1))>> \o data
    /\ Advance /\ UNCHANGED <<globals, frames, temp, calls, rounds>>

PopValue ==
    /\ Runs({"POPS"})
    /\ Store(Addr(1), Head(data))
    /\ data' = Tail(data)
    /\ Advance /\ UNCHANGED <<calls, rounds>>

ComputeOnStack ==
    /\ Runs(StackOps)
    /\ data' = <<Result(Instr.op, OperandsOf(Instr))>>
               \o SubSeq(data, StackOperands(Instr.op) + 1, Len(data))
    /\ Advance /\ UNCHANGED <<globals, frames, temp, calls, rounds>>

\* Labels and output
Skip ==
    /\ Runs({"LABEL", "WRITE"})
    /\ Advance /\ UNCHANGED <<globals, frames, temp, data, calls, rounds>>

Target == CHOOSE n \in LabelsNamed(Instr.label) : TRUE
IsRound == Instr.label.kind = "FOR_LOOP"

TakeJump ==
    /\ Runs({"JUMP"})
    /\ IsRound => rounds < MaxRounds
    /\ rounds' = IF IsRound THEN rounds + 1 ELSE rounds
    /\ Go(Target) /\ UNCHANGED <<globals, frames, temp, data, calls>>

\* The outcomes a comparison may have
MayBeEqual(operands) == Known(operands) => operands[1].value = operands[2].value
MayDiffer(operands) == Known(operands) => operands[1].value # operands[2].value

JumpTaken ==
    /\ Runs({"JUMPIFEQ", "JUMPIFNEQ"})
    /\ IF Instr.op = "JUMPIFEQ" THEN MayBeEqual(OperandsOf(Instr)) ELSE MayDiffer(OperandsOf(Instr))
    /\ Go(Target) /\ UNCHANGED <<globals, frames, temp, data, calls, rounds>>

JumpNotTaken ==
    /\ Runs({"JUMPIFEQ", "JUMPIFNEQ"})
    /\ IF Instr.op = "JUMPIFEQ" THEN MayDiffer(OperandsOf(Instr)) ELSE MayBeEqual(OperandsOf(Instr))
    /\ Advance /\ UNCHANGED <<globals, frames, temp, data, calls, rounds>>

Call ==
    /\ Runs({"CALL"})
    /\ Len(calls) < MaxCalls
    /\ calls' = <<[return |-> ip + 1, frames |-> Len(frames), data |-> Len(data),
                   rounds |-> rounds, name |-> Instr.label.kind]>> \o calls
    /\ Go(Target) /\ UNCHANGED <<globals, frames, temp, data, rounds>>

Return ==
    /\ Runs({"RETURN"})
    /\ calls' = Tail(calls)
    /\ Go(Head(calls).return) /\ UNCHANGED <<globals, frames, temp, data, rounds>>

CreateFrame ==
    /\ Runs({"CREATEFRAME"})
    /\ temp' = << << >> >>
    /\ Advance /\ UNCHANGED <<globals, frames, data, calls, rounds>>

PushFrame ==
    /\ Runs({"PUSHFRAME"})
    /\ frames' = temp \o frames
    /\ temp' = << >>
    /\ Advance /\ UNCHANGED <<globals, data, calls, rounds>>

PopFrame ==
    /\ Runs({"POPFRAME"})
    /\ temp' = SubSeq(frames, 1, 1)
    /\ frames' = Tail(frames)
    /\ Advance /\ UNCHANGED <<globals, data, calls, rounds>>

Step ==
    \/ DefineVariable \/ ComputeValue \/ ReadInput \/ PushValue \/ PopValue \/ ComputeOnStack
    \/ Skip \/ TakeJump \/ JumpTaken \/ JumpNotTaken \/ Call \/ Return
    \/ CreateFrame \/ PushFrame \/ PopFrame \/ Fault
-----------------------------------------------------------------------------
(* An accepted program runs: its code never reads a variable that does not *)
(* exist in the frame of the moment or has no value, never defines one     *)
(* twice, never finds a stack empty or a label missing, and every          *)
(* instruction gets the types it wants.                                    *)
RunsWithoutFault == fault = "none"

(* Where the translator believes a value to have a type, and checks and    *)
(* converts by it, the value has that type when the program runs: the      *)
(* value of an expression, and of a variable in one.                       *)
Believed(v) == v = Unset \/ v.type = Instr.expected
ExpressionsHaveTheirTypes ==
    Executing /\ Instr.expected # "none" =>
        CASE Instr.op = "POPS" -> data = << >> \/ Believed(Head(data))
          [] Instr.op = "PUSHS" -> ~Exists(Addr(1)) \/ Believed(ValueOf(Addr(1)))

(* A function leaves the frames of its caller as they were, and of the     *)
(* data stack takes its arguments and leaves one value; what a FOR loop    *)
(* leaves on the stack, two values a round, comes on top.  A program ends  *)
(* with no frame and nothing else on the stack.                            *)
CallsAreBalanced(params) ==
    /\ Executing /\ Instr.op = "RETURN" /\ calls # << >> =>
        /\ Len(frames) = Head(calls).frames
        /\ Len(data) = Head(calls).data - params[Head(calls).name] + 1
                       + 2 * (rounds - Head(calls).rounds)
    /\ Ended => frames = << >> /\ calls = << >> /\ Len(data) = 2 * rounds
=============================================================================
