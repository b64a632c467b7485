----------------------------- MODULE MCBuiltIns -----------------------------
(***************************************************************************)
(* Calls of the built-in functions as a program makes them, and what the   *)
(* functions mean.                                                         *)
(***************************************************************************)
EXTENDS Machine, BuiltIns

VARIABLE call       \* the function and its arguments

\* Strings of up to three different characters; integers, and the same numbers
\* of halves as real numbers
Strings == {SubSeq(<<97, 98, 99>>, 1, n) : n \in 0 .. 3}
Indices == -2 .. 5
Number == {Integer(i) : i \in Indices} \cup {addr_value("KW_DOUBLE", i) : i \in Indices}
Invocations ==
    {[name |-> "length", args |-> <<Chars(s)>>] : s \in Strings}
    \cup {[name |-> "chr", args |-> <<n>>] : n \in Number \cup {Integer(255), Integer(256)}}
    \cup {[name |-> "asc", args |-> <<Chars(s), n>>] : s \in Strings, n \in Number}
    \cup {[name |-> "substr", args |-> <<Chars(s), n, m>>] : s \in Strings, n, m \in Number}

\* What the translator writes for the call, and generate_code around it
CallCode ==
    <<DefVar("GF", ExprValue)>> \o [k \in DOMAIN call.args |-> Push(call.args[k])]
    \o <<On("CALL", call.name, 0), On("JUMP", "PROGRAM_END", 0)>> \o add_built_ins
    \o <<On("LABEL", "PROGRAM_END", 0)>>

BInit ==
    /\ call \in Invocations
    /\ MInit

Load ==
    /\ code = << >>
    /\ code' = CallCode
    /\ UNCHANGED <<ip, globals, frames, temp, data, calls, fault, rounds, call>>

BNext == Load \/ (Step /\ UNCHANGED call)

\* The interpreter goes on while it can.
BSpec == BInit /\ [][BNext]_<<machine, call>> /\ WF_<<machine, call>>(BNext)
-----------------------------------------------------------------------------
S == call.args[1].value[1]
N(k) == IF call.args[k].key = "KW_DOUBLE" THEN RoundEven(call.args[k].value[1])
        ELSE call.args[k].value[1]

Meaning ==
    CASE call.name = "length" -> Len(S)
      [] call.name = "chr" -> <<N(1)>>
      [] call.name = "asc" -> IF N(2) \in DOMAIN S THEN S[N(2)] ELSE 0
      [] call.name = "substr" ->
            IF N(2) \notin DOMAIN S THEN << >>
            ELSE IF N(3) < 0 \/ N(3) > Len(S) - N(2) + 1 THEN SubSeq(S, N(2), Len(S))
            ELSE SubSeq(S, N(2), N(2) + N(3) - 1)

(* No argument stops the program, but a code out of 0 to 255 given to chr, *)
(* and, an error of the function, the position just after the string given *)
(* to asc.                                                                 *)
OnlyKnownFaults ==
    fault # "none" =>
        /\ fault = "range"
        /\ \/ call.name = "chr" /\ N(1) \notin 0 .. 255
           \/ call.name = "asc" /\ N(2) = Len(S) + 1

(* A call takes its arguments from the data stack and leaves one value,    *)
(* what the function means for them: positions count from 1, out of the    *)
(* string asc gives 0 and substr the empty string, and substr goes to the  *)
(* end of the string where fewer characters are left than asked for.  It   *)
(* stops the program only where that is known.                             *)
CallsGiveTheirMeaning ==
    /\ Ended => /\ frames = << >> /\ calls = << >>
                /\ data = <<[type |-> built_in_functions[call.name].ret_type, value |-> <<Meaning>>]>>
    /\ OnlyKnownFaults

(* The loops of substr end.                                                *)
CallsEnd == <>(Ended \/ fault # "none")
=============================================================================
