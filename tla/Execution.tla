----------------------------- MODULE Execution ------------------------------
(***************************************************************************)
(* src/src/main.c: a program is translated, and if it is accepted its code *)
(* is printed; here the interpreter then runs it.                          *)
(***************************************************************************)
EXTENDS Translator, Machine

EInit == TInit /\ MInit

Translate == TNext /\ UNCHANGED machine

\* generate_code.  The lists are not used any more.
Load ==
    /\ Accepted
    /\ code = << >>
    /\ code' = generate_code(parser.il)
    /\ parser' = [parser EXCEPT !.il = parser_init.il]
    /\ UNCHANGED <<vars, source, owners, owner>>
    /\ UNCHANGED <<ip, globals, frames, temp, data, calls, fault, rounds>>

Run == Step /\ UNCHANGED allvars

ENext == Translate \/ Load \/ Run

ESpec == EInit /\ [][ENext]_<<allvars, machine>>

(* Calls are balanced by the parameters of the function called.            *)
ParamsOf == [f \in DOMAIN parser.sym_tab_functions |-> Len(parser.sym_tab_functions[f].params)]
FunctionsLeaveOneValue == CallsAreBalanced(ParamsOf)
=============================================================================
