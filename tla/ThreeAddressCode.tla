-------------------------- MODULE ThreeAddressCode --------------------------
(***************************************************************************)
(* src/src/3ac.c: instructions with up to three addresses.  Code is a      *)
(* sequence of them, and the empty ones that only space the output are     *)
(* left out.                                                               *)
(***************************************************************************)
EXTENDS Integers, Sequences

\* An address is a variable of a frame, GF, LF or TF, or a constant.  Of a
\* constant the type is kept, and the value where it matters.  Real numbers
\* are counted in halves.
addr_symbol(frame, key) == [frame |-> frame, key |-> key, value |-> << >>]
addr_constant(type) == addr_symbol("const", type)
addr_value(type, value) == [frame |-> "const", key |-> type, value |-> <<value>>]

Integer(n) == addr_value("KW_INTEGER", n)
Bool(b) == addr_value("KW_BOOLEAN", b)
Chars(s) == addr_value("KW_STRING", s)

\* A generated label is a kind with a generated id, a function its name with 0.
NoLabel == [kind |-> "none", uid |-> 0]

\* instruction_init.  expected is history: the type the translator believes
\* the value to have that the instruction moves to or from the data stack.
instruction(op, addresses) ==
    [op |-> op, label |-> NoLabel, addresses |-> addresses, expected |-> "none"]
On(op, kind, uid) == [instruction(op, << >>) EXCEPT !.label = [kind |-> kind, uid |-> uid]]
JumpIf(op, kind, uid, address1, address2) ==
    [On(op, kind, uid) EXCEPT !.addresses = <<address1, address2>>]

\* Instructions without addresses
Plain(op) == instruction(op, << >>)
Push(address) == instruction("PUSHS", <<address>>)
Pop(address) == instruction("POPS", <<address>>)
DefVar(frame, key) == instruction("DEFVAR", <<addr_symbol(frame, key)>>)
Move(to, from) == instruction("MOVE", <<to, from>>)

\* Those whose first address is written
Writing == {"MOVE", "POPS", "READ", "TYPE", "INT2FLOAT", "FLOAT2INT", "FLOAT2R2EINT", "INT2CHAR",
            "STRI2INT", "GETCHAR", "STRLEN", "CONCAT", "ADD", "SUB", "MUL", "DIV", "LT", "GT"}
IsWrite(instr, address) == instr.op \in Writing /\ instr.addresses[1] = address

\* What instr reads or writes
Variables(instr) ==
    {instr.addresses[k] : k \in {j \in DOMAIN instr.addresses : instr.addresses[j].frame # "const"}}
=============================================================================
