----------------------------- MODULE MCSymTable -----------------------------
(***************************************************************************)
(* SymTable with three functions, all in one bucket or two of them, and    *)
(* names of one character and of more than the buffer has room for.        *)
(***************************************************************************)
EXTENDS SymTable

MCKey == {Codes(k) : k \in {"f", "g", "ab"}}
MCName == {Codes(n) : n \in {"x", "xyz"}}

ASSUME OneChainIsShared == Cardinality({Bucket(k) : k \in Key}) < Cardinality(Key)
=============================================================================
