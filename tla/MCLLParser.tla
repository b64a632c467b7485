---------------------------- MODULE MCLLParser ----------------------------
(***************************************************************************)
(* Instances of LLParser for model checking, and the tokens a derivation   *)
(* can begin with, computed from the productions alone.                    *)
(***************************************************************************)
EXTENDS LLParser

Tok(ids) == {[id |-> t] : t \in ids}

\* Every terminal of the grammar, one token of each further class, and the
\* scanner's error
MCScanned ==
    Tok(UNION {{r.production[k] : k \in DOMAIN r.production} : r \in grammar_rules}
        \ Nonterminals)
    \cup Tok({"INT", "NOT", "SUB", "ADD", "LEX_ERROR"})

-----------------------------------------------------------------------------
RECURSIVE FixNullable(_), FixFirst(_)

\* Nonterminals that derive the empty sequence
FixNullable(known) ==
    LET more == {r.for_nt : r \in {r \in grammar_rules :
                    \A k \in DOMAIN r.production : r.production[k] \in known}}
    IN  IF more \subseteq known THEN known ELSE FixNullable(known \cup more)
Nullable == FixNullable({})

\* Symbols of a sequence that may come to its front
Front(symbols) ==
    {k \in DOMAIN symbols : \A j \in 1 .. k - 1 : symbols[j] \in Nullable}

FirstOf(first, symbols) == UNION {first[symbols[k]] : k \in Front(symbols)}

\* The tokens that can begin what a symbol derives
FixFirst(first) ==
    LET more == [x \in DOMAIN first |->
            first[x] \cup UNION {FirstOf(first, r.production) :
                                    r \in {r \in grammar_rules : r.for_nt = x}}]
    IN  IF more = first THEN first ELSE FixFirst(more)
First == FixFirst([x \in Symbols |->
                    CASE x = "NT_EXPRESSION" -> ExpressionStart
                      [] x \in Nonterminals \ {"NT_EXPRESSION"} -> {}
                      [] OTHER -> {x}])

RefusedToken == pc = "done" /\ ret_code = "SYNTAX_ERROR" /\ token # NoToken

(* The LL table refuses a token only if no program goes on with it, except *)
(* that the second and later expressions of PRINT cannot begin with a      *)
(* parenthesis or NOT.                                                     *)
InPrint == Head(expected) = "NT_EXPRESSION_LIST" /\ token.id \in {"LPAR", "NOT"}

RefusedOnlyIfHopeless ==
    RefusedToken /\ ~InPrint => token.id \notin FirstOf(First, expected)

=============================================================================
