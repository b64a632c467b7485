-------------------------- MODULE Translator_proofs --------------------------
(***************************************************************************)
(* Proofs about parse() with the semantic actions, for every set of        *)
(* programs, and, at the end, about the parser alone, for any tokens.      *)
(*   1. What every semantic action does with a token or value it may get.  *)
(*   2. What the rules of the grammar do to the places of Coupling.        *)
(*   3. What the steps of the parser do to the coupled stacks.             *)
(*   4. TInv is inductive: one lemma for every action of TNext.            *)
(*   5. What follows from it.                                              *)
(*   6. BInv is inductive with it: the open blocks of the program and what *)
(*      is still to close them.                                            *)
(*   7. The analyzers and tables there are where a statement starts.       *)
(***************************************************************************)
EXTENDS Coupling, SequenceTheorems, FiniteSetTheorems, TLAPS

Busy(p) == Fit(p) /\ Len(p.sem_an_stack) > 0
Flags(p) == <<p.static_var_decl, p.il_override, p.last_loop_type, p.step_found>>

\* The running analyzer is now in state; tables and flags are those after it.
Turns(p, q, state, finished, tables, flags) ==
    /\ Busy(q)
    /\ Changed(p.sem_an_stack, q.sem_an_stack)
    /\ Me(q).sem_action = Me(p).sem_action /\ Me(q).state = state /\ Me(q).finished = finished
    /\ Tables(q) = tables /\ Flags(q) = flags

\* A flag is set only while the statement it belongs to is read.
FlagsFit(p) ==
    /\ p.static_var_decl # FALSE \/ p.il_override # "none" =>
          Me(p).sem_action = "sem_var_decl" /\ ~Me(p).finished /\ Me(p).state \in {"VAR_TYPE", "ASSIGN"}
    /\ p.last_loop_type # "none" =>
          Me(p).sem_action \in {"sem_exit", "sem_continue"} /\ ~Me(p).finished
          /\ Me(p).state = "NEXT_LOOP_TYPE"

Ready(p, action) ==
    /\ Busy(p) /\ Me(p).sem_action = action /\ ~Me(p).finished
    /\ Tables(p) >= TablesHeld(Me(p)) /\ FlagsFit(p)

Fits(action, state, finished, j) ==
    IF finished THEN j = 0 \/ (action = "sem_condition" /\ j = 1)
    ELSE <<state, "none", j>> \in Rows(action)

\* What an action leaves: it is at place j of its rule.
Leaves(p, q, value, j) ==
    /\ Busy(q) /\ Changed(p.sem_an_stack, q.sem_an_stack)
    /\ Me(q).sem_action = Me(p).sem_action
    /\ Fits(Me(q).sem_action, Me(q).state, Me(q).finished, j)
    /\ EndsLine(p, value, j) => Me(q).finished
    /\ Tables(q) = Tables(p) - TablesHeld(Me(p)) + TablesHeld(Me(q))
    /\ FlagsFit(q) /\ q.step_found = FALSE

LEMMA TopIsFirst ==
    ASSUME NEW p, Busy(p)
    PROVE  /\ Me(p) = p.sem_an_stack[1] /\ IsAnalyzer(Me(p))
           /\ Len(p.sem_an_stack) \in Nat \ {0} /\ p.sem_an_stack # << >>
<1>1. Len(p.sem_an_stack) \in Nat \ {0} /\ p.sem_an_stack # << >>
  BY Lengths DEF Busy, Fit
<1>2. IsAnalyzer(p.sem_an_stack[1])
  BY <1>1 DEF Busy, Fit
<1>3. Head(p.sem_an_stack) = p.sem_an_stack[1]
  OBVIOUS
<1> QED BY <1>1, <1>2, <1>3 DEF Me
-----------------------------------------------------------------------------
(* The steps the actions are made of, one after the other from p on        *)

LEMMA ThenTables ==
    ASSUME NEW p, NEW q, NEW s, NEW f, NEW t, NEW g, Turns(p, q, s, f, t, g),
           NEW r, DOMAIN r = Fields, r.sem_an_stack = q.sem_an_stack, IsSeq(r.sym_tab_stack)
    PROVE  Turns(p, r, s, f, Tables(r), Flags(r))
<1>1. Busy(r) /\ Me(r) = Me(q)
  BY DEF Turns, Busy, Fit, Me
<1> QED BY <1>1 DEF Turns

LEMMA ThenFlags ==
    ASSUME NEW p, NEW q, NEW s, NEW f, NEW t, NEW g, Turns(p, q, s, f, t, g),
           NEW r, DOMAIN r = Fields, r.sem_an_stack = q.sem_an_stack, r.sym_tab_stack = q.sym_tab_stack
    PROVE  Turns(p, r, s, f, t, Flags(r))
<1>1. IsSeq(r.sym_tab_stack) /\ Tables(r) = t
  BY DEF Turns, Busy, Fit, Tables
<1> QED BY <1>1, ThenTables

LEMMA ThenSame ==
    ASSUME NEW p, NEW q, NEW s, NEW f, NEW t, NEW g, Turns(p, q, s, f, t, g),
           NEW r, DOMAIN r = Fields, r.sem_an_stack = q.sem_an_stack, r.sym_tab_stack = q.sym_tab_stack,
           Flags(r) = Flags(q)
    PROVE  Turns(p, r, s, f, t, g)
<1>1. Flags(r) = g
  BY DEF Turns
<1> QED BY <1>1, ThenFlags

LEMMA ThenEmitTo ==
    ASSUME NEW p, NEW q, NEW s, NEW f, NEW t, NEW g, Turns(p, q, s, f, t, g), NEW list, NEW code
    PROVE  Turns(p, EmitTo(q, list, code), s, f, t, g)
<1>1. DOMAIN q = Fields
  BY DEF Turns, Busy, Fit
<1> QED BY <1>1, ThenSame DEF EmitTo, Fields, Flags

LEMMA ThenEmit ==
    ASSUME NEW p, NEW q, NEW s, NEW f, NEW t, NEW g, Turns(p, q, s, f, t, g), NEW code
    PROVE  Turns(p, Emit(q, code), s, f, t, g)
  BY ThenEmitTo DEF Emit

LEMMA ThenTakeUids ==
    ASSUME NEW p, NEW q, NEW s, NEW f, NEW t, NEW g, Turns(p, q, s, f, t, g), NEW n
    PROVE  Turns(p, TakeUids(q, n), s, f, t, g)
<1>1. DOMAIN q = Fields
  BY DEF Turns, Busy, Fit
<1> QED BY <1>1, ThenSame DEF TakeUids, Fields, Flags

LEMMA ThenSetGlobal ==
    ASSUME NEW p, NEW q, NEW s, NEW f, NEW t, NEW g, Turns(p, q, s, f, t, g), NEW key, NEW type
    PROVE  Turns(p, SetGlobal(q, key, type), s, f, t, g)
<1>1. DOMAIN q = Fields
  BY DEF Turns, Busy, Fit
<1> QED BY <1>1, ThenSame DEF SetGlobal, Fields, Flags

LEMMA ThenInsertFunction ==
    ASSUME NEW p, NEW q, NEW s, NEW f, NEW t, NEW g, Turns(p, q, s, f, t, g), NEW name
    PROVE  Turns(p, InsertFunction(q, name), s, f, t, g)
<1>1. DOMAIN q = Fields
  BY DEF Turns, Busy, Fit
<1> QED BY <1>1, ThenSame DEF InsertFunction, Fields, Flags

LEMMA ThenAddParam ==
    ASSUME NEW p, NEW q, NEW s, NEW f, NEW t, NEW g, Turns(p, q, s, f, t, g), NEW type
    PROVE  Turns(p, func_add_param(q, type), s, f, t, g)
<1>1. DOMAIN q = Fields
  BY DEF Turns, Busy, Fit
<1> QED BY <1>1, ThenSame DEF func_add_param, Fields, Flags

LEMMA ThenStoreParamName ==
    ASSUME NEW p, NEW q, NEW s, NEW f, NEW t, NEW g, Turns(p, q, s, f, t, g), NEW name
    PROVE  Turns(p, func_store_param_name(q, name), s, f, t, g)
<1>1. DOMAIN q = Fields
  BY DEF Turns, Busy, Fit
<1> QED BY <1>1, ThenSame DEF func_store_param_name, Fields, Flags

LEMMA ThenSetRetType ==
    ASSUME NEW p, NEW q, NEW s, NEW f, NEW t, NEW g, Turns(p, q, s, f, t, g), NEW type
    PROVE  Turns(p, func_set_ret_type(q, type), s, f, t, g)
<1>1. DOMAIN q = Fields
  BY DEF Turns, Busy, Fit
<1> QED BY <1>1, ThenSame DEF func_set_ret_type, Fields, Flags

LEMMA ThenSetDefined ==
    ASSUME NEW p, NEW q, NEW s, NEW f, NEW t, NEW g, Turns(p, q, s, f, t, g)
    PROVE  Turns(p, func_set_defined(q), s, f, t, g)
<1>1. DOMAIN q = Fields
  BY DEF Turns, Busy, Fit
<1> QED BY <1>1, ThenSame DEF func_set_defined, Fields, Flags

LEMMA ThenSetOp ==
    ASSUME NEW p, NEW q, NEW s, NEW f, NEW t, NEW g, Turns(p, q, s, f, t, g), NEW op
    PROVE  Turns(p, [q EXCEPT !.op = op], s, f, t, g)
<1>1. DOMAIN q = Fields
  BY DEF Turns, Busy, Fit
<1> QED BY <1>1, ThenSame DEF Fields, Flags

LEMMA ThenSetActive ==
    ASSUME NEW p, NEW q, NEW s, NEW f, NEW t, NEW g, Turns(p, q, s, f, t, g), NEW n
    PROVE  Turns(p, [q EXCEPT !.active = n], s, f, t, g)
<1>1. DOMAIN q = Fields
  BY DEF Turns, Busy, Fit
<1> QED BY <1>1, ThenSame DEF Fields, Flags

LEMMA ThenSetCurrent ==
    ASSUME NEW p, NEW q, NEW s, NEW f, NEW t, NEW g, Turns(p, q, s, f, t, g), NEW key, NEW type
    PROVE  Turns(p, SetCurrent(q, key, type), s, f, t, g)
<1>1. DOMAIN q = Fields /\ IsSeq(q.sym_tab_stack) /\ Tables(q) = t /\ Flags(q) = g
  BY DEF Turns, Busy, Fit
<1>2. CASE q.sym_tab_stack = << >>
  BY <1>2, ThenSetGlobal DEF SetCurrent
<1>3. CASE q.sym_tab_stack # << >>
  <2> DEFINE table == Insert(q.sym_tab_stack[1], key, type)
             r == [q EXCEPT !.sym_tab_stack[1] = table]
  <2>1. SetCurrent(q, key, type) = r
    BY <1>1, <1>3 DEF SetCurrent, Fields
  <2>2. DOMAIN r = Fields /\ r.sem_an_stack = q.sem_an_stack /\ Flags(r) = Flags(q)
        /\ r.sym_tab_stack = [q.sym_tab_stack EXCEPT ![1] = table]
    BY <1>1 DEF Fields, Flags
  <2>3. IsSeq(r.sym_tab_stack) /\ Tables(r) = Tables(q)
    BY <1>1, <1>3, <2>2, Lengths, ReplacedTop DEF Changed, Tables
  <2> HIDE DEF r
  <2>4. Turns(p, r, s, f, Tables(r), Flags(r))
    BY <2>2, <2>3, ThenTables
  <2> QED BY <1>1, <2>1, <2>2, <2>3, <2>4
<1> QED BY <1>2, <1>3

LEMMA ThenCreateScope ==
    ASSUME NEW p, NEW q, NEW s, NEW f, NEW t, NEW g, Turns(p, q, s, f, t, g)
    PROVE  Turns(p, create_scope(q), s, f, t + 1, g)
<1>1. DOMAIN q = Fields /\ Tables(q) = t /\ Flags(q) = g
  BY DEF Turns, Busy, Fit
<1> PICK S : q.sym_tab_stack \in Seq(S)
  BY DEF Turns, Busy, Fit, IsSeq
<1> DEFINE pushed == << << >> >> \o q.sym_tab_stack
           r == create_scope(q)
<1>2. pushed \in Seq(S \cup {<< >>}) /\ Len(pushed) = Tables(q) + 1
  <2>1. << << >> >> \in Seq(S \cup {<< >>}) /\ q.sym_tab_stack \in Seq(S \cup {<< >>})
        /\ Len(<< << >> >>) = 1
    OBVIOUS
  <2> QED BY <2>1, ConcatProperties, LenProperties DEF Tables
<1> HIDE DEF pushed
<1>3. DOMAIN r = Fields /\ r.sem_an_stack = q.sem_an_stack /\ r.sym_tab_stack = pushed /\ Flags(r) = g
  BY <1>1 DEF create_scope, Fields, Flags, pushed
<1>4. IsSeq(r.sym_tab_stack) /\ Tables(r) = t + 1
  BY <1>1, <1>2, <1>3 DEF IsSeq, Tables
<1> HIDE DEF r
<1>5. Turns(p, r, s, f, Tables(r), Flags(r))
  BY <1>3, <1>4, ThenTables
<1> QED BY <1>3, <1>4, <1>5 DEF r

LEMMA ThenDeleteScope ==
    ASSUME NEW p, NEW q, NEW s, NEW f, NEW t, NEW g, Turns(p, q, s, f, t, g), t > 0
    PROVE  Turns(p, delete_scope(q), s, f, t - 1, g)
<1>1. DOMAIN q = Fields /\ q.sym_tab_stack # << >> /\ Tables(q) = t /\ Flags(q) = g
  BY DEF Turns, Busy, Fit, Tables
<1> PICK S : q.sym_tab_stack \in Seq(S)
  BY DEF Turns, Busy, Fit, IsSeq
<1> DEFINE r == delete_scope(q)
<1>2. Tail(q.sym_tab_stack) \in Seq(S) /\ Len(Tail(q.sym_tab_stack)) = t - 1
  BY <1>1, HeadTailProperties DEF Tables
<1>3. DOMAIN r = Fields /\ r.sem_an_stack = q.sem_an_stack /\ r.sym_tab_stack = Tail(q.sym_tab_stack)
      /\ Flags(r) = g
  BY <1>1 DEF delete_scope, Fields, Flags
<1>4. IsSeq(r.sym_tab_stack) /\ Tables(r) = t - 1
  BY <1>2, <1>3 DEF IsSeq, Tables
<1> HIDE DEF r
<1>5. Turns(p, r, s, f, Tables(r), Flags(r))
  BY <1>3, <1>4, ThenTables
<1> QED BY <1>3, <1>4, <1>5 DEF r

LEMMA NewTop ==
    ASSUME NEW q, Busy(q), NEW a, IsAnalyzer(a), NEW r, DOMAIN r = Fields,
           r.sem_an_stack = [q.sem_an_stack EXCEPT ![1] = a], r.sym_tab_stack = q.sym_tab_stack
    PROVE  Busy(r) /\ Changed(q.sem_an_stack, r.sem_an_stack) /\ Me(r) = a
<1>1. IsSeq(r.sem_an_stack) /\ Changed(q.sem_an_stack, r.sem_an_stack) /\ r.sem_an_stack[1] = a
  BY ReplacedTop DEF Busy, Fit
<1>2. Busy(r)
  <2>1. Len(r.sem_an_stack) = Len(q.sem_an_stack) /\ Len(q.sem_an_stack) \in Nat \ {0}
    BY <1>1, TopIsFirst DEF Changed
  <2>2. \A k \in 1 .. Len(r.sem_an_stack) : IsAnalyzer(r.sem_an_stack[k])
    BY <1>1, <2>1 DEF Changed, Busy, Fit
  <2> QED BY <1>1, <2>1, <2>2 DEF Busy, Fit
<1> QED BY <1>1, <1>2, TopIsFirst

LEMMA ThenBecome ==
    ASSUME NEW p, NEW q, NEW s, NEW f, NEW t, NEW g, Turns(p, q, s, f, t, g), NEW state
    PROVE  Turns(p, Become(q, state), state, f, t, g)
<1> DEFINE r == Become(q, state)
           a == [q.sem_an_stack[1] EXCEPT !.state = state]
<1>1. /\ DOMAIN q = Fields /\ Busy(q) /\ IsAnalyzer(q.sem_an_stack[1]) /\ Me(q) = q.sem_an_stack[1]
      /\ Me(q).state = s /\ Me(q).finished = f /\ Me(q).sem_action = Me(p).sem_action
  BY TopIsFirst DEF Turns, Busy, Fit
<1>2. DOMAIN r = Fields /\ r.sem_an_stack = [q.sem_an_stack EXCEPT ![1] = a]
      /\ r.sym_tab_stack = q.sym_tab_stack /\ Flags(r) = Flags(q)
  BY <1>1 DEF Become, Fields, Flags
<1>3. IsAnalyzer(a) /\ a.state = state /\ a.sem_action = Me(p).sem_action /\ a.finished = f
  BY <1>1 DEF IsAnalyzer
<1> HIDE DEF r, a
<1>4. Busy(r) /\ Changed(q.sem_an_stack, r.sem_an_stack) /\ Me(r) = a
  BY <1>1, <1>2, <1>3, NewTop
<1> QED BY <1>2, <1>3, <1>4 DEF Turns, Tables, Changed, r

LEMMA ThenHold ==
    ASSUME NEW p, NEW q, NEW s, NEW f, NEW t, NEW g, Turns(p, q, s, f, t, g), NEW value, Quiet(value)
    PROVE  Turns(p, Hold(q, value), s, f, t, g)
<1> DEFINE r == Hold(q, value)
           a == [q.sem_an_stack[1] EXCEPT !.value = value]
<1>1. /\ DOMAIN q = Fields /\ Busy(q) /\ IsAnalyzer(q.sem_an_stack[1]) /\ Me(q) = q.sem_an_stack[1]
      /\ Me(q).state = s /\ Me(q).finished = f /\ Me(q).sem_action = Me(p).sem_action
  BY TopIsFirst DEF Turns, Busy, Fit
<1>2. DOMAIN r = Fields /\ r.sem_an_stack = [q.sem_an_stack EXCEPT ![1] = a]
      /\ r.sym_tab_stack = q.sym_tab_stack /\ Flags(r) = Flags(q)
  BY <1>1 DEF Hold, Fields, Flags
<1>3. IsAnalyzer(a) /\ a.state = s /\ a.sem_action = Me(p).sem_action /\ a.finished = f
  BY <1>1 DEF IsAnalyzer
<1> HIDE DEF r, a
<1>4. Busy(r) /\ Changed(q.sem_an_stack, r.sem_an_stack) /\ Me(r) = a
  BY <1>1, <1>2, <1>3, NewTop
<1> QED BY <1>2, <1>3, <1>4 DEF Turns, Tables, Changed, r

LEMMA ThenFinish ==
    ASSUME NEW p, NEW q, NEW s, NEW f, NEW t, NEW g, Turns(p, q, s, f, t, g)
    PROVE  Turns(p, Finish(q), s, TRUE, t, g)
<1> DEFINE r == Finish(q)
           a == [q.sem_an_stack[1] EXCEPT !.finished = TRUE]
<1>1. /\ DOMAIN q = Fields /\ Busy(q) /\ IsAnalyzer(q.sem_an_stack[1]) /\ Me(q) = q.sem_an_stack[1]
      /\ Me(q).state = s /\ Me(q).finished = f /\ Me(q).sem_action = Me(p).sem_action
  BY TopIsFirst DEF Turns, Busy, Fit
<1>2. DOMAIN r = Fields /\ r.sem_an_stack = [q.sem_an_stack EXCEPT ![1] = a]
      /\ r.sym_tab_stack = q.sym_tab_stack /\ Flags(r) = Flags(q)
  BY <1>1 DEF Finish, Fields, Flags
<1>3. IsAnalyzer(a) /\ a.state = s /\ a.sem_action = Me(p).sem_action /\ a.finished = TRUE
  BY <1>1 DEF IsAnalyzer
<1> HIDE DEF r, a
<1>4. Busy(r) /\ Changed(q.sem_an_stack, r.sem_an_stack) /\ Me(r) = a
  BY <1>1, <1>2, <1>3, NewTop
<1> QED BY <1>2, <1>3, <1>4 DEF Turns, Tables, Changed, r

LEMMA Starts ==
    ASSUME NEW p, NEW action, Ready(p, action)
    PROVE  /\ Turns(p, p, Me(p).state, FALSE, Tables(p), Flags(p)) /\ Tables(p) \in Nat
           /\ IsAnalyzer(Me(p)) /\ DOMAIN p = Fields
<1>1. Busy(p) /\ IsAnalyzer(Me(p)) /\ Me(p).finished = FALSE
  BY TopIsFirst DEF Ready, IsAnalyzer
<1>2. Tables(p) \in Nat /\ DOMAIN p = Fields
  BY Lengths DEF Ready, Busy, Fit, Tables
<1> QED BY <1>1, <1>2 DEF Turns, Changed
-----------------------------------------------------------------------------
LEMMA TablesCount ==
    ASSUME NEW action, NEW state, NEW finished
    PROVE  TablesOf(action, state, finished) \in {0, 1}
  BY DEF TablesOf

\* Flags of another statement are not set.
LEMMA FlagsStay ==
    ASSUME NEW p, NEW q, FlagsFit(p), Flags(q) = Flags(p), Me(q).sem_action = Me(p).sem_action,
           \/ Me(p).sem_action \notin {"sem_var_decl", "sem_exit", "sem_continue"}
           \/ Me(q).state = Me(p).state /\ Me(q).finished = Me(p).finished
    PROVE  FlagsFit(q)
  BY DEF FlagsFit, Flags

LEMMA TurnedWith ==
    ASSUME NEW p, NEW q, NEW action, Ready(p, action), NEW state, NEW finished, NEW tables, NEW flags,
           NEW value, NEW j, Turns(p, q, state, finished, tables, flags),
           \/ tables = Tables(p) /\ (Has(action, state, finished) <=> Has(action, Me(p).state, FALSE))
           \/ tables = Tables(p) + 1 /\ Has(action, state, finished) /\ ~Has(action, Me(p).state, FALSE)
           \/ tables = Tables(p) - 1 /\ ~Has(action, state, finished) /\ Has(action, Me(p).state, FALSE),
           Fits(action, state, finished, j), EndsLine(p, value, j) => finished,
           FlagsFit(q), q.step_found = FALSE
    PROVE  Leaves(p, q, value, j)
<1>1. /\ Busy(q) /\ Changed(p.sem_an_stack, q.sem_an_stack)
      /\ Me(q).sem_action = action /\ Me(p).sem_action = action
      /\ Me(q).state = state /\ Me(q).finished = finished /\ Tables(q) = tables
  BY DEF Turns, Ready
<1>2. Tables(p) \in Nat /\ Me(p).finished = FALSE
  BY Starts DEF Ready, IsAnalyzer
<1>3. Tables(q) = Tables(p) - TablesHeld(Me(p)) + TablesHeld(Me(q))
  <2> DEFINE x == TablesOf(action, Me(p).state, FALSE)
             y == TablesOf(action, state, finished)
  <2>1. TablesHeld(Me(p)) = x /\ TablesHeld(Me(q)) = y
    BY <1>1, <1>2 DEF TablesHeld
  <2>2. \/ tables = Tables(p) /\ x = y
        \/ tables = Tables(p) + 1 /\ y = 1 /\ x = 0
        \/ tables = Tables(p) - 1 /\ y = 0 /\ x = 1
    BY Zenon DEF TablesOf
  <2>3. x \in {0, 1} /\ y \in {0, 1} /\ Tables(q) = tables
    BY <1>1, TablesCount
  <2> HIDE DEF x, y
  <2>4. Tables(q) = Tables(p) - x + y
    BY <1>2, <2>2, <2>3
  <2> QED BY <2>1, <2>4
<1> QED BY <1>1, <1>3 DEF Leaves

LEMMA Turned ==
    ASSUME NEW p, NEW q, NEW action, Ready(p, action), NEW state, NEW finished, NEW tables,
           NEW value, NEW j, Turns(p, q, state, finished, tables, Flags(p)),
           \/ tables = Tables(p) /\ (Has(action, state, finished) <=> Has(action, Me(p).state, FALSE))
           \/ tables = Tables(p) + 1 /\ Has(action, state, finished) /\ ~Has(action, Me(p).state, FALSE)
           \/ tables = Tables(p) - 1 /\ ~Has(action, state, finished) /\ Has(action, Me(p).state, FALSE),
           Fits(action, state, finished, j), EndsLine(p, value, j) => finished,
           \/ action \notin {"sem_var_decl", "sem_exit", "sem_continue"}
           \/ state = Me(p).state /\ finished = FALSE,
           p.step_found = FALSE
    PROVE  Leaves(p, q, value, j)
<1>1. /\ Flags(q) = Flags(p) /\ Me(q).sem_action = Me(p).sem_action /\ Me(p).sem_action = action
      /\ Me(q).state = state /\ Me(q).finished = finished /\ Me(p).finished = FALSE /\ FlagsFit(p)
  BY Starts DEF Turns, Ready, IsAnalyzer
<1>2. FlagsFit(q) /\ q.step_found = FALSE
  BY <1>1, FlagsStay DEF Flags
<1> QED BY <1>2, TurnedWith
-----------------------------------------------------------------------------
Names == Statements \cup {"NT_EXPRESSION", "NT_STMT_SEQ", "NT_EXPRESSION_LIST", "NT_ASSIGN_OPERATOR",
    "NT_IF_STMT_ELSEIF", "NT_IF_STMT_ELSE", "NT_DO_STMT_END", "NT_TEST_TYPE_START", "NT_TEST_TYPE_END",
    "NT_TYPE", "NT_TYPE_OPT", "NT_STEP_OPT", "NT_ID_OPT", "NT_LOOP_TYPE", "NT_LOOP_TYPE_END",
    "NT_VAR_DEF", "NT_INIT_OPT", "NT_PARAMS", "NT_PARAM_DECL", "NT_PARAMS_NEXT", "NT_LINE",
    "NT_LINE_END", "NT_GLOBAL_STMT", "NT_FUNC_DECL", "NT_FUNC_DEF", "NT_SHARED_VAR"}

LEMMA NamesAreNonterminals == Names \subseteq Nonterminals
<1>0. \A nt, selected, action, production : Rule(nt, selected, action, production).for_nt = nt
  BY DEF Rule
<1>1. \A n \in {"NT_LINE", "NT_LINE_END", "NT_GLOBAL_STMT"} :
          \E r \in ProgramRules : r.for_nt = n
  BY <1>0, SMTT(30) DEF ProgramRules
<1>2. \A n \in {"NT_INNER_STMT", "NT_STMT_SEQ"} :
          \E r \in StatementRules : r.for_nt = n
  BY <1>0, SMTT(30) DEF StatementRules
<1>3. \A n \in {"NT_VAR_DECL", "NT_SHARED_VAR", "NT_VAR_DEF", "NT_INIT_OPT", "NT_FUNC_DECL",
               "NT_FUNC_DEF", "NT_PARAM_DECL", "NT_PARAMS", "NT_PARAMS_NEXT", "NT_TYPE"} :
          \E r \in DeclarationRules : r.for_nt = n
  BY <1>0, SMTT(30) DEF DeclarationRules, Tokens, Types
<1>4. \A n \in {"NT_RETURN_STMT", "NT_ASSIGNMENT", "NT_INPUT_STMT", "NT_PRINT_STMT",
               "NT_EXPRESSION_LIST", "NT_SCOPE_STMT", "NT_ASSIGN_OPERATOR"} :
          \E r \in SimpleRules : r.for_nt = n
  BY <1>0, SMTT(30) DEF SimpleRules, Tokens, AssignOperators
<1>5. \A n \in {"NT_IF_STMT", "NT_IF_STMT_ELSEIF", "NT_IF_STMT_ELSE"} :
          \E r \in ConditionRules : r.for_nt = n
  BY <1>0, SMTT(30) DEF ConditionRules
<1>6. \A n \in {"NT_DO_STMT", "NT_DO_STMT_END", "NT_TEST_TYPE_END", "NT_EXIT_STMT",
               "NT_CONTINUE_STMT", "NT_LOOP_TYPE_END", "NT_FOR_STMT", "NT_TYPE_OPT",
               "NT_STEP_OPT", "NT_ID_OPT", "NT_TEST_TYPE_START", "NT_LOOP_TYPE"} :
          \E r \in LoopRules : r.for_nt = n
  BY <1>0, SMTT(30) DEF LoopRules, Tokens
<1> QED BY <1>1, <1>2, <1>3, <1>4, <1>5, <1>6 DEF Names, Statements, Nonterminals, grammar_rules

LEMMA Tabled ==
    /\ Rows("sem_scope") = ScopeRows /\ Places("sem_scope") = ScopePlaces
    /\ Rows("sem_print") = PrintRows /\ Places("sem_print") = PrintPlaces
    /\ Rows("sem_input") = InputRows /\ Places("sem_input") = InputPlaces
    /\ Rows("sem_expr_assign") = AssignRows /\ Places("sem_expr_assign") = AssignPlaces
    /\ Rows("sem_return") = ReturnRows /\ Places("sem_return") = ReturnPlaces
    /\ Rows("sem_condition") = ConditionRows /\ Places("sem_condition") = ConditionPlaces
    /\ Rows("sem_do_loop") = DoRows /\ Places("sem_do_loop") = DoPlaces
    /\ Rows("sem_for_loop") = ForRows /\ Places("sem_for_loop") = ForPlaces
    /\ Rows("sem_exit") = JumpRows /\ Places("sem_exit") = JumpPlaces("EXIT")
    /\ Rows("sem_continue") = JumpRows /\ Places("sem_continue") = JumpPlaces("CONTINUE")
    /\ Rows("sem_var_decl") = VarRows /\ Places("sem_var_decl") = VarPlaces
    /\ Rows("sem_param_decl") = ParamRows /\ Places("sem_param_decl") = ParamPlaces
    /\ Rows("sem_func_decl") = DeclRows /\ Places("sem_func_decl") = DeclPlaces
    /\ Rows("sem_func_def") = DefRows /\ Places("sem_func_def") = DefPlaces
    /\ Rows("sem_expr_result") = {} /\ Places("sem_expr_result") = {}
    /\ Places("program") = ProgramPlaces
  BY DEF Rows, Places

\* What Expected says when the tables of the action are known
ExpectedIn(p, value, j, rows, places) ==
    LET state == Me(p).state
    IN  /\ IsValue(value)
        /\ \/ /\ value.value_type = "TOKEN" /\ value.token \notin Names /\ p.step_found = FALSE
              /\ \E i : <<state, "none", i>> \in rows /\ <<i, value.token, j>> \in places
              /\ ~(value.token = "EOL" /\ j = 0 /\ <<state, "none", 0>> \in rows)
           \/ value.value_type = "TOKEN" /\ value.token = "EOL" /\ j = 0 /\ p.step_found = FALSE
              /\ <<state, "none", 0>> \in rows
           \/ value.value_type = "ID" /\ <<state, "expr", j>> \in rows
           \/ Quiet(value) /\ p.step_found = FALSE /\ <<state, "param", j>> \in rows

LEMMA ExpectedFrom ==
    ASSUME NEW p, NEW action, Me(p).sem_action = action, NEW value, NEW j, Expected(p, value, j)
    PROVE  ExpectedIn(p, value, j, Rows(action), Places(action))
  BY NamesAreNonterminals DEF Expected, Reads, EndsLine, Evaluates, TakesParam, ExpectedIn, Quiet

LEMMA SymbolsAreQuiet ==
    ASSUME NEW p, NEW name
    PROVE  Quiet(find_symbol(p, name))
<1>1. \A key, type : Quiet(IdValue(key, type)) /\ Quiet(NoValue)
  BY DEF Quiet, IsValue, IdValue, NoValue
<1>2. \/ \E key, type : find_symbol(p, name) = IdValue(key, type)
      \/ find_symbol(p, name) = NoValue
  BY Zenon DEF find_symbol
<1> QED BY <1>1, <1>2

LEMMA ScopeActs ==
    ASSUME NEW p, Ready(p, "sem_scope"), NEW value, NEW j, Expected(p, value, j),
           sem_scope(p, value).ret = "SUCCESS"
    PROVE  Leaves(p, sem_scope(p, value).parser, value, j)
<1> DEFINE q == sem_scope(p, value).parser
<1>1. /\ Turns(p, p, Me(p).state, FALSE, Tables(p), Flags(p)) /\ Tables(p) \in Nat
      /\ Me(p).sem_action = "sem_scope" /\ Me(p).finished = FALSE /\ Tables(p) >= TablesHeld(Me(p))
      /\ DOMAIN p = Fields /\ Quiet(Me(p).value)
  BY Starts DEF Ready, IsAnalyzer
<1>2. ExpectedIn(p, value, j, ScopeRows, ScopePlaces)
  BY <1>1, ExpectedFrom, Tabled
<1>3. p.step_found = FALSE
  BY <1>1 DEF Expected, Reads, EndsLine, Evaluates, TakesParam
<1>4. CASE Me(p).state = "START" /\ IsToken(value, {"SCOPE"})
  <2>1. Turns(p, q, "SCOPE_END", FALSE, Tables(p) + 1, Flags(p))
    BY <1>1, <1>4, ThenCreateScope, ThenEmit, ThenBecome DEF sem_scope, IsToken, IsId, Ok, Error
  <2>2. Fits("sem_scope", "SCOPE_END", FALSE, j) /\ ~EndsLine(p, value, j)
    BY <1>1, <1>2, <1>4, Tabled
         DEF ExpectedIn, EndsLine, IsToken, IsId, Fits, ScopeRows, ScopePlaces, Statements
  <2> QED BY <1>1, <1>3, <1>4, <2>1, <2>2, Turned DEF Has, OneTable
<1>5. CASE Me(p).state = "SCOPE_END" /\ IsToken(value, {"SCOPE"})
  <2>1. Tables(p) > 0
    BY <1>1, <1>5 DEF TablesHeld, TablesOf, Has, OneTable
  <2>2. Turns(p, q, "SCOPE_END", TRUE, Tables(p) - 1, Flags(p))
    BY <1>1, <1>5, <2>1, ThenDeleteScope, ThenEmit, ThenFinish
         DEF sem_scope, IsToken, IsId, Ok, Error
  <2>3. Fits("sem_scope", "SCOPE_END", TRUE, j)
    BY <1>1, <1>2, <1>5, Tabled
         DEF ExpectedIn, EndsLine, IsToken, IsId, Fits, ScopeRows, ScopePlaces, Statements
  <2> QED BY <1>1, <1>3, <1>5, <2>2, <2>3, Turned DEF Has, OneTable
<1>6. CASE /\ ~(Me(p).state = "START" /\ IsToken(value, {"SCOPE"}))
          /\ ~(Me(p).state = "SCOPE_END" /\ IsToken(value, {"SCOPE"}))
  <2>1. Turns(p, q, Me(p).state, FALSE, Tables(p), Flags(p))
    BY <1>1, <1>6 DEF sem_scope, IsToken, IsId, Ok, Error
  <2>2. Fits("sem_scope", Me(p).state, FALSE, j) /\ ~EndsLine(p, value, j)
    BY <1>1, <1>2, <1>6, Tabled
         DEF ExpectedIn, EndsLine, IsToken, IsId, Fits, ScopeRows, ScopePlaces, Statements, Names,
             Statements
  <2> QED BY <1>1, <1>3, <1>6, <2>1, <2>2, Turned DEF Has, OneTable
<1> QED BY <1>4, <1>5, <1>6

LEMMA PrintActs ==
    ASSUME NEW p, Ready(p, "sem_print"), NEW value, NEW j, Expected(p, value, j),
           sem_print(p, value).ret = "SUCCESS"
    PROVE  Leaves(p, sem_print(p, value).parser, value, j)
<1> DEFINE q == sem_print(p, value).parser
<1>1. /\ Turns(p, p, Me(p).state, FALSE, Tables(p), Flags(p)) /\ Tables(p) \in Nat
      /\ Me(p).sem_action = "sem_print" /\ Me(p).finished = FALSE /\ Tables(p) >= TablesHeld(Me(p))
      /\ DOMAIN p = Fields /\ Quiet(Me(p).value)
  BY Starts DEF Ready, IsAnalyzer
<1>2. ExpectedIn(p, value, j, PrintRows, PrintPlaces)
  BY <1>1, ExpectedFrom, Tabled
<1>3. p.step_found = FALSE
  BY <1>1 DEF Expected, Reads, EndsLine, Evaluates, TakesParam
<1>4. CASE IsId(value)
  <2>1. Turns(p, q, Me(p).state, FALSE, Tables(p), Flags(p))
    BY <1>1, <1>4, ThenEmit DEF sem_print, IsToken, IsId, Ok, Error
  <2>2. Fits("sem_print", Me(p).state, FALSE, j) /\ ~EndsLine(p, value, j)
    BY <1>1, <1>2, <1>4, Tabled
         DEF ExpectedIn, EndsLine, IsToken, IsId, Fits, PrintRows, PrintPlaces
  <2> QED BY <1>1, <1>3, <1>4, <2>1, <2>2, Turned DEF Has, OneTable
<1>5. CASE IsToken(value, {"EOL"})
  <2>1. Turns(p, q, Me(p).state, TRUE, Tables(p), Flags(p))
    BY <1>1, <1>5, ThenFinish DEF sem_print, IsToken, IsId, Ok, Error
  <2>2. Fits("sem_print", Me(p).state, TRUE, j)
    BY <1>1, <1>2, <1>5, Tabled
         DEF ExpectedIn, EndsLine, IsToken, IsId, Fits, PrintRows, PrintPlaces
  <2> QED BY <1>1, <1>3, <1>5, <2>1, <2>2, Turned DEF Has, OneTable
<1>6. CASE /\ ~(IsId(value))
          /\ ~(IsToken(value, {"EOL"}))
  <2>1. Turns(p, q, Me(p).state, FALSE, Tables(p), Flags(p))
    BY <1>1, <1>6 DEF sem_print, IsToken, IsId, Ok, Error
  <2>2. Fits("sem_print", Me(p).state, FALSE, j) /\ ~EndsLine(p, value, j)
    BY <1>1, <1>2, <1>6, Tabled
         DEF ExpectedIn, EndsLine, IsToken, IsId, Fits, PrintRows, PrintPlaces, Names, Statements
  <2> QED BY <1>1, <1>3, <1>6, <2>1, <2>2, Turned DEF Has, OneTable
<1> QED BY <1>4, <1>5, <1>6

LEMMA InputActs ==
    ASSUME NEW p, Ready(p, "sem_input"), NEW value, NEW j, Expected(p, value, j),
           sem_input(p, value).ret = "SUCCESS"
    PROVE  Leaves(p, sem_input(p, value).parser, value, j)
<1> DEFINE q == sem_input(p, value).parser
<1>1. /\ Turns(p, p, Me(p).state, FALSE, Tables(p), Flags(p)) /\ Tables(p) \in Nat
      /\ Me(p).sem_action = "sem_input" /\ Me(p).finished = FALSE /\ Tables(p) >= TablesHeld(Me(p))
      /\ DOMAIN p = Fields /\ Quiet(Me(p).value)
  BY Starts DEF Ready, IsAnalyzer
<1>2. ExpectedIn(p, value, j, InputRows, InputPlaces)
  BY <1>1, ExpectedFrom, Tabled
<1>3. p.step_found = FALSE
  BY <1>1 DEF Expected, Reads, EndsLine, Evaluates, TakesParam
<1>4. CASE IsToken(value, {"IDENTIFIER"})
  <2>1. Turns(p, q, Me(p).state, FALSE, Tables(p), Flags(p))
    BY <1>1, <1>4, ThenEmit DEF sem_input, IsToken, IsId, Ok, Error
  <2>2. Fits("sem_input", Me(p).state, FALSE, j) /\ ~EndsLine(p, value, j)
    BY <1>1, <1>2, <1>4, Tabled
         DEF ExpectedIn, EndsLine, IsToken, IsId, Fits, InputRows, InputPlaces
  <2> QED BY <1>1, <1>3, <1>4, <2>1, <2>2, Turned DEF Has, OneTable
<1>5. CASE IsToken(value, {"EOL"})
  <2>1. Turns(p, q, Me(p).state, TRUE, Tables(p), Flags(p))
    BY <1>1, <1>5, ThenFinish DEF sem_input, IsToken, IsId, Ok, Error
  <2>2. Fits("sem_input", Me(p).state, TRUE, j)
    BY <1>1, <1>2, <1>5, Tabled
         DEF ExpectedIn, EndsLine, IsToken, IsId, Fits, InputRows, InputPlaces
  <2> QED BY <1>1, <1>3, <1>5, <2>1, <2>2, Turned DEF Has, OneTable
<1>6. CASE /\ ~(IsToken(value, {"IDENTIFIER"}))
          /\ ~(IsToken(value, {"EOL"}))
  <2>1. Turns(p, q, Me(p).state, FALSE, Tables(p), Flags(p))
    BY <1>1, <1>6 DEF sem_input, IsToken, IsId, Ok, Error
  <2>2. Fits("sem_input", Me(p).state, FALSE, j) /\ ~EndsLine(p, value, j)
    BY <1>1, <1>2, <1>6, Tabled
         DEF ExpectedIn, EndsLine, IsToken, IsId, Fits, InputRows, InputPlaces, Names, Statements
  <2> QED BY <1>1, <1>3, <1>6, <2>1, <2>2, Turned DEF Has, OneTable
<1> QED BY <1>4, <1>5, <1>6

LEMMA AssignActs ==
    ASSUME NEW p, Ready(p, "sem_expr_assign"), NEW value, NEW j, Expected(p, value, j),
           sem_expr_assign(p, value).ret = "SUCCESS"
    PROVE  Leaves(p, sem_expr_assign(p, value).parser, value, j)
<1> DEFINE q == sem_expr_assign(p, value).parser
<1>1. /\ Turns(p, p, Me(p).state, FALSE, Tables(p), Flags(p)) /\ Tables(p) \in Nat
      /\ Me(p).sem_action = "sem_expr_assign" /\ Me(p).finished = FALSE /\ Tables(p) >= TablesHeld(Me(p))
      /\ DOMAIN p = Fields /\ Quiet(Me(p).value)
  BY Starts DEF Ready, IsAnalyzer
<1>2. ExpectedIn(p, value, j, AssignRows, AssignPlaces)
  BY <1>1, ExpectedFrom, Tabled
<1>3. p.step_found = FALSE
  BY <1>1 DEF Expected, Reads, EndsLine, Evaluates, TakesParam
<1>4. CASE Me(p).state = "START" /\ IsToken(value, {"IDENTIFIER"})
  <2>1. Turns(p, q, "OPERATOR", FALSE, Tables(p), Flags(p))
    BY <1>1, <1>4, ThenHold, ThenBecome, SymbolsAreQuiet
         DEF sem_expr_assign, IsToken, IsId, Ok, Error
  <2>2. Fits("sem_expr_assign", "OPERATOR", FALSE, j) /\ ~EndsLine(p, value, j)
    BY <1>1, <1>2, <1>4, Tabled
         DEF ExpectedIn, EndsLine, IsToken, IsId, Fits, AssignRows, AssignPlaces, AssignOperators
  <2> QED BY <1>1, <1>3, <1>4, <2>1, <2>2, Turned DEF Has, OneTable
<1>5. CASE Me(p).state = "OPERATOR" /\ value.value_type = "TOKEN"
  <2>1. Turns(p, q, "OPERAND", FALSE, Tables(p), Flags(p))
    BY <1>1, <1>5, ThenSetOp, ThenBecome DEF sem_expr_assign, IsToken, IsId, Ok, Error
  <2>2. Fits("sem_expr_assign", "OPERAND", FALSE, j) /\ ~EndsLine(p, value, j)
    BY <1>1, <1>2, <1>5, Tabled
         DEF ExpectedIn, EndsLine, IsToken, IsId, Fits, AssignRows, AssignPlaces, AssignOperators,
             Names
  <2> QED BY <1>1, <1>3, <1>5, <2>1, <2>2, Turned DEF Has, OneTable
<1>6. CASE Me(p).state = "OPERAND" /\ IsId(value)
  <2>1. Turns(p, q, "OPERAND", TRUE, Tables(p), Flags(p))
    BY <1>1, <1>6, ThenEmit, ThenFinish DEF sem_expr_assign, IsToken, IsId, Ok, Error
  <2>2. Fits("sem_expr_assign", "OPERAND", TRUE, j)
    BY <1>1, <1>2, <1>6, Tabled
         DEF ExpectedIn, EndsLine, IsToken, IsId, Fits, AssignRows, AssignPlaces, AssignOperators
  <2> QED BY <1>1, <1>3, <1>6, <2>1, <2>2, Turned DEF Has, OneTable
<1>7. CASE /\ ~(Me(p).state = "START" /\ IsToken(value, {"IDENTIFIER"}))
          /\ ~(Me(p).state = "OPERATOR" /\ value.value_type = "TOKEN")
          /\ ~(Me(p).state = "OPERAND" /\ IsId(value))
  <2>1. Turns(p, q, Me(p).state, FALSE, Tables(p), Flags(p))
    BY <1>1, <1>7 DEF sem_expr_assign, IsToken, IsId, Ok, Error
  <2>2. Fits("sem_expr_assign", Me(p).state, FALSE, j) /\ ~EndsLine(p, value, j)
    BY <1>1, <1>2, <1>7, Tabled
         DEF ExpectedIn, EndsLine, IsToken, IsId, Fits, AssignRows, AssignPlaces, AssignOperators,
             Names, Statements
  <2> QED BY <1>1, <1>3, <1>7, <2>1, <2>2, Turned DEF Has, OneTable
<1> QED BY <1>4, <1>5, <1>6, <1>7

LEMMA ReturnActs ==
    ASSUME NEW p, Ready(p, "sem_return"), NEW value, NEW j, Expected(p, value, j),
           sem_return(p, value).ret = "SUCCESS"
    PROVE  Leaves(p, sem_return(p, value).parser, value, j)
<1> DEFINE q == sem_return(p, value).parser
<1>1. /\ Turns(p, p, Me(p).state, FALSE, Tables(p), Flags(p)) /\ Tables(p) \in Nat
      /\ Me(p).sem_action = "sem_return" /\ Me(p).finished = FALSE /\ Tables(p) >= TablesHeld(Me(p))
      /\ DOMAIN p = Fields /\ Quiet(Me(p).value)
  BY Starts DEF Ready, IsAnalyzer
<1>2. ExpectedIn(p, value, j, ReturnRows, ReturnPlaces)
  BY <1>1, ExpectedFrom, Tabled
<1>3. p.step_found = FALSE
  BY <1>1 DEF Expected, Reads, EndsLine, Evaluates, TakesParam
<1>4. CASE Me(p).state = "START" /\ IsId(value)
  <2>1. Turns(p, q, "START", TRUE, Tables(p), Flags(p))
    BY <1>1, <1>4, ThenEmit, ThenFinish DEF sem_return, IsToken, IsId, Ok, Error
  <2>2. Fits("sem_return", "START", TRUE, j)
    BY <1>1, <1>2, <1>4, Tabled
         DEF ExpectedIn, EndsLine, IsToken, IsId, Fits, ReturnRows, ReturnPlaces
  <2> QED BY <1>1, <1>3, <1>4, <2>1, <2>2, Turned DEF Has, OneTable
<1>5. CASE /\ ~(Me(p).state = "START" /\ IsId(value))
  <2>1. Turns(p, q, Me(p).state, FALSE, Tables(p), Flags(p))
    BY <1>1, <1>5 DEF sem_return, IsToken, IsId, Ok, Error
  <2>2. Fits("sem_return", Me(p).state, FALSE, j) /\ ~EndsLine(p, value, j)
    BY <1>1, <1>2, <1>5, Tabled
         DEF ExpectedIn, EndsLine, IsToken, IsId, Fits, ReturnRows, ReturnPlaces, Names, Statements
  <2> QED BY <1>1, <1>3, <1>5, <2>1, <2>2, Turned DEF Has, OneTable
<1> QED BY <1>4, <1>5

LEMMA ConditionActs ==
    ASSUME NEW p, Ready(p, "sem_condition"), NEW value, NEW j, Expected(p, value, j),
           sem_condition(p, value).ret = "SUCCESS"
    PROVE  Leaves(p, sem_condition(p, value).parser, value, j)
<1> DEFINE q == sem_condition(p, value).parser
<1>1. /\ Turns(p, p, Me(p).state, FALSE, Tables(p), Flags(p)) /\ Tables(p) \in Nat
      /\ Me(p).sem_action = "sem_condition" /\ Me(p).finished = FALSE /\ Tables(p) >= TablesHeld(Me(p))
      /\ DOMAIN p = Fields /\ Quiet(Me(p).value)
  BY Starts DEF Ready, IsAnalyzer
<1>2. ExpectedIn(p, value, j, ConditionRows, ConditionPlaces)
  BY <1>1, ExpectedFrom, Tabled
<1>3. p.step_found = FALSE
  BY <1>1 DEF Expected, Reads, EndsLine, Evaluates, TakesParam
<1>4. CASE Me(p).state = "START" /\ IsId(value)
  <2>1. \A x, y : Quiet([NoValue EXCEPT !.value_type = "IF", !.uid = x, !.else_uid = y])
    BY DEF Quiet, IsValue, NoValue
  <2>2. Turns(p, q, "IF_EOL", FALSE, Tables(p), Flags(p))
    BY <1>1, <1>4, <2>1, ThenTakeUids, ThenHold, ThenEmit, ThenBecome
         DEF sem_condition, IsToken, IsId, Ok, Error, Test
  <2>3. Fits("sem_condition", "IF_EOL", FALSE, j) /\ ~EndsLine(p, value, j)
    BY <1>1, <1>2, <1>4, Tabled
         DEF ExpectedIn, EndsLine, IsToken, IsId, Fits, ConditionRows, ConditionPlaces, Statements
  <2> QED BY <1>1, <1>3, <1>4, <2>2, <2>3, Turned DEF Has, OneTable
<1>5. CASE Me(p).state \in {"IF_EOL", "IF_ELSEIF_EOL"} /\ IsToken(value, {"EOL"})
  <2>1. Turns(p, q, "IF_CONT", FALSE, Tables(p) + 1, Flags(p))
    BY <1>1, <1>5, ThenCreateScope, ThenBecome DEF sem_condition, IsToken, IsId, Ok, Error
  <2>2. Fits("sem_condition", "IF_CONT", FALSE, j) /\ ~EndsLine(p, value, j)
    BY <1>1, <1>2, <1>5, Tabled
         DEF ExpectedIn, EndsLine, IsToken, IsId, Fits, ConditionRows, ConditionPlaces, Statements
  <2> QED BY <1>1, <1>3, <1>5, <2>1, <2>2, Turned DEF Has, OneTable
<1>6. CASE Me(p).state = "IF_CONT" /\ IsToken(value, {"END"})
  <2>1. Tables(p) > 0
    BY <1>1, <1>6 DEF TablesHeld, TablesOf, Has, OneTable
  <2>2. Quiet(NoValue)
    BY DEF Quiet, IsValue, NoValue
  <2>3. Turns(p, q, "IF_CONT", TRUE, Tables(p) - 1, Flags(p))
    BY <1>1, <1>6, <2>1, <2>2, ThenEmit, ThenDeleteScope, ThenHold, ThenFinish
         DEF sem_condition, IsToken, IsId, Ok, Error
  <2>4. Fits("sem_condition", "IF_CONT", TRUE, j)
    BY <1>1, <1>2, <1>6, Tabled
         DEF ExpectedIn, EndsLine, IsToken, IsId, Fits, ConditionRows, ConditionPlaces, Statements
  <2> QED BY <1>1, <1>3, <1>6, <2>3, <2>4, Turned DEF Has, OneTable
<1>7. CASE Me(p).state = "IF_CONT" /\ IsToken(value, {"ELSE"})
  <2>1. Tables(p) > 0
    BY <1>1, <1>7 DEF TablesHeld, TablesOf, Has, OneTable
  <2>2. Turns(p, q, "IF_ELSE", FALSE, Tables(p) - 1 + 1, Flags(p))
    BY <1>1, <1>7, <2>1, ThenEmit, ThenDeleteScope, ThenCreateScope, ThenBecome
       DEF sem_condition, IsToken, IsId, Ok, Error
  <2>3. Tables(p) - 1 + 1 = Tables(p)
    BY <1>1
  <2>4. Fits("sem_condition", "IF_ELSE", FALSE, j) /\ ~EndsLine(p, value, j)
    BY <1>1, <1>2, <1>7, Tabled
       DEF ExpectedIn, EndsLine, IsToken, IsId, Fits, ConditionRows, ConditionPlaces, Statements
  <2> QED BY <1>1, <1>3, <1>7, <2>2, <2>3, <2>4, Turned DEF Has, OneTable
<1>8. CASE Me(p).state = "IF_CONT" /\ IsToken(value, {"ELSEIF"})
  <2>1. Tables(p) > 0
    BY <1>1, <1>8 DEF TablesHeld, TablesOf, Has, OneTable
  <2>2. Turns(p, q, "IF_ELSEIF_COND", FALSE, Tables(p) - 1, Flags(p))
    BY <1>1, <1>8, <2>1, ThenEmit, ThenDeleteScope, ThenBecome
         DEF sem_condition, IsToken, IsId, Ok, Error
  <2>3. Fits("sem_condition", "IF_ELSEIF_COND", FALSE, j) /\ ~EndsLine(p, value, j)
    BY <1>1, <1>2, <1>8, Tabled
         DEF ExpectedIn, EndsLine, IsToken, IsId, Fits, ConditionRows, ConditionPlaces, Statements
  <2> QED BY <1>1, <1>3, <1>8, <2>2, <2>3, Turned DEF Has, OneTable
<1>9. CASE Me(p).state = "IF_ELSEIF_COND" /\ IsId(value)
  <2>1. \A y : Quiet([Me(p).value EXCEPT !.else_uid = y])
    BY <1>1 DEF Quiet, IsValue
  <2>2. Turns(p, q, "IF_ELSEIF_EOL", FALSE, Tables(p), Flags(p))
    BY <1>1, <1>9, <2>1, ThenTakeUids, ThenHold, ThenEmit, ThenBecome
         DEF sem_condition, IsToken, IsId, Ok, Error, Test
  <2>3. Fits("sem_condition", "IF_ELSEIF_EOL", FALSE, j) /\ ~EndsLine(p, value, j)
    BY <1>1, <1>2, <1>9, Tabled
         DEF ExpectedIn, EndsLine, IsToken, IsId, Fits, ConditionRows, ConditionPlaces, Statements
  <2> QED BY <1>1, <1>3, <1>9, <2>2, <2>3, Turned DEF Has, OneTable
<1>10. CASE Me(p).state = "IF_ELSE" /\ IsToken(value, {"END"})
  <2>1. Tables(p) > 0
    BY <1>1, <1>10 DEF TablesHeld, TablesOf, Has, OneTable
  <2>2. Quiet(NoValue)
    BY DEF Quiet, IsValue, NoValue
  <2>3. Turns(p, q, "IF_ELSE", TRUE, Tables(p) - 1, Flags(p))
    BY <1>1, <1>10, <2>1, <2>2, ThenEmit, ThenDeleteScope, ThenHold, ThenFinish
         DEF sem_condition, IsToken, IsId, Ok, Error
  <2>4. Fits("sem_condition", "IF_ELSE", TRUE, j)
    BY <1>1, <1>2, <1>10, Tabled
         DEF ExpectedIn, EndsLine, IsToken, IsId, Fits, ConditionRows, ConditionPlaces, Statements
  <2> QED BY <1>1, <1>3, <1>10, <2>3, <2>4, Turned DEF Has, OneTable
<1>11. CASE /\ ~(Me(p).state = "START" /\ IsId(value))
          /\ ~(Me(p).state \in {"IF_EOL", "IF_ELSEIF_EOL"} /\ IsToken(value, {"EOL"}))
          /\ ~(Me(p).state = "IF_CONT" /\ IsToken(value, {"END"}))
          /\ ~(Me(p).state = "IF_CONT" /\ IsToken(value, {"ELSE"}))
          /\ ~(Me(p).state = "IF_CONT" /\ IsToken(value, {"ELSEIF"}))
          /\ ~(Me(p).state = "IF_ELSEIF_COND" /\ IsId(value))
          /\ ~(Me(p).state = "IF_ELSE" /\ IsToken(value, {"END"}))
  <2>1. Turns(p, q, Me(p).state, FALSE, Tables(p), Flags(p))
    BY <1>1, <1>11 DEF sem_condition, IsToken, IsId, Ok, Error
  <2>2. Fits("sem_condition", Me(p).state, FALSE, j) /\ ~EndsLine(p, value, j)
    BY <1>1, <1>2, <1>11, Tabled
         DEF ExpectedIn, EndsLine, IsToken, IsId, Fits, ConditionRows, ConditionPlaces, Statements,
             Names, Statements
  <2> QED BY <1>1, <1>3, <1>11, <2>1, <2>2, Turned DEF Has, OneTable
<1> QED BY <1>4, <1>5, <1>6, <1>7, <1>8, <1>9, <1>10, <1>11

LEMMA DoActs ==
    ASSUME NEW p, Ready(p, "sem_do_loop"), NEW value, NEW j, Expected(p, value, j),
           sem_do_loop(p, value).ret = "SUCCESS"
    PROVE  Leaves(p, sem_do_loop(p, value).parser, value, j)
<1> DEFINE q == sem_do_loop(p, value).parser
<1>1. /\ Turns(p, p, Me(p).state, FALSE, Tables(p), Flags(p)) /\ Tables(p) \in Nat
      /\ Me(p).sem_action = "sem_do_loop" /\ Me(p).finished = FALSE /\ Tables(p) >= TablesHeld(Me(p))
      /\ DOMAIN p = Fields /\ Quiet(Me(p).value)
  BY Starts DEF Ready, IsAnalyzer
<1>2. ExpectedIn(p, value, j, DoRows, DoPlaces)
  BY <1>1, ExpectedFrom, Tabled
<1>3. p.step_found = FALSE
  BY <1>1 DEF Expected, Reads, EndsLine, Evaluates, TakesParam
<1>4. CASE Me(p).state = "START" /\ IsToken(value, {"DO"})
  <2>1. \A x : Quiet([NoValue EXCEPT !.value_type = "TOKEN", !.token = "IDENTIFIER", !.uid = x])
    BY DEF Quiet, IsValue, NoValue
  <2>2. Turns(p, q, "DO_TEST_TYPE", FALSE, Tables(p) + 1, Flags(p))
    BY <1>1, <1>4, <2>1, ThenCreateScope, ThenTakeUids, ThenHold, ThenEmit, ThenBecome
         DEF sem_do_loop, IsToken, IsId, Ok, Error
  <2>3. Fits("sem_do_loop", "DO_TEST_TYPE", FALSE, j) /\ ~EndsLine(p, value, j)
    BY <1>1, <1>2, <1>4, Tabled
         DEF ExpectedIn, EndsLine, IsToken, IsId, Fits, DoRows, DoPlaces, Statements
  <2> QED BY <1>1, <1>3, <1>4, <2>2, <2>3, Turned DEF Has, OneTable
<1>5. CASE Me(p).state = "DO_TEST_TYPE" /\ IsToken(value, {"WHILE", "UNTIL"})
  <2>1. Turns(p, q, TestAtStart(value.token), FALSE, Tables(p), Flags(p))
    BY <1>1, <1>5, ThenEmit, ThenBecome DEF sem_do_loop, IsToken, IsId, Ok, Error
  <2>2. Fits("sem_do_loop", TestAtStart(value.token), FALSE, j) /\ ~EndsLine(p, value, j)
    BY <1>1, <1>2, <1>5, Tabled
         DEF ExpectedIn, EndsLine, IsToken, IsId, Fits, DoRows, DoPlaces, Statements, TestAtStart
  <2> QED BY <1>1, <1>3, <1>5, <2>1, <2>2, Turned DEF Has, OneTable, TestAtStart
<1>6. CASE Me(p).state = "DO_TEST_TYPE" /\ ~IsToken(value, {"WHILE", "UNTIL"})
  <2>1. Turns(p, q, "DO_LOOP_TEST_END", FALSE, Tables(p), Flags(p))
    BY <1>1, <1>6, ThenBecome DEF sem_do_loop, IsToken, IsId, Ok, Error
  <2>2. Fits("sem_do_loop", "DO_LOOP_TEST_END", FALSE, j) /\ ~EndsLine(p, value, j)
    BY <1>1, <1>2, <1>6, Tabled
         DEF ExpectedIn, EndsLine, IsToken, IsId, Fits, DoRows, DoPlaces, Statements, Names
  <2> QED BY <1>1, <1>3, <1>6, <2>1, <2>2, Turned DEF Has, OneTable
<1>7. CASE Me(p).state \in {"DO_WHILE", "DO_UNTIL"} /\ IsId(value)
  <2>1. Turns(p, q, "DO_LOOP_TEST_START", FALSE, Tables(p), Flags(p))
    BY <1>1, <1>7, ThenEmit, ThenBecome DEF sem_do_loop, IsToken, IsId, Ok, Error
  <2>2. Fits("sem_do_loop", "DO_LOOP_TEST_START", FALSE, j) /\ ~EndsLine(p, value, j)
    BY <1>1, <1>2, <1>7, Tabled
         DEF ExpectedIn, EndsLine, IsToken, IsId, Fits, DoRows, DoPlaces, Statements
  <2> QED BY <1>1, <1>3, <1>7, <2>1, <2>2, Turned DEF Has, OneTable
<1>8. CASE Me(p).state = "DO_LOOP_TEST_START" /\ IsToken(value, {"LOOP"})
  <2>1. Tables(p) > 0
    BY <1>1, <1>8 DEF TablesHeld, TablesOf, Has, OneTable
  <2>2. Turns(p, q, "DO_LOOP_TEST_START", TRUE, Tables(p) - 1, Flags(p))
    BY <1>1, <1>8, <2>1, ThenEmit, ThenDeleteScope, ThenFinish
         DEF sem_do_loop, IsToken, IsId, Ok, Error
  <2>3. Fits("sem_do_loop", "DO_LOOP_TEST_START", TRUE, j)
    BY <1>1, <1>2, <1>8, Tabled
         DEF ExpectedIn, EndsLine, IsToken, IsId, Fits, DoRows, DoPlaces, Statements
  <2> QED BY <1>1, <1>3, <1>8, <2>2, <2>3, Turned DEF Has, OneTable
<1>9. CASE Me(p).state = "DO_LOOP_TEST_END" /\ IsToken(value, {"LOOP"})
  <2>1. Tables(p) > 0
    BY <1>1, <1>9 DEF TablesHeld, TablesOf, Has, OneTable
  <2>2. Turns(p, q, "DO_TEST_TYPE_END", FALSE, Tables(p) - 1, Flags(p))
    BY <1>1, <1>9, <2>1, ThenDeleteScope, ThenBecome DEF sem_do_loop, IsToken, IsId, Ok, Error
  <2>3. Fits("sem_do_loop", "DO_TEST_TYPE_END", FALSE, j) /\ ~EndsLine(p, value, j)
    BY <1>1, <1>2, <1>9, Tabled
         DEF ExpectedIn, EndsLine, IsToken, IsId, Fits, DoRows, DoPlaces, Statements
  <2> QED BY <1>1, <1>3, <1>9, <2>2, <2>3, Turned DEF Has, OneTable
<1>10. CASE Me(p).state = "DO_TEST_TYPE_END" /\ IsToken(value, {"WHILE", "UNTIL"})
  <2>1. Turns(p, q, TestAtEnd(value.token), FALSE, Tables(p), Flags(p))
    BY <1>1, <1>10, ThenEmit, ThenBecome DEF sem_do_loop, IsToken, IsId, Ok, Error
  <2>2. Fits("sem_do_loop", TestAtEnd(value.token), FALSE, j) /\ ~EndsLine(p, value, j)
    BY <1>1, <1>2, <1>10, Tabled
         DEF ExpectedIn, EndsLine, IsToken, IsId, Fits, DoRows, DoPlaces, Statements, TestAtEnd
  <2> QED BY <1>1, <1>3, <1>10, <2>1, <2>2, Turned DEF Has, OneTable, TestAtEnd
<1>11. CASE Me(p).state = "DO_TEST_TYPE_END" /\ ~IsToken(value, {"WHILE", "UNTIL"})
  <2>1. Turns(p, q, "DO_TEST_TYPE_END", TRUE, Tables(p), Flags(p))
    BY <1>1, <1>11, ThenEmit, ThenFinish DEF sem_do_loop, IsToken, IsId, Ok, Error
  <2>2. Fits("sem_do_loop", "DO_TEST_TYPE_END", TRUE, j)
    BY <1>1, <1>2, <1>11, Tabled
         DEF ExpectedIn, EndsLine, IsToken, IsId, Fits, DoRows, DoPlaces, Statements, Names
  <2> QED BY <1>1, <1>3, <1>11, <2>1, <2>2, Turned DEF Has, OneTable
<1>12. CASE Me(p).state \in {"DO_WHILE_END", "DO_UNTIL_END"} /\ IsId(value)
  <2>1. Turns(p, q, Me(p).state, TRUE, Tables(p), Flags(p))
    BY <1>1, <1>12, ThenEmit, ThenFinish DEF sem_do_loop, IsToken, IsId, Ok, Error
  <2>2. Fits("sem_do_loop", Me(p).state, TRUE, j)
    BY <1>1, <1>2, <1>12, Tabled
         DEF ExpectedIn, EndsLine, IsToken, IsId, Fits, DoRows, DoPlaces, Statements
  <2> QED BY <1>1, <1>3, <1>12, <2>1, <2>2, Turned DEF Has, OneTable
<1>13. CASE /\ ~(Me(p).state = "START" /\ IsToken(value, {"DO"}))
          /\ ~(Me(p).state = "DO_TEST_TYPE" /\ IsToken(value, {"WHILE", "UNTIL"}))
          /\ ~(Me(p).state = "DO_TEST_TYPE" /\ ~IsToken(value, {"WHILE", "UNTIL"}))
          /\ ~(Me(p).state \in {"DO_WHILE", "DO_UNTIL"} /\ IsId(value))
          /\ ~(Me(p).state = "DO_LOOP_TEST_START" /\ IsToken(value, {"LOOP"}))
          /\ ~(Me(p).state = "DO_LOOP_TEST_END" /\ IsToken(value, {"LOOP"}))
          /\ ~(Me(p).state = "DO_TEST_TYPE_END" /\ IsToken(value, {"WHILE", "UNTIL"}))
          /\ ~(Me(p).state = "DO_TEST_TYPE_END" /\ ~IsToken(value, {"WHILE", "UNTIL"}))
          /\ ~(Me(p).state \in {"DO_WHILE_END", "DO_UNTIL_END"} /\ IsId(value))
  <2>1. Turns(p, q, Me(p).state, FALSE, Tables(p), Flags(p))
    BY <1>1, <1>13 DEF sem_do_loop, IsToken, IsId, Ok, Error
  <2>2. Fits("sem_do_loop", Me(p).state, FALSE, j) /\ ~EndsLine(p, value, j)
    BY <1>1, <1>2, <1>13, Tabled
         DEF ExpectedIn, EndsLine, IsToken, IsId, Fits, DoRows, DoPlaces, Statements, Names,
             Statements
  <2> QED BY <1>1, <1>3, <1>13, <2>1, <2>2, Turned DEF Has, OneTable
<1> QED BY <1>4, <1>5, <1>6, <1>7, <1>8, <1>9, <1>10, <1>11, <1>12, <1>13

LEMMA ParamActs ==
    ASSUME NEW p, Ready(p, "sem_param_decl"), NEW value, NEW j, Expected(p, value, j),
           sem_param_decl(p, value).ret = "SUCCESS"
    PROVE  Leaves(p, sem_param_decl(p, value).parser, value, j)
<1> DEFINE q == sem_param_decl(p, value).parser
<1>1. /\ Turns(p, p, Me(p).state, FALSE, Tables(p), Flags(p)) /\ Tables(p) \in Nat
      /\ Me(p).sem_action = "sem_param_decl" /\ Me(p).finished = FALSE /\ Tables(p) >= TablesHeld(Me(p))
      /\ DOMAIN p = Fields /\ Quiet(Me(p).value)
  BY Starts DEF Ready, IsAnalyzer
<1>2. ExpectedIn(p, value, j, ParamRows, ParamPlaces)
  BY <1>1, ExpectedFrom, Tabled
<1>3. p.step_found = FALSE
  BY <1>1 DEF Expected, Reads, EndsLine, Evaluates, TakesParam
<1>4. CASE Me(p).state = "START" /\ IsToken(value, {"IDENTIFIER"})
  <2>1. Quiet(value)
    BY <1>2, <1>4 DEF ExpectedIn, IsToken, Quiet
  <2>2. Turns(p, q, "VAR_TYPE", FALSE, Tables(p), Flags(p))
    BY <1>1, <1>4, <2>1, ThenSetCurrent, ThenHold, ThenBecome
         DEF sem_param_decl, IsToken, IsId, Ok, Error
  <2>3. Fits("sem_param_decl", "VAR_TYPE", FALSE, j) /\ ~EndsLine(p, value, j)
    BY <1>1, <1>2, <1>4, Tabled
         DEF ExpectedIn, EndsLine, IsToken, IsId, Fits, ParamRows, ParamPlaces, TypeSymbols, Types,
             Quiet
  <2> QED BY <1>1, <1>3, <1>4, <2>2, <2>3, Turned DEF Has, OneTable
<1>5. CASE Me(p).state = "VAR_TYPE" /\ IsToken(value, Types)
  <2>1. \A key, type : Quiet(IdValue(key, type))
    BY DEF Quiet, IsValue, IdValue, NoValue
  <2>2. Turns(p, q, "VAR_TYPE", TRUE, Tables(p), Flags(p))
    BY <1>1, <1>5, <2>1, ThenSetCurrent, ThenHold, ThenFinish
         DEF sem_param_decl, IsToken, IsId, Ok, Error
  <2>3. Fits("sem_param_decl", "VAR_TYPE", TRUE, j)
    BY <1>1, <1>2, <1>5, Tabled
         DEF ExpectedIn, EndsLine, IsToken, IsId, Fits, ParamRows, ParamPlaces, TypeSymbols, Types,
             Quiet
  <2> QED BY <1>1, <1>3, <1>5, <2>2, <2>3, Turned DEF Has, OneTable
<1>6. CASE /\ ~(Me(p).state = "START" /\ IsToken(value, {"IDENTIFIER"}))
          /\ ~(Me(p).state = "VAR_TYPE" /\ IsToken(value, Types))
  <2>1. Turns(p, q, Me(p).state, FALSE, Tables(p), Flags(p))
    BY <1>1, <1>6 DEF sem_param_decl, IsToken, IsId, Ok, Error
  <2>2. Fits("sem_param_decl", Me(p).state, FALSE, j) /\ ~EndsLine(p, value, j)
    BY <1>1, <1>2, <1>6, Tabled
         DEF ExpectedIn, EndsLine, IsToken, IsId, Fits, ParamRows, ParamPlaces, TypeSymbols, Types,
             Quiet, Names, Statements
  <2> QED BY <1>1, <1>3, <1>6, <2>1, <2>2, Turned DEF Has, OneTable
<1> QED BY <1>4, <1>5, <1>6

LEMMA DeclActs ==
    ASSUME NEW p, Ready(p, "sem_func_decl"), NEW value, NEW j, Expected(p, value, j),
           sem_func_decl(p, value).ret = "SUCCESS"
    PROVE  Leaves(p, sem_func_decl(p, value).parser, value, j)
<1> DEFINE q == sem_func_decl(p, value).parser
<1>1. /\ Turns(p, p, Me(p).state, FALSE, Tables(p), Flags(p)) /\ Tables(p) \in Nat
      /\ Me(p).sem_action = "sem_func_decl" /\ Me(p).finished = FALSE /\ Tables(p) >= TablesHeld(Me(p))
      /\ DOMAIN p = Fields /\ Quiet(Me(p).value)
  BY Starts DEF Ready, IsAnalyzer
<1>2. ExpectedIn(p, value, j, DeclRows, DeclPlaces)
  BY <1>1, ExpectedFrom, Tabled
<1>3. p.step_found = FALSE
  BY <1>1 DEF Expected, Reads, EndsLine, Evaluates, TakesParam
<1>4. CASE Me(p).state = "START" /\ IsToken(value, {"IDENTIFIER"})
  <2>1. Quiet(value)
    BY <1>2, <1>4 DEF ExpectedIn, IsToken, Quiet
  <2>2. Turns(p, q, "VAR_TYPE", FALSE, Tables(p) + 1, Flags(p))
    BY <1>1, <1>4, <2>1, ThenHold, ThenInsertFunction, ThenCreateScope, ThenBecome
         DEF sem_func_decl, IsToken, IsId, Ok, Error
  <2>3. Fits("sem_func_decl", "VAR_TYPE", FALSE, j) /\ ~EndsLine(p, value, j)
    BY <1>1, <1>2, <1>4, Tabled
         DEF ExpectedIn, EndsLine, IsToken, IsId, Fits, DeclRows, DeclPlaces, TypeSymbols, Types,
             Quiet
  <2> QED BY <1>1, <1>3, <1>4, <2>2, <2>3, Turned DEF Has, OneTable
<1>5. CASE Me(p).state = "VAR_TYPE" /\ IsId(value)
  <2>1. Turns(p, q, "VAR_TYPE", FALSE, Tables(p), Flags(p))
    BY <1>1, <1>5, ThenAddParam DEF sem_func_decl, IsToken, IsId, Ok, Error
  <2>2. Fits("sem_func_decl", "VAR_TYPE", FALSE, j) /\ ~EndsLine(p, value, j)
    BY <1>1, <1>2, <1>5, Tabled
         DEF ExpectedIn, EndsLine, IsToken, IsId, Fits, DeclRows, DeclPlaces, TypeSymbols, Types,
             Quiet
  <2> QED BY <1>1, <1>3, <1>5, <2>1, <2>2, Turned DEF Has, OneTable
<1>6. CASE Me(p).state = "VAR_TYPE" /\ IsToken(value, {"RPAR"})
  <2>1. Turns(p, q, "FUNC_RETURN_TYPE", FALSE, Tables(p), Flags(p))
    BY <1>1, <1>6, ThenBecome DEF sem_func_decl, IsToken, IsId, Ok, Error
  <2>2. Fits("sem_func_decl", "FUNC_RETURN_TYPE", FALSE, j) /\ ~EndsLine(p, value, j)
    BY <1>1, <1>2, <1>6, Tabled
         DEF ExpectedIn, EndsLine, IsToken, IsId, Fits, DeclRows, DeclPlaces, TypeSymbols, Types,
             Quiet
  <2> QED BY <1>1, <1>3, <1>6, <2>1, <2>2, Turned DEF Has, OneTable
<1>7. CASE Me(p).state = "FUNC_RETURN_TYPE" /\ IsToken(value, Types)
  <2>1. Turns(p, q, "EOL", FALSE, Tables(p), Flags(p))
    BY <1>1, <1>7, ThenSetRetType, ThenBecome DEF sem_func_decl, IsToken, IsId, Ok, Error
  <2>2. Fits("sem_func_decl", "EOL", FALSE, j) /\ ~EndsLine(p, value, j)
    BY <1>1, <1>2, <1>7, Tabled
         DEF ExpectedIn, EndsLine, IsToken, IsId, Fits, DeclRows, DeclPlaces, TypeSymbols, Types,
             Quiet
  <2> QED BY <1>1, <1>3, <1>7, <2>1, <2>2, Turned DEF Has, OneTable
<1>8. CASE Me(p).state = "EOL" /\ IsToken(value, {"EOL"})
  <2>1. Tables(p) > 0
    BY <1>1, <1>8 DEF TablesHeld, TablesOf, Has, OneTable
  <2>2. Turns(p, q, "EOL", TRUE, Tables(p) - 1, Flags(p))
    BY <1>1, <1>8, <2>1, ThenDeleteScope, ThenFinish DEF sem_func_decl, IsToken, IsId, Ok, Error
  <2>3. Fits("sem_func_decl", "EOL", TRUE, j)
    BY <1>1, <1>2, <1>8, Tabled
         DEF ExpectedIn, EndsLine, IsToken, IsId, Fits, DeclRows, DeclPlaces, TypeSymbols, Types,
             Quiet
  <2> QED BY <1>1, <1>3, <1>8, <2>2, <2>3, Turned DEF Has, OneTable
<1>9. CASE /\ ~(Me(p).state = "START" /\ IsToken(value, {"IDENTIFIER"}))
          /\ ~(Me(p).state = "VAR_TYPE" /\ IsId(value))
          /\ ~(Me(p).state = "VAR_TYPE" /\ IsToken(value, {"RPAR"}))
          /\ ~(Me(p).state = "FUNC_RETURN_TYPE" /\ IsToken(value, Types))
          /\ ~(Me(p).state = "EOL" /\ IsToken(value, {"EOL"}))
  <2>1. Turns(p, q, Me(p).state, FALSE, Tables(p), Flags(p))
    BY <1>1, <1>9 DEF sem_func_decl, IsToken, IsId, Ok, Error
  <2>2. Fits("sem_func_decl", Me(p).state, FALSE, j) /\ ~EndsLine(p, value, j)
    BY <1>1, <1>2, <1>9, Tabled
         DEF ExpectedIn, EndsLine, IsToken, IsId, Fits, DeclRows, DeclPlaces, TypeSymbols, Types,
             Quiet, Names, Statements
  <2> QED BY <1>1, <1>3, <1>9, <2>1, <2>2, Turned DEF Has, OneTable
<1> QED BY <1>4, <1>5, <1>6, <1>7, <1>8, <1>9

LEMMA DefActs ==
    ASSUME NEW p, Ready(p, "sem_func_def"), NEW value, NEW j, Expected(p, value, j),
           sem_func_def(p, value).ret = "SUCCESS"
    PROVE  Leaves(p, sem_func_def(p, value).parser, value, j)
<1> DEFINE q == sem_func_def(p, value).parser
<1>1. /\ Turns(p, p, Me(p).state, FALSE, Tables(p), Flags(p)) /\ Tables(p) \in Nat
      /\ Me(p).sem_action = "sem_func_def" /\ Me(p).finished = FALSE /\ Tables(p) >= TablesHeld(Me(p))
      /\ DOMAIN p = Fields /\ Quiet(Me(p).value)
  BY Starts DEF Ready, IsAnalyzer
<1>2. ExpectedIn(p, value, j, DefRows, DefPlaces)
  BY <1>1, ExpectedFrom, Tabled
<1>3. p.step_found = FALSE
  BY <1>1 DEF Expected, Reads, EndsLine, Evaluates, TakesParam
<1>4. CASE Me(p).state = "START" /\ IsToken(value, {"IDENTIFIER"}) /\ value.key \in DOMAIN p.sym_tab_functions
  <2>1. \A key, type : Quiet(IdValue(key, type))
    BY DEF Quiet, IsValue, IdValue, NoValue
  <2>2. Turns(p, q, "DECLARED_VAR_TYPE", FALSE, Tables(p) + 1, Flags(p))
    BY <1>1, <1>4, <2>1, ThenHold, ThenCreateScope, ThenEmitTo, ThenBecome
         DEF sem_func_def, IsToken, IsId, Ok, Error, StartFunction
  <2>3. Fits("sem_func_def", "DECLARED_VAR_TYPE", FALSE, j) /\ ~EndsLine(p, value, j)
    BY <1>1, <1>2, <1>4, Tabled
         DEF ExpectedIn, EndsLine, IsToken, IsId, Fits, DefRows, DefPlaces, TypeSymbols, Types,
             Statements, Quiet
  <2> QED BY <1>1, <1>3, <1>4, <2>2, <2>3, Turned DEF Has, OneTable
<1>5. CASE Me(p).state = "START" /\ IsToken(value, {"IDENTIFIER"}) /\ value.key \notin DOMAIN p.sym_tab_functions
  <2>1. \A key, type : Quiet(IdValue(key, type))
    BY DEF Quiet, IsValue, IdValue, NoValue
  <2>2. Turns(p, q, "VAR_TYPE", FALSE, Tables(p) + 1, Flags(p))
    BY <1>1, <1>5, <2>1, ThenInsertFunction, ThenHold, ThenCreateScope, ThenEmitTo, ThenBecome
         DEF sem_func_def, IsToken, IsId, Ok, Error, StartFunction
  <2>3. Fits("sem_func_def", "VAR_TYPE", FALSE, j) /\ ~EndsLine(p, value, j)
    BY <1>1, <1>2, <1>5, Tabled
         DEF ExpectedIn, EndsLine, IsToken, IsId, Fits, DefRows, DefPlaces, TypeSymbols, Types,
             Statements, Quiet
  <2> QED BY <1>1, <1>3, <1>5, <2>2, <2>3, Turned DEF Has, OneTable
<1>6. CASE Me(p).state = "DECLARED_VAR_TYPE" /\ IsId(value)
  <2>1. Turns(p, q, "DECLARED_VAR_TYPE", FALSE, Tables(p), Flags(p))
    BY <1>1, <1>6, ThenStoreParamName DEF sem_func_def, IsToken, IsId, Ok, Error
  <2>2. Fits("sem_func_def", "DECLARED_VAR_TYPE", FALSE, j) /\ ~EndsLine(p, value, j)
    BY <1>1, <1>2, <1>6, Tabled
         DEF ExpectedIn, EndsLine, IsToken, IsId, Fits, DefRows, DefPlaces, TypeSymbols, Types,
             Statements, Quiet
  <2> QED BY <1>1, <1>3, <1>6, <2>1, <2>2, Turned DEF Has, OneTable
<1>7. CASE Me(p).state = "DECLARED_VAR_TYPE" /\ IsToken(value, {"RPAR"})
  <2>1. Turns(p, q, "DECLARED_RETURN_TYPE", FALSE, Tables(p), Flags(p))
    BY <1>1, <1>7, ThenEmitTo, ThenTakeUids, ThenBecome
         DEF sem_func_def, IsToken, IsId, Ok, Error, PopParams
  <2>2. Fits("sem_func_def", "DECLARED_RETURN_TYPE", FALSE, j) /\ ~EndsLine(p, value, j)
    BY <1>1, <1>2, <1>7, Tabled
         DEF ExpectedIn, EndsLine, IsToken, IsId, Fits, DefRows, DefPlaces, TypeSymbols, Types,
             Statements, Quiet
  <2> QED BY <1>1, <1>3, <1>7, <2>1, <2>2, Turned DEF Has, OneTable
<1>8. CASE Me(p).state = "VAR_TYPE" /\ IsId(value)
  <2>1. Turns(p, q, "VAR_TYPE", FALSE, Tables(p), Flags(p))
    BY <1>1, <1>8, ThenStoreParamName, ThenAddParam DEF sem_func_def, IsToken, IsId, Ok, Error
  <2>2. Fits("sem_func_def", "VAR_TYPE", FALSE, j) /\ ~EndsLine(p, value, j)
    BY <1>1, <1>2, <1>8, Tabled
         DEF ExpectedIn, EndsLine, IsToken, IsId, Fits, DefRows, DefPlaces, TypeSymbols, Types,
             Statements, Quiet
  <2> QED BY <1>1, <1>3, <1>8, <2>1, <2>2, Turned DEF Has, OneTable
<1>9. CASE Me(p).state = "VAR_TYPE" /\ IsToken(value, {"RPAR"})
  <2>1. Turns(p, q, "FUNC_RETURN_TYPE", FALSE, Tables(p), Flags(p))
    BY <1>1, <1>9, ThenEmitTo, ThenTakeUids, ThenBecome
         DEF sem_func_def, IsToken, IsId, Ok, Error, PopParams
  <2>2. Fits("sem_func_def", "FUNC_RETURN_TYPE", FALSE, j) /\ ~EndsLine(p, value, j)
    BY <1>1, <1>2, <1>9, Tabled
         DEF ExpectedIn, EndsLine, IsToken, IsId, Fits, DefRows, DefPlaces, TypeSymbols, Types,
             Statements, Quiet
  <2> QED BY <1>1, <1>3, <1>9, <2>1, <2>2, Turned DEF Has, OneTable
<1>10. CASE Me(p).state = "DECLARED_RETURN_TYPE" /\ IsToken(value, Types)
  <2>1. Turns(p, q, "FUNC_END", FALSE, Tables(p), Flags(p))
    BY <1>1, <1>10, ThenSetDefined, ThenBecome DEF sem_func_def, IsToken, IsId, Ok, Error
  <2>2. Fits("sem_func_def", "FUNC_END", FALSE, j) /\ ~EndsLine(p, value, j)
    BY <1>1, <1>2, <1>10, Tabled
         DEF ExpectedIn, EndsLine, IsToken, IsId, Fits, DefRows, DefPlaces, TypeSymbols, Types,
             Statements, Quiet
  <2> QED BY <1>1, <1>3, <1>10, <2>1, <2>2, Turned DEF Has, OneTable
<1>11. CASE Me(p).state = "FUNC_RETURN_TYPE" /\ IsToken(value, Types)
  <2>1. Turns(p, q, "FUNC_END", FALSE, Tables(p), Flags(p))
    BY <1>1, <1>11, ThenSetRetType, ThenSetDefined, ThenBecome
         DEF sem_func_def, IsToken, IsId, Ok, Error
  <2>2. Fits("sem_func_def", "FUNC_END", FALSE, j) /\ ~EndsLine(p, value, j)
    BY <1>1, <1>2, <1>11, Tabled
         DEF ExpectedIn, EndsLine, IsToken, IsId, Fits, DefRows, DefPlaces, TypeSymbols, Types,
             Statements, Quiet
  <2> QED BY <1>1, <1>3, <1>11, <2>1, <2>2, Turned DEF Has, OneTable
<1>12. CASE Me(p).state = "FUNC_END" /\ IsToken(value, {"FUNCTION"})
  <2>1. Tables(p) > 0
    BY <1>1, <1>12 DEF TablesHeld, TablesOf, Has, OneTable
  <2>2. Turns(p, q, "FUNC_END", TRUE, Tables(p) - 1, Flags(p))
    BY <1>1, <1>12, <2>1, ThenDeleteScope, ThenEmitTo, ThenFinish
         DEF sem_func_def, IsToken, IsId, Ok, Error, EndFunction
  <2>3. Fits("sem_func_def", "FUNC_END", TRUE, j)
    BY <1>1, <1>2, <1>12, Tabled
         DEF ExpectedIn, EndsLine, IsToken, IsId, Fits, DefRows, DefPlaces, TypeSymbols, Types,
             Statements, Quiet
  <2> QED BY <1>1, <1>3, <1>12, <2>2, <2>3, Turned DEF Has, OneTable
<1>13. CASE /\ ~(Me(p).state = "START" /\ IsToken(value, {"IDENTIFIER"}) /\ value.key \in DOMAIN p.sym_tab_functions)
          /\ ~(Me(p).state = "START" /\ IsToken(value, {"IDENTIFIER"}) /\ value.key \notin DOMAIN p.sym_tab_functions)
          /\ ~(Me(p).state = "DECLARED_VAR_TYPE" /\ IsId(value))
          /\ ~(Me(p).state = "DECLARED_VAR_TYPE" /\ IsToken(value, {"RPAR"}))
          /\ ~(Me(p).state = "VAR_TYPE" /\ IsId(value))
          /\ ~(Me(p).state = "VAR_TYPE" /\ IsToken(value, {"RPAR"}))
          /\ ~(Me(p).state = "DECLARED_RETURN_TYPE" /\ IsToken(value, Types))
          /\ ~(Me(p).state = "FUNC_RETURN_TYPE" /\ IsToken(value, Types))
          /\ ~(Me(p).state = "FUNC_END" /\ IsToken(value, {"FUNCTION"}))
  <2>1. Turns(p, q, Me(p).state, FALSE, Tables(p), Flags(p))
    BY <1>1, <1>13 DEF sem_func_def, IsToken, IsId, Ok, Error
  <2>2. Fits("sem_func_def", Me(p).state, FALSE, j) /\ ~EndsLine(p, value, j)
    BY <1>1, <1>2, <1>13, Tabled
         DEF ExpectedIn, EndsLine, IsToken, IsId, Fits, DefRows, DefPlaces, TypeSymbols, Types,
             Statements, Quiet, Names, Statements
  <2> QED BY <1>1, <1>3, <1>13, <2>1, <2>2, Turned DEF Has, OneTable
<1> QED BY <1>4, <1>5, <1>6, <1>7, <1>8, <1>9, <1>10, <1>11, <1>12, <1>13

LEMMA JumpActs ==
    ASSUME NEW p, NEW action, Ready(p, action), NEW start, NEW label,
           <<action, start>> \in {<<"sem_exit", "EXIT">>, <<"sem_continue", "CONTINUE">>},
           NEW value, NEW j, Expected(p, value, j), Jump(p, value, start, label).ret = "SUCCESS"
    PROVE  Leaves(p, Jump(p, value, start, label).parser, value, j)
<1> DEFINE q == Jump(p, value, start, label).parser
<1>1. /\ Turns(p, p, Me(p).state, FALSE, Tables(p), Flags(p)) /\ Tables(p) \in Nat
      /\ Me(p).sem_action = action /\ Me(p).finished = FALSE
      /\ DOMAIN p = Fields /\ Quiet(Me(p).value) /\ FlagsFit(p)
  BY Starts DEF Ready, IsAnalyzer
<1>2. ExpectedIn(p, value, j, JumpRows, JumpPlaces(start))
  BY <1>1, ExpectedFrom, Tabled
<1>3. p.step_found = FALSE
  BY <1>1 DEF Expected, Reads, EndsLine, Evaluates, TakesParam
<1>4. CASE Me(p).state = "START" /\ IsToken(value, {start})
  <2> DEFINE r == [p EXCEPT !.active = 1]
             held == [NoValue EXCEPT !.value_type = "TOKEN", !.token = "uninitialised"]
  <2>1. Quiet(held)
    BY DEF Quiet, IsValue, NoValue
  <2>2. q = Become(Hold(r, held), "NEXT_LOOP_TYPE")
    BY <1>4 DEF Jump, IsToken, Ok
  <2>3. Turns(p, r, "START", FALSE, Tables(p), Flags(p))
    BY <1>1, <1>4, ThenSetActive
  <2> HIDE DEF r, held, q
  <2>4. Turns(p, q, "NEXT_LOOP_TYPE", FALSE, Tables(p), Flags(p))
    BY <2>1, <2>2, <2>3, ThenHold, ThenBecome
  <2>5. Fits(action, "NEXT_LOOP_TYPE", FALSE, j) /\ ~EndsLine(p, value, j)
    BY <1>1, <1>2, <1>4, Tabled DEF ExpectedIn, EndsLine, IsToken, Fits, JumpRows, JumpPlaces
  <2>6. FlagsFit(q) /\ q.step_found = FALSE
    BY <1>1, <1>3, <1>4, <2>4 DEF FlagsFit, Flags, Turns
  <2> QED BY <1>1, <2>4, <2>5, <2>6, TurnedWith DEF Has, OneTable, q
<1>5. CASE Me(p).state = "NEXT_LOOP_TYPE" /\ IsToken(value, {"DO", "FOR"})
  <2> DEFINE found == sem_action_search_next(p, IF value.token = "DO" THEN "sem_do_loop" ELSE "sem_for_loop")
             k == Topmost(found)
             r == [p EXCEPT !.last_loop_type = value.token,
                            !.active = IF k < Len(p.sem_an_stack) THEN k + 1 ELSE 0]
             held == [Me(p).value EXCEPT !.uid = p.sem_an_stack[k].value.uid]
  <2>1. Quiet(held)
    BY <1>1 DEF Quiet, IsValue
  <2>2. q = Hold(r, held)
    BY <1>5 DEF Jump, IsToken, Ok, Error
  <2>3. /\ DOMAIN r = Fields /\ r.sem_an_stack = p.sem_an_stack /\ r.sym_tab_stack = p.sym_tab_stack
        /\ Flags(r) = <<p.static_var_decl, p.il_override, value.token, p.step_found>>
    BY <1>1 DEF Fields, Flags
  <2> HIDE DEF r, held, q
  <2>4. Turns(p, q, "NEXT_LOOP_TYPE", FALSE, Tables(p), Flags(r))
    BY <1>1, <1>5, <2>1, <2>2, <2>3, ThenFlags, ThenHold
  <2>5. Fits(action, "NEXT_LOOP_TYPE", FALSE, j) /\ ~EndsLine(p, value, j)
    BY <1>1, <1>2, <1>5, Tabled DEF ExpectedIn, EndsLine, IsToken, Fits, JumpRows, JumpPlaces
  <2>6. FlagsFit(q) /\ q.step_found = FALSE
    BY <1>1, <1>3, <2>3, <2>4 DEF FlagsFit, Flags, Turns
  <2> QED BY <1>1, <1>5, <2>4, <2>5, <2>6, TurnedWith DEF Has, OneTable, q
<1>6. CASE Me(p).state = "NEXT_LOOP_TYPE" /\ IsToken(value, {"EOL"})
  <2> DEFINE r == [p EXCEPT !.active = 0, !.last_loop_type = "none"]
             code == <<On("JUMP", label, Me(p).value.uid)>>
  <2>1. q = Finish(Emit(r, code))
    BY <1>6 DEF Jump, IsToken, Ok
  <2>2. /\ DOMAIN r = Fields /\ r.sem_an_stack = p.sem_an_stack /\ r.sym_tab_stack = p.sym_tab_stack
        /\ Flags(r) = <<p.static_var_decl, p.il_override, "none", p.step_found>>
    BY <1>1 DEF Fields, Flags
  <2> HIDE DEF r, code, q
  <2>3. Turns(p, r, "NEXT_LOOP_TYPE", FALSE, Tables(p), Flags(r))
    BY <1>1, <1>6, <2>2, ThenFlags
  <2>4. Turns(p, q, "NEXT_LOOP_TYPE", TRUE, Tables(p), Flags(r))
    BY <2>1, <2>3, ThenEmit, ThenFinish
  <2>5. Fits(action, "NEXT_LOOP_TYPE", TRUE, j)
    BY <1>1, <1>2, <1>6, Tabled DEF ExpectedIn, EndsLine, IsToken, Fits, JumpRows, JumpPlaces
  <2>6. FlagsFit(q) /\ q.step_found = FALSE
    BY <1>1, <1>3, <2>2, <2>4 DEF FlagsFit, Flags, Turns
  <2> QED BY <1>1, <1>6, <2>4, <2>5, <2>6, TurnedWith DEF Has, OneTable, q
<1>7. CASE /\ ~(Me(p).state = "START" /\ IsToken(value, {start}))
          /\ ~(Me(p).state = "NEXT_LOOP_TYPE" /\ IsToken(value, {"DO", "FOR"}))
          /\ ~(Me(p).state = "NEXT_LOOP_TYPE" /\ IsToken(value, {"EOL"}))
  <2>1. q = p
    BY <1>7 DEF Jump, Ok
  <2>2. Turns(p, q, Me(p).state, FALSE, Tables(p), Flags(p))
    BY <1>1, <2>1
  <2>3. Fits(action, Me(p).state, FALSE, j) /\ ~EndsLine(p, value, j)
    BY <1>1, <1>2, <1>7, Tabled
       DEF ExpectedIn, EndsLine, IsToken, Fits, JumpRows, JumpPlaces, Names
  <2> QED BY <1>3, <2>2, <2>3, Turned
<1> QED BY <1>4, <1>5, <1>6, <1>7

LEMMA VarActs ==
    ASSUME NEW p, Ready(p, "sem_var_decl"), NEW value, NEW j, Expected(p, value, j),
           sem_var_decl(p, value).ret = "SUCCESS"
    PROVE  Leaves(p, sem_var_decl(p, value).parser, value, j)
<1> DEFINE q == sem_var_decl(p, value).parser
<1>1. /\ Turns(p, p, Me(p).state, FALSE, Tables(p), Flags(p)) /\ Tables(p) \in Nat
      /\ Me(p).sem_action = "sem_var_decl" /\ Me(p).finished = FALSE /\ Tables(p) >= TablesHeld(Me(p))
      /\ DOMAIN p = Fields /\ Quiet(Me(p).value) /\ FlagsFit(p)
  BY Starts DEF Ready, IsAnalyzer
<1>2. ExpectedIn(p, value, j, VarRows, VarPlaces)
  BY <1>1, ExpectedFrom, Tabled
<1>3. p.step_found = FALSE
  BY <1>1 DEF Expected, Reads, EndsLine, Evaluates, TakesParam
<1>4. CASE Me(p).state = "START" /\ IsToken(value, {"STATIC"})
  <2>1. Turns(p, q, IF InFunction(p) THEN "VAR_ID_STATIC" ELSE "VAR_ID", FALSE, Tables(p), Flags(p))
    BY <1>1, <1>4, ThenBecome DEF sem_var_decl, IsToken, IsId, Ok, Error
  <2>2. Fits("sem_var_decl", IF InFunction(p) THEN "VAR_ID_STATIC" ELSE "VAR_ID", FALSE, j) /\ ~EndsLine(p, value, j)
    BY <1>1, <1>2, <1>4, Tabled
         DEF ExpectedIn, EndsLine, IsToken, IsId, Fits, VarRows, VarPlaces, TypeSymbols, Types
  <2>3. FlagsFit(q) /\ q.step_found = FALSE
    BY <1>1, <1>3, <1>4, <2>1 DEF FlagsFit, Flags, Turns
  <2> QED BY <1>1, <1>4, <2>1, <2>2, <2>3, TurnedWith DEF Has, OneTable
<1>5. CASE Me(p).state = "START" /\ IsToken(value, {"SHARED"})
  <2>1. Turns(p, q, "VAR_ID_SHARED", FALSE, Tables(p), Flags(p))
    BY <1>1, <1>5, ThenBecome DEF sem_var_decl, IsToken, IsId, Ok, Error
  <2>2. Fits("sem_var_decl", "VAR_ID_SHARED", FALSE, j) /\ ~EndsLine(p, value, j)
    BY <1>1, <1>2, <1>5, Tabled
         DEF ExpectedIn, EndsLine, IsToken, IsId, Fits, VarRows, VarPlaces, TypeSymbols, Types
  <2>3. FlagsFit(q) /\ q.step_found = FALSE
    BY <1>1, <1>3, <1>5, <2>1 DEF FlagsFit, Flags, Turns
  <2> QED BY <1>1, <1>5, <2>1, <2>2, <2>3, TurnedWith DEF Has, OneTable
<1>6. CASE Me(p).state \in {"START", "VAR_ID", "VAR_ID_SHARED"} /\ IsToken(value, {"IDENTIFIER"})
  <2>1. \A key, type : Quiet(IdValue(key, type))
    BY DEF Quiet, IsValue, IdValue, NoValue
  <2>2. Turns(p, q, "VAR_TYPE", FALSE, Tables(p), Flags(p))
    BY <1>1, <1>6, <2>1, ThenSetCurrent, ThenHold, ThenEmit, ThenBecome
         DEF sem_var_decl, IsToken, IsId, Ok, Error, DefineVar
  <2>3. Fits("sem_var_decl", "VAR_TYPE", FALSE, j) /\ ~EndsLine(p, value, j)
    BY <1>1, <1>2, <1>6, Tabled
         DEF ExpectedIn, EndsLine, IsToken, IsId, Fits, VarRows, VarPlaces, TypeSymbols, Types
  <2>4. FlagsFit(q) /\ q.step_found = FALSE
    BY <1>1, <1>3, <1>6, <2>1, <2>2 DEF FlagsFit, Flags, Turns
  <2> QED BY <1>1, <1>6, <2>2, <2>3, <2>4, TurnedWith DEF Has, OneTable
<1>7. CASE Me(p).state = "VAR_ID_STATIC" /\ IsToken(value, {"IDENTIFIER"})
  <2> DEFINE static == get_static_var_name(Function(p), value.key)
             s == EmitTo(Hold(SetGlobal(p, static, "none"), IdValue(static, "none")),
                         "global", <<DefVar("GF", static)>>)
             r == [s EXCEPT !.static_var_decl = TRUE, !.il_override = "global"]
  <2>1. \A key, type : Quiet(IdValue(key, type))
    BY DEF Quiet, IsValue, IdValue, NoValue
  <2>2. q = Become(r, "VAR_TYPE")
    BY <1>7 DEF sem_var_decl, DefineStatic, IsToken, IsId, Ok, Error
  <2>3. Turns(p, s, "VAR_ID_STATIC", FALSE, Tables(p), Flags(p))
    BY <1>1, <1>7, <2>1, ThenSetGlobal, ThenHold, ThenEmitTo
  <2>4. DOMAIN s = Fields
    BY <2>3 DEF Turns, Busy, Fit
  <2>5. /\ DOMAIN r = Fields /\ r.sem_an_stack = s.sem_an_stack /\ r.sym_tab_stack = s.sym_tab_stack
        /\ Flags(r) = <<TRUE, "global", s.last_loop_type, s.step_found>>
    BY <2>4 DEF Fields, Flags
  <2>6. s.last_loop_type = p.last_loop_type /\ s.step_found = p.step_found
    BY <2>3 DEF Turns, Flags
  <2> HIDE DEF static, s, r, q
  <2>7. Turns(p, q, "VAR_TYPE", FALSE, Tables(p), Flags(r))
    BY <1>1, <1>7, <2>1, <2>2, <2>3, <2>4, <2>5, <2>6, ThenFlags, ThenBecome
  <2>8. Fits("sem_var_decl", "VAR_TYPE", FALSE, j) /\ ~EndsLine(p, value, j)
    BY <1>1, <1>2, <1>7, Tabled
         DEF ExpectedIn, EndsLine, IsToken, IsId, Fits, VarRows, VarPlaces, TypeSymbols, Types
  <2>9. FlagsFit(q) /\ q.step_found = FALSE
    BY <1>1, <1>3, <1>7, <2>1, <2>2, <2>3, <2>4, <2>5, <2>6, <2>7 DEF FlagsFit, Flags, Turns
  <2> QED BY <1>1, <1>7, <2>7, <2>8, <2>9, TurnedWith DEF Has, OneTable, q
<1>8. CASE Me(p).state = "VAR_TYPE" /\ IsToken(value, Types)
  <2>1. \A key, type : Quiet(IdValue(key, type))
    BY DEF Quiet, IsValue, IdValue, NoValue
  <2>2. Turns(p, q, "ASSIGN", FALSE, Tables(p), Flags(p))
    BY <1>1, <1>8, <2>1, ThenHold, ThenSetGlobal, ThenSetCurrent, ThenBecome
         DEF sem_var_decl, IsToken, IsId, Ok, Error, SetType
  <2>3. Fits("sem_var_decl", "ASSIGN", FALSE, j) /\ ~EndsLine(p, value, j)
    BY <1>1, <1>2, <1>8, Tabled
         DEF ExpectedIn, EndsLine, IsToken, IsId, Fits, VarRows, VarPlaces, TypeSymbols, Types
  <2>4. FlagsFit(q) /\ q.step_found = FALSE
    BY <1>1, <1>3, <1>8, <2>1, <2>2 DEF FlagsFit, Flags, Turns
  <2> QED BY <1>1, <1>8, <2>2, <2>3, <2>4, TurnedWith DEF Has, OneTable
<1>9. CASE Me(p).state = "ASSIGN" /\ IsId(value)
  <2> DEFINE s == Emit(p, <<StoreAs(VarAddr(p, Me(p).value.key), Me(p).value.type,
                               VarAddr(p, value.key), value.type)>>)
             r == [s EXCEPT !.il_override = "none", !.static_var_decl = FALSE]
  <2>1. q = Finish(r)
    BY <1>9 DEF sem_var_decl, EndDeclaration, IsToken, IsId, Ok, Error
  <2>2. Turns(p, s, "ASSIGN", FALSE, Tables(p), Flags(p))
    BY <1>1, <1>9, ThenEmit
  <2>3. DOMAIN s = Fields
    BY <2>2 DEF Turns, Busy, Fit
  <2>4. /\ DOMAIN r = Fields /\ r.sem_an_stack = s.sem_an_stack /\ r.sym_tab_stack = s.sym_tab_stack
        /\ Flags(r) = <<FALSE, "none", s.last_loop_type, s.step_found>>
    BY <2>3 DEF Fields, Flags
  <2>5. s.last_loop_type = p.last_loop_type /\ s.step_found = p.step_found
    BY <2>2 DEF Turns, Flags
  <2> HIDE DEF s, r, q
  <2>6. Turns(p, q, "ASSIGN", TRUE, Tables(p), Flags(r))
    BY <1>1, <1>9, <2>1, <2>2, <2>3, <2>4, <2>5, ThenFlags, ThenFinish
  <2>7. Fits("sem_var_decl", "ASSIGN", TRUE, j)
    BY <1>1, <1>2, <1>9, Tabled
         DEF ExpectedIn, EndsLine, IsToken, IsId, Fits, VarRows, VarPlaces, TypeSymbols, Types
  <2>8. FlagsFit(q) /\ q.step_found = FALSE
    BY <1>1, <1>3, <1>9, <2>1, <2>2, <2>3, <2>4, <2>5, <2>6 DEF FlagsFit, Flags, Turns
  <2> QED BY <1>1, <1>9, <2>6, <2>7, <2>8, TurnedWith DEF Has, OneTable, q
<1>10. CASE Me(p).state = "ASSIGN" /\ IsToken(value, {"EOL"})
  <2> DEFINE s == Emit(p, <<Move(VarAddr(p, Me(p).value.key), addr_constant(Me(p).value.type))>>)
             r == [s EXCEPT !.il_override = "none", !.static_var_decl = FALSE]
  <2>1. q = Finish(r)
    BY <1>10 DEF sem_var_decl, EndDeclaration, IsToken, IsId, Ok, Error
  <2>2. Turns(p, s, "ASSIGN", FALSE, Tables(p), Flags(p))
    BY <1>1, <1>10, ThenEmit
  <2>3. DOMAIN s = Fields
    BY <2>2 DEF Turns, Busy, Fit
  <2>4. /\ DOMAIN r = Fields /\ r.sem_an_stack = s.sem_an_stack /\ r.sym_tab_stack = s.sym_tab_stack
        /\ Flags(r) = <<FALSE, "none", s.last_loop_type, s.step_found>>
    BY <2>3 DEF Fields, Flags
  <2>5. s.last_loop_type = p.last_loop_type /\ s.step_found = p.step_found
    BY <2>2 DEF Turns, Flags
  <2> HIDE DEF s, r, q
  <2>6. Turns(p, q, "ASSIGN", TRUE, Tables(p), Flags(r))
    BY <1>1, <1>10, <2>1, <2>2, <2>3, <2>4, <2>5, ThenFlags, ThenFinish
  <2>7. Fits("sem_var_decl", "ASSIGN", TRUE, j)
    BY <1>1, <1>2, <1>10, Tabled
         DEF ExpectedIn, EndsLine, IsToken, IsId, Fits, VarRows, VarPlaces, TypeSymbols, Types
  <2>8. FlagsFit(q) /\ q.step_found = FALSE
    BY <1>1, <1>3, <1>10, <2>1, <2>2, <2>3, <2>4, <2>5, <2>6 DEF FlagsFit, Flags, Turns
  <2> QED BY <1>1, <1>10, <2>6, <2>7, <2>8, TurnedWith DEF Has, OneTable, q
<1>11. CASE /\ ~(Me(p).state = "START" /\ IsToken(value, {"STATIC"}))
          /\ ~(Me(p).state = "START" /\ IsToken(value, {"SHARED"}))
          /\ ~(Me(p).state \in {"START", "VAR_ID", "VAR_ID_SHARED"} /\ IsToken(value, {"IDENTIFIER"}))
          /\ ~(Me(p).state = "VAR_ID_STATIC" /\ IsToken(value, {"IDENTIFIER"}))
          /\ ~(Me(p).state = "VAR_TYPE" /\ IsToken(value, Types))
          /\ ~(Me(p).state = "ASSIGN" /\ IsId(value))
          /\ ~(Me(p).state = "ASSIGN" /\ IsToken(value, {"EOL"}))
  <2>1. q = p
    BY <1>11 DEF sem_var_decl, Ok
  <2>2. Turns(p, q, Me(p).state, FALSE, Tables(p), Flags(p))
    BY <1>1, <1>11, <2>1
  <2>3. Fits("sem_var_decl", Me(p).state, FALSE, j) /\ ~EndsLine(p, value, j)
    BY <1>1, <1>2, <1>11, Tabled
         DEF ExpectedIn, EndsLine, IsToken, IsId, Fits, VarRows, VarPlaces, TypeSymbols, Types, Names
  <2>4. FlagsFit(q) /\ q.step_found = FALSE
    BY <1>1, <1>3, <1>11, <2>1, <2>2 DEF FlagsFit, Flags, Turns
  <2> QED BY <1>1, <1>11, <2>2, <2>3, <2>4, TurnedWith DEF Has, OneTable
<1> QED BY <1>4, <1>5, <1>6, <1>7, <1>8, <1>9, <1>10, <1>11

LEMMA LoopStarts ==
    ASSUME NEW p, NEW s, NEW f, NEW t, NEW g, Turns(p, p, s, f, t, g), NEW symbol, Quiet(symbol)
    PROVE  Turns(p, StartLoop(p, symbol), "FOR_INIT", f, t + 1, g)
<1> DEFINE held == [symbol EXCEPT !.value_type = "FOR", !.uid = p.seed]
<1>1. Quiet(held)
  BY DEF Quiet, IsValue
<1> HIDE DEF held
<1>2. Turns(p, Become(Hold(TakeUids(create_scope(p), 1), held), "FOR_INIT"), "FOR_INIT", f, t + 1, g)
  BY <1>1, ThenCreateScope, ThenTakeUids, ThenHold, ThenBecome
<1> QED BY <1>2 DEF StartLoop, held

LEMMA ForActs ==
    ASSUME NEW p, Ready(p, "sem_for_loop"), NEW value, NEW j, Expected(p, value, j),
           sem_for_loop(p, value).ret = "SUCCESS"
    PROVE  Leaves(p, sem_for_loop(p, value).parser, value, j)
<1> DEFINE q == sem_for_loop(p, value).parser
<1>1. /\ Turns(p, p, Me(p).state, FALSE, Tables(p), Flags(p)) /\ Tables(p) \in Nat
      /\ Me(p).sem_action = "sem_for_loop" /\ Me(p).finished = FALSE /\ Tables(p) >= TablesHeld(Me(p))
      /\ DOMAIN p = Fields /\ Quiet(Me(p).value) /\ FlagsFit(p)
  BY Starts DEF Ready, IsAnalyzer
<1>2. ExpectedIn(p, value, j, ForRows, ForPlaces)
  BY <1>1, ExpectedFrom, Tabled
<1>3. /\ p.step_found \in BOOLEAN
      /\ value.value_type # "ID" => p.step_found = FALSE
      /\ value.value_type = "ID" => (p.step_found = TRUE <=> j = 16) /\ j # 5
  <2>1. \A i : <<Me(p).state, "param", i>> \notin ForRows
    BY DEF ForRows
  <2> QED BY <1>1, <2>1, Tabled DEF Expected, Reads, EndsLine, Evaluates, TakesParam
<1>4. CASE Me(p).state = "START" /\ IsToken(value, {"IDENTIFIER"})
  <2>1. Quiet(value)
    BY <1>2, <1>4 DEF ExpectedIn, IsToken, Quiet
  <2>2. Turns(p, q, "FOR_ITERATOR", FALSE, Tables(p), Flags(p))
    BY <1>1, <1>4, <2>1, ThenHold, ThenBecome DEF sem_for_loop, IsToken, IsId, Ok, Error
  <2>3. /\ Fits("sem_for_loop", "FOR_ITERATOR", FALSE, j) /\ ~EndsLine(p, value, j)
        /\ p.step_found = FALSE
    BY <1>1, <1>2, <1>3, <1>4, Tabled
         DEF ExpectedIn, EndsLine, IsToken, IsId, Fits, ForRows, ForPlaces, TypeSymbols, Types,
             Statements
  <2> QED BY <1>1, <1>4, <2>2, <2>3, Turned DEF Has, OneTable
<1>5. CASE Me(p).state = "FOR_ITERATOR" /\ IsToken(value, {"EQUAL"})
  <2>1. \E symbol : Quiet(symbol) /\ q = StartLoop(p, symbol)
    BY <1>5, SymbolsAreQuiet DEF sem_for_loop, IsToken, IsId, Ok, Error, Types, Numbers
  <2>2. \A symbol : Quiet(symbol) => Turns(p, StartLoop(p, symbol), "FOR_INIT", FALSE, Tables(p) + 1, Flags(p))
    BY <1>1, <1>5, LoopStarts
  <2>3. Turns(p, q, "FOR_INIT", FALSE, Tables(p) + 1, Flags(p))
    BY <1>1, <1>5, <2>1, <2>2 DEF sem_for_loop, IsToken, IsId, Ok, Error
  <2>4. /\ Fits("sem_for_loop", "FOR_INIT", FALSE, j) /\ ~EndsLine(p, value, j)
        /\ p.step_found = FALSE
    BY <1>1, <1>2, <1>3, <1>5, Tabled
         DEF ExpectedIn, EndsLine, IsToken, IsId, Fits, ForRows, ForPlaces, TypeSymbols, Types,
             Statements
  <2> QED BY <1>1, <1>5, <2>3, <2>4, Turned DEF Has, OneTable
<1>6. CASE Me(p).state = "FOR_ITERATOR" /\ IsToken(value, Types)
  <2>1. \A key, type : Quiet(IdValue(key, type))
    BY DEF Quiet, IsValue, IdValue, NoValue
  <2>2. \A symbol : Quiet(symbol) => Turns(p, StartLoop(p, symbol), "FOR_INIT", FALSE, Tables(p) + 1, Flags(p))
    BY <1>1, <1>6, LoopStarts
  <2>3. Turns(p, q, "FOR_INIT", FALSE, Tables(p) + 1, Flags(p))
    BY <1>1, <1>6, <2>1, <2>2, ThenSetGlobal, ThenEmitTo
         DEF sem_for_loop, IsToken, IsId, Ok, Error, Types, Numbers
  <2>4. /\ Fits("sem_for_loop", "FOR_INIT", FALSE, j) /\ ~EndsLine(p, value, j)
        /\ p.step_found = FALSE
    BY <1>1, <1>2, <1>3, <1>6, Tabled
         DEF ExpectedIn, EndsLine, IsToken, IsId, Fits, ForRows, ForPlaces, TypeSymbols, Types,
             Statements
  <2> QED BY <1>1, <1>6, <2>3, <2>4, Turned DEF Has, OneTable
<1>7. CASE Me(p).state = "FOR_INIT" /\ IsId(value)
  <2>1. Turns(p, q, "FOR_ENDVAL", FALSE, Tables(p), Flags(p))
    BY <1>1, <1>7, ThenEmit, ThenBecome DEF sem_for_loop, IsToken, IsId, Ok, Error
  <2>2. /\ Fits("sem_for_loop", "FOR_ENDVAL", FALSE, j) /\ ~EndsLine(p, value, j)
        /\ p.step_found = FALSE
    BY <1>1, <1>2, <1>3, <1>7, Tabled
         DEF ExpectedIn, EndsLine, IsToken, IsId, Fits, ForRows, ForPlaces, TypeSymbols, Types,
             Statements
  <2> QED BY <1>1, <1>7, <2>1, <2>2, Turned DEF Has, OneTable
<1>8. CASE Me(p).state = "FOR_ENDVAL" /\ IsId(value)
  <2> DEFINE uid == Me(p).value.uid
             ended == Emit(EmitTo(p, "global", <<DefVar("GF", EndVal(uid)), DefVar("GF", StepVal(uid))>>),
                           <<ForValue(p, EndVal(uid), value)>>)
             r == [ended EXCEPT !.step_found = FALSE]
             code == <<Move(GlobalVar(StepVal(uid)), ForConstant(p, 1))>> \o LoopHead(p)
  <2>1. q = IF p.step_found THEN Become(r, "FOR_STEP") ELSE Become(Emit(ended, code), "FOR_NEXT")
    BY <1>8 DEF sem_for_loop, IsToken, IsId, Ok, Error
  <2>2. Turns(p, ended, "FOR_ENDVAL", FALSE, Tables(p), Flags(p))
    BY <1>1, <1>8, ThenEmitTo, ThenEmit
  <2>3. DOMAIN ended = Fields
    BY <2>2 DEF Turns, Busy, Fit
  <2>4. /\ DOMAIN r = Fields /\ r.sem_an_stack = ended.sem_an_stack
        /\ r.sym_tab_stack = ended.sym_tab_stack
        /\ Flags(r) = <<ended.static_var_decl, ended.il_override, ended.last_loop_type, FALSE>>
    BY <2>3 DEF Fields, Flags
  <2> HIDE DEF ended, r, code, q
  <2>5. ASSUME p.step_found = TRUE PROVE Leaves(p, q, value, j)
    <3>1. Turns(p, q, "FOR_STEP", FALSE, Tables(p), Flags(r))
      BY <2>1, <2>2, <2>4, <2>5, ThenFlags, ThenBecome
    <3>2. Fits("sem_for_loop", "FOR_STEP", FALSE, j) /\ ~EndsLine(p, value, j)
      BY <1>1, <1>2, <1>3, <1>8, <2>5, Tabled DEF EndsLine, IsId, Fits, ForRows
    <3>3. FlagsFit(q) /\ q.step_found = FALSE
      BY <1>1, <2>2, <2>4, <3>1 DEF FlagsFit, Flags, Turns
    <3> QED BY <1>1, <1>8, <3>1, <3>2, <3>3, TurnedWith DEF Has, OneTable
  <2>6. ASSUME p.step_found = FALSE PROVE Leaves(p, q, value, j)
    <3>1. Turns(p, q, "FOR_NEXT", FALSE, Tables(p), Flags(p))
      BY <2>1, <2>2, <2>6, ThenEmit, ThenBecome
    <3>2. j = 4
      BY <1>2, <1>3, <1>8, <2>6 DEF ExpectedIn, IsId, Quiet, ForRows
    <3>3. Fits("sem_for_loop", "FOR_NEXT", FALSE, j) /\ ~EndsLine(p, value, j)
      BY <3>2, Tabled DEF EndsLine, Fits, ForRows
    <3> QED BY <1>1, <1>8, <2>6, <3>1, <3>3, Turned DEF Has, OneTable
  <2>7. Leaves(p, q, value, j)
    BY <1>3, <2>5, <2>6
  <2> QED BY <2>7 DEF q
<1>9. CASE Me(p).state = "FOR_STEP" /\ IsId(value)
  <2>1. Turns(p, q, "FOR_NEXT", FALSE, Tables(p), Flags(p))
    BY <1>1, <1>9, ThenEmit, ThenBecome DEF sem_for_loop, IsToken, IsId, Ok, Error
  <2>2. /\ Fits("sem_for_loop", "FOR_NEXT", FALSE, j) /\ ~EndsLine(p, value, j)
        /\ p.step_found = FALSE
    BY <1>1, <1>2, <1>3, <1>9, Tabled
         DEF ExpectedIn, EndsLine, IsToken, IsId, Fits, ForRows, ForPlaces, TypeSymbols, Types,
             Statements
  <2> QED BY <1>1, <1>9, <2>1, <2>2, Turned DEF Has, OneTable
<1>10. CASE Me(p).state = "FOR_NEXT" /\ IsToken(value, {"NEXT"})
  <2>1. Turns(p, q, "FOR_END", FALSE, Tables(p), Flags(p))
    BY <1>1, <1>10, ThenBecome DEF sem_for_loop, IsToken, IsId, Ok, Error
  <2>2. /\ Fits("sem_for_loop", "FOR_END", FALSE, j) /\ ~EndsLine(p, value, j)
        /\ p.step_found = FALSE
    BY <1>1, <1>2, <1>3, <1>10, Tabled
         DEF ExpectedIn, EndsLine, IsToken, IsId, Fits, ForRows, ForPlaces, TypeSymbols, Types,
             Statements
  <2> QED BY <1>1, <1>10, <2>1, <2>2, Turned DEF Has, OneTable
<1>11. CASE Me(p).state = "FOR_END" /\ IsToken(value, {"EOL"})
  <2>1. Tables(p) > 0
    BY <1>1, <1>11 DEF TablesHeld, TablesOf, Has, OneTable
  <2>2. Turns(p, q, "FOR_END", TRUE, Tables(p) - 1, Flags(p))
    BY <1>1, <1>11, <2>1, ThenEmit, ThenDeleteScope, ThenFinish
         DEF sem_for_loop, IsToken, IsId, Ok, Error
  <2>3. /\ Fits("sem_for_loop", "FOR_END", TRUE, j)
        /\ p.step_found = FALSE
    BY <1>1, <1>2, <1>3, <1>11, Tabled
         DEF ExpectedIn, EndsLine, IsToken, IsId, Fits, ForRows, ForPlaces, TypeSymbols, Types,
             Statements
  <2> QED BY <1>1, <1>11, <2>2, <2>3, Turned DEF Has, OneTable
<1>12. CASE /\ ~(Me(p).state = "START" /\ IsToken(value, {"IDENTIFIER"}))
           /\ ~(Me(p).state = "FOR_ITERATOR" /\ IsToken(value, {"EQUAL"}))
           /\ ~(Me(p).state = "FOR_ITERATOR" /\ IsToken(value, Types))
           /\ ~(Me(p).state = "FOR_INIT" /\ IsId(value))
           /\ ~(Me(p).state = "FOR_ENDVAL" /\ IsId(value))
           /\ ~(Me(p).state = "FOR_STEP" /\ IsId(value))
           /\ ~(Me(p).state = "FOR_NEXT" /\ IsToken(value, {"NEXT"}))
           /\ ~(Me(p).state = "FOR_END" /\ IsToken(value, {"EOL"}))
  <2>1. q = p
    BY <1>12 DEF sem_for_loop, IsToken, IsId, Ok, Error, Types, Numbers
  <2>2. Turns(p, q, Me(p).state, FALSE, Tables(p), Flags(p))
    BY <1>1, <2>1
  <2>3. /\ Fits("sem_for_loop", Me(p).state, FALSE, j) /\ ~EndsLine(p, value, j)
        /\ p.step_found = FALSE
    BY <1>1, <1>2, <1>3, <1>12, Tabled
       DEF ExpectedIn, EndsLine, IsToken, IsId, Fits, ForRows, ForPlaces, TypeSymbols, Types, Statements, Names
  <2> QED BY <1>1, <2>2, <2>3, Turned
<1> QED BY <1>4, <1>5, <1>6, <1>7, <1>8, <1>9, <1>10, <1>11, <1>12

Actions == {"sem_scope", "sem_print", "sem_input", "sem_expr_assign", "sem_return", "sem_condition",
            "sem_do_loop", "sem_for_loop", "sem_exit", "sem_continue", "sem_var_decl",
            "sem_param_decl", "sem_func_decl", "sem_func_def"}

LEMMA RowsHaveActions ==
    ASSUME NEW action, NEW state, NEW above, NEW i, <<state, above, i>> \in Rows(action)
    PROVE  action \in Actions
  BY Zenon DEF Rows, Actions

LEMMA ActionActs ==
    ASSUME NEW p, NEW action, Ready(p, action), NEW value, NEW j, Expected(p, value, j),
           sem_action(p, value).ret = "SUCCESS"
    PROVE  Leaves(p, sem_action(p, value).parser, value, j)
<1>1. Me(p).sem_action = action /\ Me(p).finished = FALSE
  BY Starts DEF Ready, IsAnalyzer
<1>2. action \in Actions
  BY <1>1, RowsHaveActions DEF Expected, Reads, EndsLine, Evaluates, TakesParam
<1>3. CASE action = "sem_scope"
  BY <1>1, <1>3, ScopeActs DEF sem_action
<1>4. CASE action = "sem_print"
  BY <1>1, <1>4, PrintActs DEF sem_action
<1>5. CASE action = "sem_input"
  BY <1>1, <1>5, InputActs DEF sem_action
<1>6. CASE action = "sem_expr_assign"
  BY <1>1, <1>6, AssignActs DEF sem_action
<1>7. CASE action = "sem_return"
  BY <1>1, <1>7, ReturnActs DEF sem_action
<1>8. CASE action = "sem_condition"
  BY <1>1, <1>8, ConditionActs DEF sem_action
<1>9. CASE action = "sem_do_loop"
  BY <1>1, <1>9, DoActs DEF sem_action
<1>10. CASE action = "sem_for_loop"
  BY <1>1, <1>10, ForActs DEF sem_action
<1>11. CASE action = "sem_exit"
  BY <1>1, <1>11, JumpActs DEF sem_action, sem_exit
<1>12. CASE action = "sem_continue"
  BY <1>1, <1>12, JumpActs DEF sem_action, sem_continue
<1>13. CASE action = "sem_var_decl"
  BY <1>1, <1>13, VarActs DEF sem_action
<1>14. CASE action = "sem_param_decl"
  BY <1>1, <1>14, ParamActs DEF sem_action
<1>15. CASE action = "sem_func_decl"
  BY <1>1, <1>15, DeclActs DEF sem_action
<1>16. CASE action = "sem_func_def"
  BY <1>1, <1>16, DefActs DEF sem_action
<1> QED BY <1>2, <1>3, <1>4, <1>5, <1>6, <1>7, <1>8, <1>9, <1>10, <1>11, <1>12, <1>13, <1>14, <1>15,
           <1>16 DEF Actions

\* Tokens that mean something to an open block
BlockTokens == {"SCOPE", "END", "ELSE", "ELSEIF", "LOOP", "NEXT", "FUNCTION"}

LEMMA OpenStates ==
    ASSUME NEW action, NEW state, NEW i, <<state, "other", i>> \in Rows(action)
    PROVE  <<action, state>> \in
              {<<"sem_scope", "SCOPE_END">>, <<"sem_condition", "IF_CONT">>, <<"sem_condition", "IF_ELSE">>,
               <<"sem_do_loop", "DO_LOOP_TEST_START">>, <<"sem_do_loop", "DO_LOOP_TEST_END">>,
               <<"sem_for_loop", "FOR_NEXT">>, <<"sem_func_def", "FUNC_END">>}
<1>1. action \in Actions
  BY RowsHaveActions
<1>2. CASE action \in {"sem_scope", "sem_condition", "sem_do_loop", "sem_for_loop", "sem_func_def"}
  BY <1>2, Tabled DEF ScopeRows, ConditionRows, DoRows, ForRows, DefRows
<1>3. CASE action \in {"sem_print", "sem_input", "sem_expr_assign", "sem_return", "sem_exit",
                       "sem_continue", "sem_var_decl", "sem_param_decl", "sem_func_decl"}
  BY <1>3, Tabled DEF PrintRows, InputRows, AssignRows, ReturnRows, JumpRows, VarRows, ParamRows, DeclRows
<1> QED BY <1>1, <1>2, <1>3 DEF Actions

LEMMA OpenIgnores ==
    ASSUME NEW p, Busy(p), NEW i, <<Me(p).state, "other", i>> \in Rows(Me(p).sem_action),
           NEW value, ~IsToken(value, BlockTokens)
    PROVE  sem_action(p, value) = Ok(p)
<1> DEFINE action == Me(p).sem_action
           state == Me(p).state
<1>1. CASE Me(p).finished = TRUE
  BY <1>1 DEF sem_action
<1>2. CASE Me(p).finished = FALSE
  <2>0. /\ \A ids \in {{"SCOPE"}, {"END"}, {"ELSE"}, {"ELSEIF"}, {"LOOP"}, {"NEXT"}, {"FUNCTION"}} :
               ~IsToken(value, ids)
    BY DEF IsToken, BlockTokens
  <2>1. CASE action = "sem_scope" /\ state = "SCOPE_END"
    BY <1>2, <2>0, <2>1 DEF sem_action, sem_scope
  <2>2. CASE action = "sem_condition" /\ state \in {"IF_CONT", "IF_ELSE"}
    BY <1>2, <2>0, <2>2 DEF sem_action, sem_condition
  <2>3. CASE action = "sem_do_loop" /\ state \in {"DO_LOOP_TEST_START", "DO_LOOP_TEST_END"}
    BY <1>2, <2>0, <2>3 DEF sem_action, sem_do_loop
  <2>4. CASE action = "sem_for_loop" /\ state = "FOR_NEXT"
    BY <1>2, <2>0, <2>4 DEF sem_action, sem_for_loop
  <2>5. CASE action = "sem_func_def" /\ state = "FUNC_END"
    BY <1>2, <2>0, <2>5 DEF sem_action, sem_func_def
  <2> QED BY <2>1, <2>2, <2>3, <2>4, <2>5, OpenStates
<1> QED BY <1>1, <1>2, TopIsFirst DEF IsAnalyzer
-----------------------------------------------------------------------------
AllActions == Actions \cup {"program", "sem_expr_result"}

\* What the tables of an action have in common
Orderly(action, rows, places) ==
    /\ \A i, s, j : <<i, s, j>> \in places => i # 0
    /\ \A state, i : <<state, "other", i>> \in rows => i # 0 /\ <<state, "none", i>> \in rows
    /\ \A state, i : <<state, "param", i>> \in rows => i # 0 /\ <<state, "none", i>> \in rows
    /\ action \in {"sem_scope", "sem_param_decl"} => \A state, above, i : <<state, above, i>> \in rows => i # 0
    /\ \A state, above, i, j : <<state, above, i>> \in rows /\ <<i, "NT_EXPRESSION", j>> \in places =>
          above = "none" /\ <<state, "expr", j>> \in rows
    /\ \A state, i, j : <<state, "other", i>> \in rows /\ <<i, "EOL", j>> \in places =>
          <<state, "other", j>> \in rows
    /\ action # "program" => \A i, j : <<i, "EOF", j>> \notin places
    /\ action = "program" => \A i, j : <<i, "NT_EXPRESSION", j>> \notin places
    /\ \A i, j : <<i, "STEP", j>> \in places => action = "sem_for_loop" /\ i = 16
    /\ action = "sem_for_loop" => \A s, j : (<<16, s, j>> \in places => s = "STEP")
                                            /\ (<<5, s, j>> \in places => s = "NT_STEP_OPT")
    /\ action = "sem_condition" => /\ \A s, j : <<1, s, j>> \in places => s = "IF" /\ j = 0
                                   /\ \A state : <<state, "expr", 1>> \notin rows /\ <<state, "param", 1>> \notin rows
    /\ \A state, i : <<state, "expr", i>> \in rows =>
          action \notin {"program", "sem_scope", "sem_param_decl", "sem_expr_result"}
    /\ \A state, i : <<state, "param", i>> \in rows => action \in {"sem_func_decl", "sem_func_def"}

LEMMA TablesAreOrderly ==
    ASSUME NEW action \in AllActions
    PROVE  Orderly(action, Rows(action), Places(action))
<1>1. CASE action = "sem_scope"
  BY <1>1, Tabled, SMTT(30) DEF Orderly, ScopeRows, ScopePlaces, Statements
<1>2. CASE action = "sem_print"
  BY <1>2, Tabled, SMTT(30) DEF Orderly, PrintRows, PrintPlaces
<1>3. CASE action = "sem_input"
  BY <1>3, Tabled, SMTT(30) DEF Orderly, InputRows, InputPlaces
<1>4. CASE action = "sem_expr_assign"
  BY <1>4, Tabled, SMTT(30) DEF Orderly, AssignRows, AssignPlaces, AssignOperators
<1>5. CASE action = "sem_return"
  BY <1>5, Tabled, SMTT(30) DEF Orderly, ReturnRows, ReturnPlaces
<1>6. CASE action = "sem_condition"
  BY <1>6, Tabled, SMTT(30) DEF Orderly, ConditionRows, ConditionPlaces, Statements
<1>7. CASE action = "sem_do_loop"
  BY <1>7, Tabled, SMTT(30) DEF Orderly, DoRows, DoPlaces, Statements
<1>8. CASE action = "sem_for_loop"
  BY <1>8, Tabled, SMTT(30) DEF Orderly, ForRows, ForPlaces, Statements, TypeSymbols, Types
<1>9. CASE action = "sem_exit"
  BY <1>9, Tabled, SMTT(30) DEF Orderly, JumpRows, JumpPlaces
<1>10. CASE action = "sem_continue"
  BY <1>10, Tabled, SMTT(30) DEF Orderly, JumpRows, JumpPlaces
<1>11. CASE action = "sem_var_decl"
  BY <1>11, Tabled, SMTT(30) DEF Orderly, VarRows, VarPlaces, TypeSymbols, Types
<1>12. CASE action = "sem_param_decl"
  BY <1>12, Tabled, SMTT(30) DEF Orderly, ParamRows, ParamPlaces, TypeSymbols, Types
<1>13. CASE action = "sem_func_decl"
  BY <1>13, Tabled, SMTT(30) DEF Orderly, DeclRows, DeclPlaces, TypeSymbols, Types
<1>14. CASE action = "sem_func_def"
  BY <1>14, Tabled, SMTT(30) DEF Orderly, DefRows, DefPlaces, Statements, TypeSymbols, Types
<1>15. CASE action = "program"
  <2>1. Rows(action) = {} /\ Places(action) = ProgramPlaces
    BY <1>15, Tabled, RowsHaveActions DEF Rows
  <2> QED BY <1>15, <2>1 DEF Orderly, ProgramPlaces
<1>16. CASE action = "sem_expr_result"
  BY <1>16, Tabled DEF Orderly
<1> QED BY <1>1, <1>2, <1>3, <1>4, <1>5, <1>6, <1>7, <1>8, <1>9, <1>10, <1>11, <1>12, <1>13,
           <1>14, <1>15, <1>16 DEF AllActions, Actions
-----------------------------------------------------------------------------
\* Where the nonterminals without an action stand in the rules of each action
LEMMA WhereNonterminals ==
    ASSUME NEW action \in AllActions, NEW i, NEW j
    PROVE
    /\ <<i, "NT_LINE", j>> \in Places(action) => <<action, i, j>> = <<"program", 10, 1>>
    /\ <<i, "NT_LINE_END", j>> \in Places(action) => <<action, i, j>> = <<"program", 7, 1>>
    /\ <<i, "NT_GLOBAL_STMT", j>> \in Places(action) => <<action, i, j>> = <<"program", 9, 8>>
    /\ <<i, "NT_STMT_SEQ", j>> \in Places(action) =>
          <<action, i, j>> \in {<<"sem_scope", 3, 2>>, <<"sem_condition", 5, 4>>,
                                <<"sem_condition", 12, 2>>, <<"sem_do_loop", 4, 3>>,
                                <<"sem_do_loop", 12, 11>>, <<"sem_for_loop", 3, 2>>,
                                <<"sem_func_def", 3, 2>>}
    /\ <<i, "NT_VAR_DEF", j>> \in Places(action) => <<action, i, j>> = <<"sem_var_decl", 6, 0>>
    /\ <<i, "NT_INIT_OPT", j>> \in Places(action) => <<action, i, j>> = <<"sem_var_decl", 2, 0>>
    /\ <<i, "NT_PARAMS", j>> \in Places(action) =>
          <<action, i, j>> \in {<<"sem_func_decl", 6, 5>>, <<"sem_func_def", 8, 7>>}
    /\ <<i, "NT_PARAMS_NEXT", j>> \in Places(action) =>
          <<action, i, j>> \in {<<"sem_func_decl", 12, 5>>, <<"sem_func_def", 13, 7>>}
    /\ <<i, "NT_EXPRESSION_LIST", j>> \in Places(action) => <<action, i, j>> = <<"sem_print", 1, 0>>
    /\ <<i, "NT_IF_STMT_ELSEIF", j>> \in Places(action) => <<action, i, j>> = <<"sem_condition", 4, 3>>
    /\ <<i, "NT_IF_STMT_ELSE", j>> \in Places(action) => <<action, i, j>> = <<"sem_condition", 3, 2>>
    /\ <<i, "NT_DO_STMT_END", j>> \in Places(action) => <<action, i, j>> = <<"sem_do_loop", 19, 0>>
    /\ <<i, "NT_TEST_TYPE_END", j>> \in Places(action) => <<action, i, j>> = <<"sem_do_loop", 2, 0>>
    /\ <<i, "NT_LOOP_TYPE_END", j>> \in Places(action) =>
          <<action, i, j>> \in {<<"sem_exit", 3, 0>>, <<"sem_continue", 3, 0>>}
    /\ <<i, "NT_TYPE_OPT", j>> \in Places(action) => <<action, i, j>> = <<"sem_for_loop", 10, 9>>
    /\ <<i, "NT_STEP_OPT", j>> \in Places(action) => <<action, i, j>> = <<"sem_for_loop", 5, 4>>
    /\ <<i, "NT_ID_OPT", j>> \in Places(action) => <<action, i, j>> = <<"sem_for_loop", 1, 0>>
<1>1. CASE action = "program"
  BY <1>1, Tabled, SMTT(30) DEF ProgramPlaces
<1>2. CASE action = "sem_scope"
  BY <1>2, Tabled, SMTT(30) DEF ScopePlaces, Statements
<1>3. CASE action = "sem_print"
  BY <1>3, Tabled, SMTT(30) DEF PrintPlaces
<1>4. CASE action = "sem_input"
  BY <1>4, Tabled, SMTT(30) DEF InputPlaces
<1>5. CASE action = "sem_expr_assign"
  BY <1>5, Tabled, SMTT(30) DEF AssignPlaces, AssignOperators
<1>6. CASE action = "sem_return"
  BY <1>6, Tabled, SMTT(30) DEF ReturnPlaces
<1>7. CASE action = "sem_condition"
  BY <1>7, Tabled, SMTT(30) DEF ConditionPlaces, Statements
<1>8. CASE action = "sem_do_loop"
  BY <1>8, Tabled, SMTT(30) DEF DoPlaces, Statements
<1>9. CASE action = "sem_for_loop"
  BY <1>9, Tabled, SMTT(30) DEF ForPlaces, Statements, TypeSymbols, Types
<1>10. CASE action = "sem_exit"
  BY <1>10, Tabled, SMTT(30) DEF JumpPlaces
<1>11. CASE action = "sem_continue"
  BY <1>11, Tabled, SMTT(30) DEF JumpPlaces
<1>12. CASE action = "sem_var_decl"
  BY <1>12, Tabled, SMTT(30) DEF VarPlaces, TypeSymbols, Types
<1>13. CASE action = "sem_param_decl"
  BY <1>13, Tabled, SMTT(30) DEF ParamPlaces, TypeSymbols, Types
<1>14. CASE action = "sem_func_decl"
  BY <1>14, Tabled, SMTT(30) DEF DeclPlaces, TypeSymbols, Types
<1>15. CASE action = "sem_func_def"
  BY <1>15, Tabled, SMTT(30) DEF DefPlaces, Statements, TypeSymbols, Types
<1>16. CASE action = "sem_expr_result"
  BY <1>16, Tabled
<1> QED BY <1>1, <1>2, <1>3, <1>4, <1>5, <1>6, <1>7, <1>8, <1>9, <1>10, <1>11, <1>12, <1>13,
           <1>14, <1>15, <1>16 DEF AllActions, Actions

\* Any statement, type, operator and so on stands where its nonterminal stands.
LEMMA WhereClasses ==
    ASSUME NEW action \in AllActions, NEW i, NEW j
    PROVE
    /\ <<i, "NT_INNER_STMT", j>> \in Places(action) =>
          /\ \A s \in Statements : <<i, s, j>> \in Places(action)
          /\ \A state, above : <<state, above, i>> \in Rows(action) => <<state, above, j>> \in Rows(action)
    /\ <<i, "NT_TYPE", j>> \in Places(action) => \A s \in Types : <<i, s, j>> \in Places(action)
    /\ <<i, "NT_ASSIGN_OPERATOR", j>> \in Places(action) =>
          \A s \in AssignOperators : <<i, s, j>> \in Places(action)
    /\ <<i, "NT_TEST_TYPE_START", j>> \in Places(action) =>
          \A s \in {"WHILE", "UNTIL"} : <<i, s, j>> \in Places(action)
    /\ <<i, "NT_LOOP_TYPE", j>> \in Places(action) =>
          \A s \in {"DO", "FOR"} : <<i, s, j>> \in Places(action)
<1>1. CASE action = "program"
  BY <1>1, Tabled, SMTT(30) DEF ProgramPlaces
<1>2. CASE action = "sem_scope"
  BY <1>2, Tabled, SMTT(30) DEF ScopePlaces, ScopeRows, Statements
<1>3. CASE action = "sem_print"
  BY <1>3, Tabled, SMTT(30) DEF PrintPlaces, PrintRows
<1>4. CASE action = "sem_input"
  BY <1>4, Tabled, SMTT(30) DEF InputPlaces, InputRows
<1>5. CASE action = "sem_expr_assign"
  BY <1>5, Tabled, SMTT(30) DEF AssignPlaces, AssignRows, AssignOperators
<1>6. CASE action = "sem_return"
  BY <1>6, Tabled, SMTT(30) DEF ReturnPlaces, ReturnRows
<1>7. CASE action = "sem_condition"
  BY <1>7, Tabled, SMTT(30) DEF ConditionPlaces, ConditionRows, Statements
<1>8. CASE action = "sem_do_loop"
  BY <1>8, Tabled, SMTT(30) DEF DoPlaces, DoRows, Statements
<1>9. CASE action = "sem_for_loop"
  BY <1>9, Tabled, SMTT(30) DEF ForPlaces, ForRows, Statements, TypeSymbols, Types
<1>10. CASE action = "sem_exit"
  BY <1>10, Tabled, SMTT(30) DEF JumpPlaces, JumpRows
<1>11. CASE action = "sem_continue"
  BY <1>11, Tabled, SMTT(30) DEF JumpPlaces, JumpRows
<1>12. CASE action = "sem_var_decl"
  BY <1>12, Tabled, SMTT(30) DEF VarPlaces, VarRows, TypeSymbols, Types
<1>13. CASE action = "sem_param_decl"
  BY <1>13, Tabled, SMTT(30) DEF ParamPlaces, ParamRows, TypeSymbols, Types
<1>14. CASE action = "sem_func_decl"
  BY <1>14, Tabled, SMTT(30) DEF DeclPlaces, DeclRows, TypeSymbols, Types
<1>15. CASE action = "sem_func_def"
  BY <1>15, Tabled, SMTT(30) DEF DefPlaces, DefRows, Statements, TypeSymbols, Types
<1>16. CASE action = "sem_expr_result"
  BY <1>16, Tabled
<1> QED BY <1>1, <1>2, <1>3, <1>4, <1>5, <1>6, <1>7, <1>8, <1>9, <1>10, <1>11, <1>12, <1>13,
           <1>14, <1>15, <1>16 DEF AllActions, Actions

LEMMA PlacesHaveActions ==
    ASSUME NEW action, NEW i, NEW s, NEW j, <<i, s, j>> \in Places(action)
    PROVE  action \in AllActions
  BY Zenon DEF Places, AllActions, Actions
-----------------------------------------------------------------------------
\* The symbols of a production that replaces a nonterminal at place i stand at
\* the places l, and whatever the analyzer waits for at i it waits for then.
First(production, j, l) == IF Len(production) = 0 THEN j ELSE l[1]
Unfolds(production, i, j, l, action) ==
    /\ \A k \in DOMAIN production :
          <<l[k], production[k], IF k = Len(production) THEN j ELSE l[k + 1]>> \in Places(action)
    /\ \A state, above : <<state, above, i>> \in Rows(action) =>
          <<state, above, First(production, j, l)>> \in Rows(action)

LEMMA UnfoldsToOne ==
    ASSUME NEW t, NEW i, NEW j, NEW action, <<i, t, j>> \in Places(action)
    PROVE  Unfolds(<<t>>, i, j, <<i>>, action)
  BY DEF Unfolds, First

LEMMA UnfoldsToNothing ==
    ASSUME NEW i, NEW j, NEW action,
           \A state, above : <<state, above, i>> \in Rows(action) => <<state, above, j>> \in Rows(action)
    PROVE  Unfolds(<< >>, i, j, << >>, action)
  BY DEF Unfolds, First

LEMMA ProgramRulesUnfold ==
    ASSUME NEW r \in ProgramRules, r.sem_action = "none", NEW action, NEW i, NEW j,
           <<i, r.for_nt, j>> \in Places(action)
    PROVE  \E l : Unfolds(r.production, i, j, l, action)
<1>1. action \in AllActions
  BY PlacesHaveActions
<1>2. \/ r.for_nt = "NT_LINE"
         /\ r.production = <<"NT_GLOBAL_STMT", "NT_SCOPE_STMT", "NT_LINE_END">>
      \/ r.for_nt = "NT_LINE_END" /\ r.production \in {<<"EOL", "NT_LINE_END">>, << >>}
      \/ r.for_nt = "NT_GLOBAL_STMT"
         /\ r.production \in {<<"NT_FUNC_DECL", "EOL", "NT_GLOBAL_STMT">>,
                              <<"NT_FUNC_DEF", "EOL", "NT_GLOBAL_STMT">>,
                              <<"NT_SHARED_VAR", "EOL", "NT_GLOBAL_STMT">>,
                              <<"EOL", "NT_GLOBAL_STMT">>, << >>}
  BY SMTT(30) DEF ProgramRules, Rule
<1>3. CASE r.for_nt = "NT_LINE" /\ r.production = <<"NT_GLOBAL_STMT", "NT_SCOPE_STMT", "NT_LINE_END">>
  <2>1. <<action, i, j>> = <<"program", 10, 1>>
    BY <1>1, <1>3, WhereNonterminals
  <2>2. \A state, above : <<state, above, i>> \notin Rows(action)
    BY <2>1, RowsHaveActions DEF Actions
  <2>3. Unfolds(r.production, i, j, <<9, 8, 7>>, action)
    BY <1>3, <2>1, <2>2, Tabled DEF Unfolds, First, ProgramPlaces
  <2> QED BY <2>3
<1>4. CASE r.for_nt = "NT_LINE_END" /\ r.production = <<"EOL", "NT_LINE_END">>
  <2>1. <<action, i, j>> = <<"program", 7, 1>>
    BY <1>1, <1>4, WhereNonterminals
  <2>2. \A state, above : <<state, above, i>> \notin Rows(action)
    BY <2>1, RowsHaveActions DEF Actions
  <2>3. Unfolds(r.production, i, j, <<6, 7>>, action)
    BY <1>4, <2>1, <2>2, Tabled DEF Unfolds, First, ProgramPlaces
  <2> QED BY <2>3
<1>5. CASE r.for_nt = "NT_LINE_END" /\ r.production = << >>
  <2>1. <<action, i, j>> = <<"program", 7, 1>>
    BY <1>1, <1>5, WhereNonterminals
  <2>2. \A state, above : <<state, above, i>> \notin Rows(action)
    BY <2>1, RowsHaveActions DEF Actions
  <2> QED BY <1>5, <2>2, UnfoldsToNothing
<1>6. CASE r.for_nt = "NT_GLOBAL_STMT" /\ r.production = <<"NT_FUNC_DECL", "EOL", "NT_GLOBAL_STMT">>
  <2>1. <<action, i, j>> = <<"program", 9, 8>>
    BY <1>1, <1>6, WhereNonterminals
  <2>2. \A state, above : <<state, above, i>> \notin Rows(action)
    BY <2>1, RowsHaveActions DEF Actions
  <2>3. Unfolds(r.production, i, j, <<5, 4, 9>>, action)
    BY <1>6, <2>1, <2>2, Tabled DEF Unfolds, First, ProgramPlaces
  <2> QED BY <2>3
<1>7. CASE r.for_nt = "NT_GLOBAL_STMT" /\ r.production = <<"NT_FUNC_DEF", "EOL", "NT_GLOBAL_STMT">>
  <2>1. <<action, i, j>> = <<"program", 9, 8>>
    BY <1>1, <1>7, WhereNonterminals
  <2>2. \A state, above : <<state, above, i>> \notin Rows(action)
    BY <2>1, RowsHaveActions DEF Actions
  <2>3. Unfolds(r.production, i, j, <<5, 4, 9>>, action)
    BY <1>7, <2>1, <2>2, Tabled DEF Unfolds, First, ProgramPlaces
  <2> QED BY <2>3
<1>8. CASE r.for_nt = "NT_GLOBAL_STMT" /\ r.production = <<"NT_SHARED_VAR", "EOL", "NT_GLOBAL_STMT">>
  <2>1. <<action, i, j>> = <<"program", 9, 8>>
    BY <1>1, <1>8, WhereNonterminals
  <2>2. \A state, above : <<state, above, i>> \notin Rows(action)
    BY <2>1, RowsHaveActions DEF Actions
  <2>3. Unfolds(r.production, i, j, <<5, 4, 9>>, action)
    BY <1>8, <2>1, <2>2, Tabled DEF Unfolds, First, ProgramPlaces
  <2> QED BY <2>3
<1>9. CASE r.for_nt = "NT_GLOBAL_STMT" /\ r.production = <<"EOL", "NT_GLOBAL_STMT">>
  <2>1. <<action, i, j>> = <<"program", 9, 8>>
    BY <1>1, <1>9, WhereNonterminals
  <2>2. \A state, above : <<state, above, i>> \notin Rows(action)
    BY <2>1, RowsHaveActions DEF Actions
  <2>3. Unfolds(r.production, i, j, <<4, 9>>, action)
    BY <1>9, <2>1, <2>2, Tabled DEF Unfolds, First, ProgramPlaces
  <2> QED BY <2>3
<1>10. CASE r.for_nt = "NT_GLOBAL_STMT" /\ r.production = << >>
  <2>1. <<action, i, j>> = <<"program", 9, 8>>
    BY <1>1, <1>10, WhereNonterminals
  <2>2. \A state, above : <<state, above, i>> \notin Rows(action)
    BY <2>1, RowsHaveActions DEF Actions
  <2> QED BY <1>10, <2>2, UnfoldsToNothing
<1> QED BY <1>2, <1>3, <1>4, <1>5, <1>6, <1>7, <1>8, <1>9, <1>10

LEMMA StatementRulesUnfold ==
    ASSUME NEW r \in StatementRules, r.sem_action = "none", NEW action, NEW i, NEW j,
           <<i, r.for_nt, j>> \in Places(action)
    PROVE  \E l : Unfolds(r.production, i, j, l, action)
<1>1. action \in AllActions
  BY PlacesHaveActions
<1>2. \/ r.for_nt = "NT_STMT_SEQ"
         /\ r.production \in {<<"NT_INNER_STMT", "EOL", "NT_STMT_SEQ">>, << >>}
      \/ r.for_nt = "NT_INNER_STMT"
         /\ (r.production = << >> \/ \E t \in Statements : r.production = <<t>>)
  BY SMTT(30) DEF StatementRules, Rule, Statements
<1>3. CASE r.for_nt = "NT_STMT_SEQ" /\ r.production = <<"NT_INNER_STMT", "EOL", "NT_STMT_SEQ">>
  <2>1. <<action, i, j>> \in {<<"sem_scope", 3, 2>>, <<"sem_condition", 5, 4>>,
                              <<"sem_condition", 12, 2>>, <<"sem_do_loop", 4, 3>>,
                              <<"sem_do_loop", 12, 11>>, <<"sem_for_loop", 3, 2>>,
                              <<"sem_func_def", 3, 2>>}
    BY <1>1, <1>3, WhereNonterminals
  <2>2. CASE <<action, i, j>> = <<"sem_scope", 3, 2>>
    <3>1. Unfolds(r.production, i, j, <<6, 4, 3>>, action)
      BY <1>3, <2>2, Tabled DEF Unfolds, First, ScopePlaces, ScopeRows, Statements
    <3> QED BY <3>1
  <2>3. CASE <<action, i, j>> = <<"sem_condition", 5, 4>>
    <3>1. Unfolds(r.production, i, j, <<10, 6, 5>>, action)
      BY <1>3, <2>3, Tabled DEF Unfolds, First, ConditionPlaces, ConditionRows, Statements
    <3> QED BY <3>1
  <2>4. CASE <<action, i, j>> = <<"sem_condition", 12, 2>>
    <3>1. Unfolds(r.production, i, j, <<15, 13, 12>>, action)
      BY <1>3, <2>4, Tabled DEF Unfolds, First, ConditionPlaces, ConditionRows, Statements
    <3> QED BY <3>1
  <2>5. CASE <<action, i, j>> = <<"sem_do_loop", 4, 3>>
    <3>1. Unfolds(r.production, i, j, <<6, 5, 4>>, action)
      BY <1>3, <2>5, Tabled DEF Unfolds, First, DoPlaces, DoRows, Statements
    <3> QED BY <3>1
  <2>6. CASE <<action, i, j>> = <<"sem_do_loop", 12, 11>>
    <3>1. Unfolds(r.production, i, j, <<16, 13, 12>>, action)
      BY <1>3, <2>6, Tabled DEF Unfolds, First, DoPlaces, DoRows, Statements
    <3> QED BY <3>1
  <2>7. CASE <<action, i, j>> = <<"sem_for_loop", 3, 2>>
    <3>1. Unfolds(r.production, i, j, <<17, 4, 3>>, action)
      BY <1>3, <2>7, Tabled DEF Unfolds, First, ForPlaces, ForRows, Statements, TypeSymbols, Types
    <3> QED BY <3>1
  <2>8. CASE <<action, i, j>> = <<"sem_func_def", 3, 2>>
    <3>1. Unfolds(r.production, i, j, <<15, 4, 3>>, action)
      BY <1>3, <2>8, Tabled DEF Unfolds, First, DefPlaces, DefRows, Statements, TypeSymbols, Types
    <3> QED BY <3>1
  <2> QED BY <2>1, <2>2, <2>3, <2>4, <2>5, <2>6, <2>7, <2>8
<1>4. CASE r.for_nt = "NT_STMT_SEQ" /\ r.production = << >>
  <2>1. <<action, i, j>> \in {<<"sem_scope", 3, 2>>, <<"sem_condition", 5, 4>>,
                              <<"sem_condition", 12, 2>>, <<"sem_do_loop", 4, 3>>,
                              <<"sem_do_loop", 12, 11>>, <<"sem_for_loop", 3, 2>>,
                              <<"sem_func_def", 3, 2>>}
    BY <1>1, <1>4, WhereNonterminals
  <2>2. \A state, above : <<state, above, i>> \in Rows(action) => <<state, above, j>> \in Rows(action)
    BY <2>1, Tabled DEF ScopeRows, ConditionRows, DoRows, ForRows, DefRows
  <2> QED BY <1>4, <2>2, UnfoldsToNothing
<1>5. CASE r.for_nt = "NT_INNER_STMT" /\ r.production = << >>
  BY <1>1, <1>5, WhereClasses, UnfoldsToNothing
<1>6. CASE r.for_nt = "NT_INNER_STMT" /\ \E t \in Statements : r.production = <<t>>
  BY <1>1, <1>6, WhereClasses, UnfoldsToOne
<1> QED BY <1>2, <1>3, <1>4, <1>5, <1>6

LEMMA DeclarationRulesUnfold ==
    ASSUME NEW r \in DeclarationRules, r.sem_action = "none", NEW action, NEW i, NEW j,
           <<i, r.for_nt, j>> \in Places(action)
    PROVE  \E l : Unfolds(r.production, i, j, l, action)
<1>1. action \in AllActions
  BY PlacesHaveActions
<1>2. \/ r.for_nt = "NT_VAR_DEF"
         /\ r.production = <<"IDENTIFIER", "AS", "NT_TYPE", "NT_INIT_OPT">>
      \/ r.for_nt = "NT_INIT_OPT" /\ r.production \in {<<"EQUAL", "NT_EXPRESSION">>, << >>}
      \/ r.for_nt = "NT_PARAMS"
         /\ r.production \in {<<"NT_PARAM_DECL", "NT_PARAMS_NEXT">>, << >>}
      \/ r.for_nt = "NT_PARAMS_NEXT"
         /\ r.production \in {<<"COMMA", "NT_PARAM_DECL", "NT_PARAMS_NEXT">>, << >>}
      \/ r.for_nt = "NT_TYPE" /\ \E t \in Types : r.production = <<t>>
  BY SMTT(30) DEF DeclarationRules, Rule, Tokens
<1>3. CASE r.for_nt = "NT_VAR_DEF" /\ r.production = <<"IDENTIFIER", "AS", "NT_TYPE", "NT_INIT_OPT">>
  <2>1. <<action, i, j>> = <<"sem_var_decl", 6, 0>>
    BY <1>1, <1>3, WhereNonterminals
  <2>3. Unfolds(r.production, i, j, <<5, 4, 3, 2>>, action)
    BY <1>3, <2>1, Tabled DEF Unfolds, First, VarPlaces, VarRows, TypeSymbols, Types
  <2> QED BY <2>3
<1>4. CASE r.for_nt = "NT_INIT_OPT" /\ r.production = <<"EQUAL", "NT_EXPRESSION">>
  <2>1. <<action, i, j>> = <<"sem_var_decl", 2, 0>>
    BY <1>1, <1>4, WhereNonterminals
  <2>3. Unfolds(r.production, i, j, <<1, 10>>, action)
    BY <1>4, <2>1, Tabled DEF Unfolds, First, VarPlaces, VarRows, TypeSymbols, Types
  <2> QED BY <2>3
<1>5. CASE r.for_nt = "NT_INIT_OPT" /\ r.production = << >>
  <2>1. <<action, i, j>> = <<"sem_var_decl", 2, 0>>
    BY <1>1, <1>5, WhereNonterminals
  <2>2. \A state, above : <<state, above, i>> \in Rows(action) => <<state, above, j>> \in Rows(action)
    BY <2>1, Tabled DEF VarRows
  <2> QED BY <1>5, <2>2, UnfoldsToNothing
<1>6. CASE r.for_nt = "NT_PARAMS" /\ r.production = <<"NT_PARAM_DECL", "NT_PARAMS_NEXT">>
  <2>1. <<action, i, j>> \in {<<"sem_func_decl", 6, 5>>, <<"sem_func_def", 8, 7>>}
    BY <1>1, <1>6, WhereNonterminals
  <2>2. CASE <<action, i, j>> = <<"sem_func_decl", 6, 5>>
    <3>1. Unfolds(r.production, i, j, <<11, 12>>, action)
      BY <1>6, <2>2, Tabled DEF Unfolds, First, DeclPlaces, DeclRows, TypeSymbols, Types
    <3> QED BY <3>1
  <2>3. CASE <<action, i, j>> = <<"sem_func_def", 8, 7>>
    <3>1. Unfolds(r.production, i, j, <<12, 13>>, action)
      BY <1>6, <2>3, Tabled DEF Unfolds, First, DefPlaces, DefRows, Statements, TypeSymbols, Types
    <3> QED BY <3>1
  <2> QED BY <2>1, <2>2, <2>3
<1>7. CASE r.for_nt = "NT_PARAMS" /\ r.production = << >>
  <2>1. <<action, i, j>> \in {<<"sem_func_decl", 6, 5>>, <<"sem_func_def", 8, 7>>}
    BY <1>1, <1>7, WhereNonterminals
  <2>2. \A state, above : <<state, above, i>> \in Rows(action) => <<state, above, j>> \in Rows(action)
    BY <2>1, Tabled DEF DeclRows, DefRows
  <2> QED BY <1>7, <2>2, UnfoldsToNothing
<1>8. CASE r.for_nt = "NT_PARAMS_NEXT" /\ r.production = <<"COMMA", "NT_PARAM_DECL", "NT_PARAMS_NEXT">>
  <2>1. <<action, i, j>> \in {<<"sem_func_decl", 12, 5>>, <<"sem_func_def", 13, 7>>}
    BY <1>1, <1>8, WhereNonterminals
  <2>2. CASE <<action, i, j>> = <<"sem_func_decl", 12, 5>>
    <3>1. Unfolds(r.production, i, j, <<13, 11, 12>>, action)
      BY <1>8, <2>2, Tabled DEF Unfolds, First, DeclPlaces, DeclRows, TypeSymbols, Types
    <3> QED BY <3>1
  <2>3. CASE <<action, i, j>> = <<"sem_func_def", 13, 7>>
    <3>1. Unfolds(r.production, i, j, <<14, 12, 13>>, action)
      BY <1>8, <2>3, Tabled DEF Unfolds, First, DefPlaces, DefRows, Statements, TypeSymbols, Types
    <3> QED BY <3>1
  <2> QED BY <2>1, <2>2, <2>3
<1>9. CASE r.for_nt = "NT_PARAMS_NEXT" /\ r.production = << >>
  <2>1. <<action, i, j>> \in {<<"sem_func_decl", 12, 5>>, <<"sem_func_def", 13, 7>>}
    BY <1>1, <1>9, WhereNonterminals
  <2>2. \A state, above : <<state, above, i>> \in Rows(action) => <<state, above, j>> \in Rows(action)
    BY <2>1, Tabled DEF DeclRows, DefRows
  <2> QED BY <1>9, <2>2, UnfoldsToNothing
<1>10. CASE r.for_nt = "NT_TYPE" /\ \E t \in Types : r.production = <<t>>
  BY <1>1, <1>10, WhereClasses, UnfoldsToOne
<1> QED BY <1>2, <1>3, <1>4, <1>5, <1>6, <1>7, <1>8, <1>9, <1>10

LEMMA SimpleRulesUnfold ==
    ASSUME NEW r \in SimpleRules, r.sem_action = "none", NEW action, NEW i, NEW j,
           <<i, r.for_nt, j>> \in Places(action)
    PROVE  \E l : Unfolds(r.production, i, j, l, action)
<1>1. action \in AllActions
  BY PlacesHaveActions
<1>2. \/ r.for_nt = "NT_EXPRESSION_LIST"
         /\ r.production \in {<<"NT_EXPRESSION", "SEMICOLON", "NT_EXPRESSION_LIST">>, << >>}
      \/ r.for_nt = "NT_ASSIGN_OPERATOR" /\ \E t \in AssignOperators : r.production = <<t>>
  BY SMTT(30) DEF SimpleRules, Rule, Tokens
<1>3. CASE r.for_nt = "NT_EXPRESSION_LIST" /\ r.production = <<"NT_EXPRESSION", "SEMICOLON", "NT_EXPRESSION_LIST">>
  <2>1. <<action, i, j>> = <<"sem_print", 1, 0>>
    BY <1>1, <1>3, WhereNonterminals
  <2>3. Unfolds(r.production, i, j, <<3, 2, 1>>, action)
    BY <1>3, <2>1, Tabled DEF Unfolds, First, PrintPlaces, PrintRows
  <2> QED BY <2>3
<1>4. CASE r.for_nt = "NT_EXPRESSION_LIST" /\ r.production = << >>
  <2>1. <<action, i, j>> = <<"sem_print", 1, 0>>
    BY <1>1, <1>4, WhereNonterminals
  <2>2. \A state, above : <<state, above, i>> \in Rows(action) => <<state, above, j>> \in Rows(action)
    BY <2>1, Tabled DEF PrintRows
  <2> QED BY <1>4, <2>2, UnfoldsToNothing
<1>5. CASE r.for_nt = "NT_ASSIGN_OPERATOR" /\ \E t \in AssignOperators : r.production = <<t>>
  BY <1>1, <1>5, WhereClasses, UnfoldsToOne
<1> QED BY <1>2, <1>3, <1>4, <1>5

LEMMA ConditionRulesUnfold ==
    ASSUME NEW r \in ConditionRules, r.sem_action = "none", NEW action, NEW i, NEW j,
           <<i, r.for_nt, j>> \in Places(action)
    PROVE  \E l : Unfolds(r.production, i, j, l, action)
<1>1. action \in AllActions
  BY PlacesHaveActions
<1>2. \/ r.for_nt = "NT_IF_STMT_ELSEIF"
         /\ r.production \in {<<"ELSEIF", "NT_EXPRESSION", "THEN", "EOL", "NT_STMT_SEQ", "NT_IF_STMT_ELSEIF">>,
                              << >>}
      \/ r.for_nt = "NT_IF_STMT_ELSE"
         /\ r.production \in {<<"ELSE", "EOL", "NT_STMT_SEQ">>, << >>}
  BY SMTT(30) DEF ConditionRules, Rule
<1>3. CASE /\ r.for_nt = "NT_IF_STMT_ELSEIF"
          /\ r.production = <<"ELSEIF", "NT_EXPRESSION", "THEN", "EOL", "NT_STMT_SEQ", "NT_IF_STMT_ELSEIF">>
  <2>1. <<action, i, j>> = <<"sem_condition", 4, 3>>
    BY <1>1, <1>3, WhereNonterminals
  <2>3. Unfolds(r.production, i, j, <<11, 8, 7, 6, 5, 4>>, action)
    BY <1>3, <2>1, Tabled DEF Unfolds, First, ConditionPlaces, ConditionRows, Statements
  <2> QED BY <2>3
<1>4. CASE r.for_nt = "NT_IF_STMT_ELSEIF" /\ r.production = << >>
  <2>1. <<action, i, j>> = <<"sem_condition", 4, 3>>
    BY <1>1, <1>4, WhereNonterminals
  <2>2. \A state, above : <<state, above, i>> \in Rows(action) => <<state, above, j>> \in Rows(action)
    BY <2>1, Tabled DEF ConditionRows
  <2> QED BY <1>4, <2>2, UnfoldsToNothing
<1>5. CASE r.for_nt = "NT_IF_STMT_ELSE" /\ r.production = <<"ELSE", "EOL", "NT_STMT_SEQ">>
  <2>1. <<action, i, j>> = <<"sem_condition", 3, 2>>
    BY <1>1, <1>5, WhereNonterminals
  <2>3. Unfolds(r.production, i, j, <<14, 13, 12>>, action)
    BY <1>5, <2>1, Tabled DEF Unfolds, First, ConditionPlaces, ConditionRows, Statements
  <2> QED BY <2>3
<1>6. CASE r.for_nt = "NT_IF_STMT_ELSE" /\ r.production = << >>
  <2>1. <<action, i, j>> = <<"sem_condition", 3, 2>>
    BY <1>1, <1>6, WhereNonterminals
  <2>2. \A state, above : <<state, above, i>> \in Rows(action) => <<state, above, j>> \in Rows(action)
    BY <2>1, Tabled DEF ConditionRows
  <2> QED BY <1>6, <2>2, UnfoldsToNothing
<1> QED BY <1>2, <1>3, <1>4, <1>5, <1>6

LEMMA LoopRulesUnfold ==
    ASSUME NEW r \in LoopRules, r.sem_action = "none", NEW action, NEW i, NEW j,
           <<i, r.for_nt, j>> \in Places(action)
    PROVE  \E l : Unfolds(r.production, i, j, l, action)
<1>1. action \in AllActions
  BY PlacesHaveActions
<1>2. \/ r.for_nt = "NT_DO_STMT_END"
         /\ r.production \in {<<"NT_TEST_TYPE_START", "NT_EXPRESSION", "EOL", "NT_STMT_SEQ", "LOOP">>,
                              <<"EOL", "NT_STMT_SEQ", "LOOP", "NT_TEST_TYPE_END">>}
      \/ r.for_nt = "NT_TEST_TYPE_END"
         /\ r.production \in {<<"WHILE", "NT_EXPRESSION">>, <<"UNTIL", "NT_EXPRESSION">>, << >>}
      \/ r.for_nt = "NT_LOOP_TYPE_END"
         /\ r.production \in {<<"COMMA", "NT_LOOP_TYPE", "NT_LOOP_TYPE_END">>, << >>}
      \/ r.for_nt = "NT_TYPE_OPT" /\ r.production \in {<<"AS", "NT_TYPE">>, << >>}
      \/ r.for_nt = "NT_STEP_OPT" /\ r.production \in {<<"STEP", "NT_EXPRESSION">>, << >>}
      \/ r.for_nt = "NT_ID_OPT" /\ r.production \in {<<"IDENTIFIER">>, << >>}
      \/ r.for_nt = "NT_TEST_TYPE_START" /\ \E t \in {"WHILE", "UNTIL"} : r.production = <<t>>
      \/ r.for_nt = "NT_LOOP_TYPE" /\ \E t \in {"DO", "FOR"} : r.production = <<t>>
  BY SMTT(30) DEF LoopRules, Rule, Tokens
<1>3. CASE /\ r.for_nt = "NT_DO_STMT_END"
          /\ r.production = <<"NT_TEST_TYPE_START", "NT_EXPRESSION", "EOL", "NT_STMT_SEQ", "LOOP">>
  <2>1. <<action, i, j>> = <<"sem_do_loop", 19, 0>>
    BY <1>1, <1>3, WhereNonterminals
  <2>3. Unfolds(r.production, i, j, <<15, 14, 13, 12, 11>>, action)
    BY <1>3, <2>1, Tabled DEF Unfolds, First, DoPlaces, DoRows, Statements
  <2> QED BY <2>3
<1>4. CASE r.for_nt = "NT_DO_STMT_END" /\ r.production = <<"EOL", "NT_STMT_SEQ", "LOOP", "NT_TEST_TYPE_END">>
  <2>1. <<action, i, j>> = <<"sem_do_loop", 19, 0>>
    BY <1>1, <1>4, WhereNonterminals
  <2>3. Unfolds(r.production, i, j, <<5, 4, 3, 2>>, action)
    BY <1>4, <2>1, Tabled DEF Unfolds, First, DoPlaces, DoRows, Statements
  <2> QED BY <2>3
<1>5. CASE r.for_nt = "NT_TEST_TYPE_END" /\ r.production = <<"WHILE", "NT_EXPRESSION">>
  <2>1. <<action, i, j>> = <<"sem_do_loop", 2, 0>>
    BY <1>1, <1>5, WhereNonterminals
  <2>3. Unfolds(r.production, i, j, <<8, 7>>, action)
    BY <1>5, <2>1, Tabled DEF Unfolds, First, DoPlaces, DoRows, Statements
  <2> QED BY <2>3
<1>6. CASE r.for_nt = "NT_TEST_TYPE_END" /\ r.production = <<"UNTIL", "NT_EXPRESSION">>
  <2>1. <<action, i, j>> = <<"sem_do_loop", 2, 0>>
    BY <1>1, <1>6, WhereNonterminals
  <2>3. Unfolds(r.production, i, j, <<8, 7>>, action)
    BY <1>6, <2>1, Tabled DEF Unfolds, First, DoPlaces, DoRows, Statements
  <2> QED BY <2>3
<1>7. CASE r.for_nt = "NT_TEST_TYPE_END" /\ r.production = << >>
  <2>1. <<action, i, j>> = <<"sem_do_loop", 2, 0>>
    BY <1>1, <1>7, WhereNonterminals
  <2>2. \A state, above : <<state, above, i>> \in Rows(action) => <<state, above, j>> \in Rows(action)
    BY <2>1, Tabled DEF DoRows
  <2> QED BY <1>7, <2>2, UnfoldsToNothing
<1>8. CASE r.for_nt = "NT_LOOP_TYPE_END" /\ r.production = <<"COMMA", "NT_LOOP_TYPE", "NT_LOOP_TYPE_END">>
  <2>1. <<action, i, j>> \in {<<"sem_exit", 3, 0>>, <<"sem_continue", 3, 0>>}
    BY <1>1, <1>8, WhereNonterminals
  <2>3. Unfolds(r.production, i, j, <<2, 4, 3>>, action)
    BY <1>8, <2>1, Tabled DEF Unfolds, First, JumpPlaces, JumpRows
  <2> QED BY <2>3
<1>9. CASE r.for_nt = "NT_LOOP_TYPE_END" /\ r.production = << >>
  <2>1. <<action, i, j>> \in {<<"sem_exit", 3, 0>>, <<"sem_continue", 3, 0>>}
    BY <1>1, <1>9, WhereNonterminals
  <2>2. \A state, above : <<state, above, i>> \in Rows(action) => <<state, above, j>> \in Rows(action)
    BY <2>1, Tabled DEF JumpRows
  <2> QED BY <1>9, <2>2, UnfoldsToNothing
<1>10. CASE r.for_nt = "NT_TYPE_OPT" /\ r.production = <<"AS", "NT_TYPE">>
  <2>1. <<action, i, j>> = <<"sem_for_loop", 10, 9>>
    BY <1>1, <1>10, WhereNonterminals
  <2>3. Unfolds(r.production, i, j, <<14, 13>>, action)
    BY <1>10, <2>1, Tabled DEF Unfolds, First, ForPlaces, ForRows, Statements, TypeSymbols, Types
  <2> QED BY <2>3
<1>11. CASE r.for_nt = "NT_TYPE_OPT" /\ r.production = << >>
  <2>1. <<action, i, j>> = <<"sem_for_loop", 10, 9>>
    BY <1>1, <1>11, WhereNonterminals
  <2>2. \A state, above : <<state, above, i>> \in Rows(action) => <<state, above, j>> \in Rows(action)
    BY <2>1, Tabled DEF ForRows
  <2> QED BY <1>11, <2>2, UnfoldsToNothing
<1>12. CASE r.for_nt = "NT_STEP_OPT" /\ r.production = <<"STEP", "NT_EXPRESSION">>
  <2>1. <<action, i, j>> = <<"sem_for_loop", 5, 4>>
    BY <1>1, <1>12, WhereNonterminals
  <2>3. Unfolds(r.production, i, j, <<16, 15>>, action)
    BY <1>12, <2>1, Tabled DEF Unfolds, First, ForPlaces, ForRows, Statements, TypeSymbols, Types
  <2> QED BY <2>3
<1>13. CASE r.for_nt = "NT_STEP_OPT" /\ r.production = << >>
  <2>1. <<action, i, j>> = <<"sem_for_loop", 5, 4>>
    BY <1>1, <1>13, WhereNonterminals
  <2>2. \A state, above : <<state, above, i>> \in Rows(action) => <<state, above, j>> \in Rows(action)
    BY <2>1, Tabled DEF ForRows
  <2> QED BY <1>13, <2>2, UnfoldsToNothing
<1>14. CASE r.for_nt = "NT_ID_OPT" /\ r.production = <<"IDENTIFIER">>
  <2>1. <<action, i, j>> = <<"sem_for_loop", 1, 0>>
    BY <1>1, <1>14, WhereNonterminals
  <2>3. Unfolds(r.production, i, j, <<1>>, action)
    BY <1>14, <2>1, Tabled DEF Unfolds, First, ForPlaces, ForRows, Statements, TypeSymbols, Types
  <2> QED BY <2>3
<1>15. CASE r.for_nt = "NT_ID_OPT" /\ r.production = << >>
  <2>1. <<action, i, j>> = <<"sem_for_loop", 1, 0>>
    BY <1>1, <1>15, WhereNonterminals
  <2>2. \A state, above : <<state, above, i>> \in Rows(action) => <<state, above, j>> \in Rows(action)
    BY <2>1, Tabled DEF ForRows
  <2> QED BY <1>15, <2>2, UnfoldsToNothing
<1>16. CASE r.for_nt = "NT_TEST_TYPE_START" /\ \E t \in {"WHILE", "UNTIL"} : r.production = <<t>>
  BY <1>1, <1>16, WhereClasses, UnfoldsToOne
<1>17. CASE r.for_nt = "NT_LOOP_TYPE" /\ \E t \in {"DO", "FOR"} : r.production = <<t>>
  BY <1>1, <1>17, WhereClasses, UnfoldsToOne
<1> QED BY <1>2, <1>3, <1>4, <1>5, <1>6, <1>7, <1>8, <1>9, <1>10, <1>11, <1>12, <1>13, <1>14,
           <1>15, <1>16, <1>17

LEMMA RulesUnfold ==
    ASSUME NEW r \in grammar_rules, r.sem_action = "none", NEW action, NEW i, NEW j,
           <<i, r.for_nt, j>> \in Places(action)
    PROVE  \E l : Unfolds(r.production, i, j, l, action)
  BY ProgramRulesUnfold, StatementRulesUnfold, DeclarationRulesUnfold, SimpleRulesUnfold, ConditionRulesUnfold, LoopRulesUnfold DEF grammar_rules
-----------------------------------------------------------------------------
\* The analyzer of a rule with an action starts at the first of the places l
\* of its production.
Begins(production, action, l) ==
    /\ action \in Actions /\ Len(production) \in Nat \ {0} /\ DOMAIN production = 1 .. Len(production)
    /\ \A k \in DOMAIN production :
          <<l[k], production[k], IF k = Len(production) THEN 0 ELSE l[k + 1]>> \in Places(action)
    /\ <<"START", "none", l[1]>> \in Rows(action)

Starters == Statements \cup {"NT_SHARED_VAR", "NT_FUNC_DECL", "NT_FUNC_DEF", "NT_PARAM_DECL"}
ActionOf(nt) ==
    CASE nt \in {"NT_VAR_DECL", "NT_SHARED_VAR"} -> "sem_var_decl"
      [] nt = "NT_FUNC_DECL" -> "sem_func_decl" [] nt = "NT_FUNC_DEF" -> "sem_func_def"
      [] nt = "NT_PARAM_DECL" -> "sem_param_decl" [] nt = "NT_RETURN_STMT" -> "sem_return"
      [] nt = "NT_ASSIGNMENT" -> "sem_expr_assign" [] nt = "NT_INPUT_STMT" -> "sem_input"
      [] nt = "NT_PRINT_STMT" -> "sem_print" [] nt = "NT_SCOPE_STMT" -> "sem_scope"
      [] nt = "NT_IF_STMT" -> "sem_condition" [] nt = "NT_DO_STMT" -> "sem_do_loop"
      [] nt = "NT_EXIT_STMT" -> "sem_exit" [] nt = "NT_CONTINUE_STMT" -> "sem_continue"
      [] nt = "NT_FOR_STMT" -> "sem_for_loop" [] OTHER -> "none"

LEMMA RulesBegin ==
    ASSUME NEW r \in grammar_rules, r.sem_action # "none"
    PROVE  /\ r.for_nt \in Starters /\ r.sem_action = ActionOf(r.for_nt)
           /\ \E l : Begins(r.production, r.sem_action, l)
<1> DEFINE Fine(nt, action, production) ==
             nt \in Starters /\ action = ActionOf(nt) /\ \E l : Begins(production, action, l)
<1>1. CASE r \in DeclarationRules
  <2>0. \/ /\ r.for_nt = "NT_VAR_DECL" /\ r.sem_action = "sem_var_decl"
              /\ r.production = <<"DIM", "NT_VAR_DEF">>
        \/ /\ r.for_nt = "NT_VAR_DECL" /\ r.sem_action = "sem_var_decl"
              /\ r.production = <<"STATIC", "NT_VAR_DEF">>
        \/ /\ r.for_nt = "NT_SHARED_VAR" /\ r.sem_action = "sem_var_decl"
              /\ r.production = <<"DIM", "SHARED", "NT_VAR_DEF">>
        \/ /\ r.for_nt = "NT_FUNC_DECL" /\ r.sem_action = "sem_func_decl"
              /\ r.production = <<"DECLARE", "FUNCTION", "IDENTIFIER", "LPAR", "NT_PARAMS", "RPAR",
                                 "AS", "NT_TYPE">>
        \/ /\ r.for_nt = "NT_FUNC_DEF" /\ r.sem_action = "sem_func_def"
              /\ r.production = <<"FUNCTION", "IDENTIFIER", "LPAR", "NT_PARAMS", "RPAR", "AS",
                                 "NT_TYPE", "EOL", "NT_STMT_SEQ", "END", "FUNCTION">>
        \/ /\ r.for_nt = "NT_PARAM_DECL" /\ r.sem_action = "sem_param_decl"
              /\ r.production = <<"IDENTIFIER", "AS", "NT_TYPE">>
    BY <1>1, SMTT(60) DEF DeclarationRules, Rule, Tokens
  <2>1. CASE /\ r.for_nt = "NT_VAR_DECL" /\ r.sem_action = "sem_var_decl"
             /\ r.production = <<"DIM", "NT_VAR_DEF">>
    <3>1. Begins(r.production, r.sem_action, <<8, 6>>)
      BY <2>1, Tabled DEF Begins, Actions, VarPlaces, VarRows, TypeSymbols, Types
    <3> QED BY <2>1, <3>1 DEF Starters, Statements, ActionOf
  <2>2. CASE /\ r.for_nt = "NT_VAR_DECL" /\ r.sem_action = "sem_var_decl"
             /\ r.production = <<"STATIC", "NT_VAR_DEF">>
    <3>1. Begins(r.production, r.sem_action, <<8, 6>>)
      BY <2>2, Tabled DEF Begins, Actions, VarPlaces, VarRows, TypeSymbols, Types
    <3> QED BY <2>2, <3>1 DEF Starters, Statements, ActionOf
  <2>3. CASE /\ r.for_nt = "NT_SHARED_VAR" /\ r.sem_action = "sem_var_decl"
             /\ r.production = <<"DIM", "SHARED", "NT_VAR_DEF">>
    <3>1. Begins(r.production, r.sem_action, <<9, 7, 6>>)
      BY <2>3, Tabled DEF Begins, Actions, VarPlaces, VarRows, TypeSymbols, Types
    <3> QED BY <2>3, <3>1 DEF Starters, Statements, ActionOf
  <2>4. CASE /\ r.for_nt = "NT_FUNC_DECL" /\ r.sem_action = "sem_func_decl"
             /\ r.production = <<"DECLARE", "FUNCTION", "IDENTIFIER", "LPAR", "NT_PARAMS", "RPAR",
                                "AS", "NT_TYPE">>
    <3>1. Begins(r.production, r.sem_action, <<10, 9, 8, 7, 6, 5, 4, 3>>)
      BY <2>4, Tabled DEF Begins, Actions, DeclPlaces, DeclRows, TypeSymbols, Types
    <3> QED BY <2>4, <3>1 DEF Starters, Statements, ActionOf
  <2>5. CASE /\ r.for_nt = "NT_FUNC_DEF" /\ r.sem_action = "sem_func_def"
             /\ r.production = <<"FUNCTION", "IDENTIFIER", "LPAR", "NT_PARAMS", "RPAR", "AS",
                                "NT_TYPE", "EOL", "NT_STMT_SEQ", "END", "FUNCTION">>
    <3>1. Begins(r.production, r.sem_action, <<11, 10, 9, 8, 7, 6, 5, 4, 3, 2, 1>>)
      BY <2>5, Tabled DEF Begins, Actions, DefPlaces, DefRows, Statements, TypeSymbols, Types
    <3> QED BY <2>5, <3>1 DEF Starters, Statements, ActionOf
  <2>6. CASE /\ r.for_nt = "NT_PARAM_DECL" /\ r.sem_action = "sem_param_decl"
             /\ r.production = <<"IDENTIFIER", "AS", "NT_TYPE">>
    <3>1. Begins(r.production, r.sem_action, <<4, 3, 2>>)
      BY <2>6, Tabled DEF Begins, Actions, ParamPlaces, ParamRows, TypeSymbols, Types
    <3> QED BY <2>6, <3>1 DEF Starters, Statements, ActionOf
  <2> QED BY <2>0, <2>1, <2>2, <2>3, <2>4, <2>5, <2>6
<1>2. CASE r \in SimpleRules
  <2>0. \/ /\ r.for_nt = "NT_RETURN_STMT" /\ r.sem_action = "sem_return"
              /\ r.production = <<"RETURN", "NT_EXPRESSION">>
        \/ /\ r.for_nt = "NT_ASSIGNMENT" /\ r.sem_action = "sem_expr_assign"
              /\ r.production = <<"IDENTIFIER", "NT_ASSIGN_OPERATOR", "NT_EXPRESSION">>
        \/ /\ r.for_nt = "NT_INPUT_STMT" /\ r.sem_action = "sem_input"
              /\ r.production = <<"INPUT", "IDENTIFIER">>
        \/ /\ r.for_nt = "NT_PRINT_STMT" /\ r.sem_action = "sem_print"
              /\ r.production = <<"PRINT", "NT_EXPRESSION", "SEMICOLON", "NT_EXPRESSION_LIST">>
        \/ /\ r.for_nt = "NT_SCOPE_STMT" /\ r.sem_action = "sem_scope"
              /\ r.production = <<"SCOPE", "EOL", "NT_STMT_SEQ", "END", "SCOPE">>
    BY <1>2, SMTT(60) DEF SimpleRules, Rule, Tokens
  <2>1. CASE /\ r.for_nt = "NT_RETURN_STMT" /\ r.sem_action = "sem_return"
             /\ r.production = <<"RETURN", "NT_EXPRESSION">>
    <3>1. Begins(r.production, r.sem_action, <<2, 1>>)
      BY <2>1, Tabled DEF Begins, Actions, ReturnPlaces, ReturnRows
    <3> QED BY <2>1, <3>1 DEF Starters, Statements, ActionOf
  <2>2. CASE /\ r.for_nt = "NT_ASSIGNMENT" /\ r.sem_action = "sem_expr_assign"
             /\ r.production = <<"IDENTIFIER", "NT_ASSIGN_OPERATOR", "NT_EXPRESSION">>
    <3>1. Begins(r.production, r.sem_action, <<3, 2, 1>>)
      BY <2>2, Tabled DEF Begins, Actions, AssignPlaces, AssignRows, AssignOperators
    <3> QED BY <2>2, <3>1 DEF Starters, Statements, ActionOf
  <2>3. CASE /\ r.for_nt = "NT_INPUT_STMT" /\ r.sem_action = "sem_input"
             /\ r.production = <<"INPUT", "IDENTIFIER">>
    <3>1. Begins(r.production, r.sem_action, <<2, 1>>)
      BY <2>3, Tabled DEF Begins, Actions, InputPlaces, InputRows
    <3> QED BY <2>3, <3>1 DEF Starters, Statements, ActionOf
  <2>4. CASE /\ r.for_nt = "NT_PRINT_STMT" /\ r.sem_action = "sem_print"
             /\ r.production = <<"PRINT", "NT_EXPRESSION", "SEMICOLON", "NT_EXPRESSION_LIST">>
    <3>1. Begins(r.production, r.sem_action, <<4, 3, 2, 1>>)
      BY <2>4, Tabled DEF Begins, Actions, PrintPlaces, PrintRows
    <3> QED BY <2>4, <3>1 DEF Starters, Statements, ActionOf
  <2>5. CASE /\ r.for_nt = "NT_SCOPE_STMT" /\ r.sem_action = "sem_scope"
             /\ r.production = <<"SCOPE", "EOL", "NT_STMT_SEQ", "END", "SCOPE">>
    <3>1. Begins(r.production, r.sem_action, <<5, 4, 3, 2, 1>>)
      BY <2>5, Tabled DEF Begins, Actions, ScopePlaces, ScopeRows, Statements
    <3> QED BY <2>5, <3>1 DEF Starters, Statements, ActionOf
  <2> QED BY <2>0, <2>1, <2>2, <2>3, <2>4, <2>5
<1>3. CASE r \in ConditionRules
  <2>0. /\ r.for_nt = "NT_IF_STMT" /\ r.sem_action = "sem_condition"
           /\ r.production = <<"IF", "NT_EXPRESSION", "THEN", "EOL", "NT_STMT_SEQ",
                              "NT_IF_STMT_ELSEIF", "NT_IF_STMT_ELSE", "END", "IF">>
    BY <1>3, SMTT(60) DEF ConditionRules, Rule
  <2>1. Fine(r.for_nt, r.sem_action, r.production)
    <3>1. Begins(r.production, r.sem_action, <<9, 8, 7, 6, 5, 4, 3, 2, 1>>)
      BY <2>0, Tabled DEF Begins, Actions, ConditionPlaces, ConditionRows, Statements
    <3> QED BY <2>0, <3>1 DEF Starters, Statements, ActionOf
  <2> QED BY <2>1
<1>4. CASE r \in LoopRules
  <2>0. \/ /\ r.for_nt = "NT_DO_STMT" /\ r.sem_action = "sem_do_loop"
              /\ r.production = <<"DO", "NT_DO_STMT_END">>
        \/ /\ r.for_nt = "NT_EXIT_STMT" /\ r.sem_action = "sem_exit"
              /\ r.production = <<"EXIT", "NT_LOOP_TYPE", "NT_LOOP_TYPE_END">>
        \/ /\ r.for_nt = "NT_CONTINUE_STMT" /\ r.sem_action = "sem_continue"
              /\ r.production = <<"CONTINUE", "NT_LOOP_TYPE", "NT_LOOP_TYPE_END">>
        \/ /\ r.for_nt = "NT_FOR_STMT" /\ r.sem_action = "sem_for_loop"
              /\ r.production = <<"FOR", "IDENTIFIER", "NT_TYPE_OPT", "EQUAL", "NT_EXPRESSION", "TO",
                                 "NT_EXPRESSION", "NT_STEP_OPT", "EOL", "NT_STMT_SEQ", "NEXT",
                                 "NT_ID_OPT">>
    BY <1>4, SMTT(60) DEF LoopRules, Rule, Tokens
  <2>1. CASE /\ r.for_nt = "NT_DO_STMT" /\ r.sem_action = "sem_do_loop"
             /\ r.production = <<"DO", "NT_DO_STMT_END">>
    <3>1. Begins(r.production, r.sem_action, <<20, 19>>)
      BY <2>1, Tabled DEF Begins, Actions, DoPlaces, DoRows, Statements
    <3> QED BY <2>1, <3>1 DEF Starters, Statements, ActionOf
  <2>2. CASE /\ r.for_nt = "NT_EXIT_STMT" /\ r.sem_action = "sem_exit"
             /\ r.production = <<"EXIT", "NT_LOOP_TYPE", "NT_LOOP_TYPE_END">>
    <3>1. Begins(r.production, r.sem_action, <<5, 4, 3>>)
      BY <2>2, Tabled DEF Begins, Actions, JumpPlaces, JumpRows
    <3> QED BY <2>2, <3>1 DEF Starters, Statements, ActionOf
  <2>3. CASE /\ r.for_nt = "NT_CONTINUE_STMT" /\ r.sem_action = "sem_continue"
             /\ r.production = <<"CONTINUE", "NT_LOOP_TYPE", "NT_LOOP_TYPE_END">>
    <3>1. Begins(r.production, r.sem_action, <<5, 4, 3>>)
      BY <2>3, Tabled DEF Begins, Actions, JumpPlaces, JumpRows
    <3> QED BY <2>3, <3>1 DEF Starters, Statements, ActionOf
  <2>4. CASE /\ r.for_nt = "NT_FOR_STMT" /\ r.sem_action = "sem_for_loop"
             /\ r.production = <<"FOR", "IDENTIFIER", "NT_TYPE_OPT", "EQUAL", "NT_EXPRESSION", "TO",
                                "NT_EXPRESSION", "NT_STEP_OPT", "EOL", "NT_STMT_SEQ", "NEXT",
                                "NT_ID_OPT">>
    <3>1. Begins(r.production, r.sem_action, <<12, 11, 10, 9, 8, 7, 6, 5, 4, 3, 2, 1>>)
      BY <2>4, Tabled DEF Begins, Actions, ForPlaces, ForRows, Statements, TypeSymbols, Types
    <3> QED BY <2>4, <3>1 DEF Starters, Statements, ActionOf
  <2> QED BY <2>0, <2>1, <2>2, <2>3, <2>4
<1>5. r \notin ProgramRules /\ r \notin StatementRules
  <2>1. \A q \in ProgramRules : q.sem_action = "none"
    BY DEF ProgramRules, Rule
  <2>2. \A q \in StatementRules : q.sem_action = "none"
    BY DEF StatementRules, Rule
  <2> QED BY <2>1, <2>2
<1> QED BY <1>1, <1>2, <1>3, <1>4, <1>5 DEF grammar_rules

\* What the rule an analyzer comes from looks like where the nonterminal of
\* another one with an action stood at i: it waits at j, at the end of a line
\* or behind a parameter.
AboveFor(action) == IF action = "sem_param_decl" THEN "param" ELSE "other"
Waits(nt, action, i, j) ==
    /\ \A state : <<state, "none", i>> \in Rows(action) => <<state, AboveFor(ActionOf(nt)), j>> \in Rows(action)
    /\ \A state, above : <<state, above, i>> \in Rows(action) => above \in {"none", "other"}
    /\ \A state : <<state, "other", i>> \in Rows(action) => <<state, "other", j>> \in Rows(action)
    /\ ActionOf(nt) \notin {"sem_scope", "sem_param_decl"} =>
          j # 0 /\ \A s, k : <<j, s, k>> \in Places(action) => s = "EOL"
    /\ action \notin {"sem_var_decl", "sem_exit", "sem_continue"}

LEMMA WhereStarters ==
    ASSUME NEW action \in AllActions, NEW i, NEW j, NEW nt \in Starters, <<i, nt, j>> \in Places(action)
    PROVE  \/ /\ nt \in Statements
              /\ <<action, i, j>> \in {<<"sem_scope", 6, 4>>, <<"sem_condition", 10, 6>>,
                                       <<"sem_condition", 15, 13>>, <<"sem_do_loop", 16, 13>>,
                                       <<"sem_do_loop", 6, 5>>, <<"sem_for_loop", 17, 4>>,
                                       <<"sem_func_def", 15, 4>>}
           \/ nt = "NT_SCOPE_STMT" /\ <<action, i, j>> = <<"program", 8, 7>>
           \/ nt \in {"NT_SHARED_VAR", "NT_FUNC_DECL", "NT_FUNC_DEF"} /\ <<action, i, j>> = <<"program", 5, 4>>
           \/ nt = "NT_PARAM_DECL" /\ <<action, i, j>> \in {<<"sem_func_decl", 11, 12>>, <<"sem_func_def", 12, 13>>}
<1>1. CASE action = "program"
  BY <1>1, Tabled, SMTT(30) DEF ProgramPlaces, Starters, Statements
<1>2. CASE action = "sem_scope"
  BY <1>2, Tabled, SMTT(30) DEF ScopePlaces, Starters, Statements
<1>3. CASE action = "sem_print"
  BY <1>3, Tabled, SMTT(30) DEF PrintPlaces, Starters, Statements
<1>4. CASE action = "sem_input"
  BY <1>4, Tabled, SMTT(30) DEF InputPlaces, Starters, Statements
<1>5. CASE action = "sem_expr_assign"
  BY <1>5, Tabled, SMTT(30) DEF AssignPlaces, Starters, Statements, AssignOperators
<1>6. CASE action = "sem_return"
  BY <1>6, Tabled, SMTT(30) DEF ReturnPlaces, Starters, Statements
<1>7. CASE action = "sem_condition"
  BY <1>7, Tabled, SMTT(30) DEF ConditionPlaces, Starters, Statements
<1>8. CASE action = "sem_do_loop"
  BY <1>8, Tabled, SMTT(30) DEF DoPlaces, Starters, Statements
<1>9. CASE action = "sem_for_loop"
  BY <1>9, Tabled, SMTT(30) DEF ForPlaces, Starters, Statements, TypeSymbols, Types
<1>10. CASE action = "sem_exit"
  BY <1>10, Tabled, SMTT(30) DEF JumpPlaces, Starters, Statements
<1>11. CASE action = "sem_continue"
  BY <1>11, Tabled, SMTT(30) DEF JumpPlaces, Starters, Statements
<1>12. CASE action = "sem_var_decl"
  BY <1>12, Tabled, SMTT(30) DEF VarPlaces, Starters, Statements, TypeSymbols, Types
<1>13. CASE action = "sem_param_decl"
  BY <1>13, Tabled, SMTT(30) DEF ParamPlaces, Starters, Statements, TypeSymbols, Types
<1>14. CASE action = "sem_func_decl"
  BY <1>14, Tabled, SMTT(30) DEF DeclPlaces, Starters, Statements, TypeSymbols, Types
<1>15. CASE action = "sem_func_def"
  BY <1>15, Tabled, SMTT(30) DEF DefPlaces, Starters, Statements, TypeSymbols, Types
<1>16. CASE action = "sem_expr_result"
  BY <1>16, Tabled
<1> QED BY <1>1, <1>2, <1>3, <1>4, <1>5, <1>6, <1>7, <1>8, <1>9, <1>10, <1>11, <1>12,
           <1>13, <1>14, <1>15, <1>16 DEF AllActions, Actions

LEMMA OwnersWait ==
    ASSUME NEW action, NEW i, NEW j, NEW nt \in Starters, <<i, nt, j>> \in Places(action)
    PROVE  Waits(nt, action, i, j)
<1>1. action \in AllActions
  BY PlacesHaveActions
<1>2. CASE nt = "NT_PARAM_DECL"
  <2>1. ActionOf(nt) = "sem_param_decl"
    BY <1>2 DEF ActionOf
  <2>2. CASE <<action, i, j>> = <<"sem_func_decl", 11, 12>>
    BY <2>1, <2>2, Tabled DEF Waits, AboveFor, DeclRows
  <2>3. CASE <<action, i, j>> = <<"sem_func_def", 12, 13>>
    BY <2>1, <2>3, Tabled DEF Waits, AboveFor, DefRows
  <2> QED BY <1>1, <1>2, <2>2, <2>3, WhereStarters DEF Statements
<1>3. CASE nt # "NT_PARAM_DECL"
  <2>1. ActionOf(nt) # "sem_param_decl" /\ AboveFor(ActionOf(nt)) = "other"
    BY <1>3 DEF ActionOf, Starters, Statements, AboveFor
  <2>2. CASE <<action, i, j>> = <<"program", 8, 7>>
    <3>1. nt = "NT_SCOPE_STMT"
      BY <1>1, <1>3, <2>2, WhereStarters
    <3>2. ActionOf(nt) = "sem_scope" /\ \A state, above : <<state, above, i>> \notin Rows(action)
      BY <3>1, <2>2, RowsHaveActions DEF ActionOf, Actions
    <3> QED BY <3>2, <2>2 DEF Waits
  <2>3. CASE <<action, i, j>> = <<"program", 5, 4>>
    <3>1. \A state, above : <<state, above, i>> \notin Rows(action)
      BY <2>3, RowsHaveActions DEF Actions
    <3>2. \A s, k : <<j, s, k>> \in Places(action) => s = "EOL"
      BY <2>3, Tabled DEF ProgramPlaces
    <3> QED BY <3>1, <3>2, <2>3 DEF Waits
  <2>4. CASE <<action, i, j>> = <<"sem_scope", 6, 4>>
    <3>1. \A s, t : <<j, s, t>> \in Places(action) => s = "EOL"
      BY <2>4, Tabled DEF ScopePlaces, Statements
    <3>2. /\ \A state, above : <<state, above, i>> \in Rows(action) => above \in {"none", "other"}
          /\ \A state, above : <<state, above, i>> \in Rows(action) => <<state, "other", j>> \in Rows(action)
      BY <2>4, Tabled DEF ScopeRows
    <3> QED BY <2>1, <2>4, <3>1, <3>2 DEF Waits
  <2>5. CASE <<action, i, j>> = <<"sem_condition", 10, 6>>
    <3>1. \A s, t : <<j, s, t>> \in Places(action) => s = "EOL"
      BY <2>5, Tabled DEF ConditionPlaces, Statements
    <3>2. /\ \A state, above : <<state, above, i>> \in Rows(action) => above \in {"none", "other"}
          /\ \A state, above : <<state, above, i>> \in Rows(action) => <<state, "other", j>> \in Rows(action)
      BY <2>5, Tabled DEF ConditionRows
    <3> QED BY <2>1, <2>5, <3>1, <3>2 DEF Waits
  <2>6. CASE <<action, i, j>> = <<"sem_condition", 15, 13>>
    <3>1. \A s, t : <<j, s, t>> \in Places(action) => s = "EOL"
      BY <2>6, Tabled DEF ConditionPlaces, Statements
    <3>2. /\ \A state, above : <<state, above, i>> \in Rows(action) => above \in {"none", "other"}
          /\ \A state, above : <<state, above, i>> \in Rows(action) => <<state, "other", j>> \in Rows(action)
      BY <2>6, Tabled DEF ConditionRows
    <3> QED BY <2>1, <2>6, <3>1, <3>2 DEF Waits
  <2>7. CASE <<action, i, j>> = <<"sem_do_loop", 16, 13>>
    <3>1. \A s, t : <<j, s, t>> \in Places(action) => s = "EOL"
      BY <2>7, Tabled DEF DoPlaces, Statements
    <3>2. /\ \A state, above : <<state, above, i>> \in Rows(action) => above \in {"none", "other"}
          /\ \A state, above : <<state, above, i>> \in Rows(action) => <<state, "other", j>> \in Rows(action)
      BY <2>7, Tabled DEF DoRows
    <3> QED BY <2>1, <2>7, <3>1, <3>2 DEF Waits
  <2>8. CASE <<action, i, j>> = <<"sem_do_loop", 6, 5>>
    <3>1. \A s, t : <<j, s, t>> \in Places(action) => s = "EOL"
      BY <2>8, Tabled DEF DoPlaces, Statements
    <3>2. /\ \A state, above : <<state, above, i>> \in Rows(action) => above \in {"none", "other"}
          /\ \A state, above : <<state, above, i>> \in Rows(action) => <<state, "other", j>> \in Rows(action)
      BY <2>8, Tabled DEF DoRows
    <3> QED BY <2>1, <2>8, <3>1, <3>2 DEF Waits
  <2>9. CASE <<action, i, j>> = <<"sem_for_loop", 17, 4>>
    <3>1. \A s, t : <<j, s, t>> \in Places(action) => s = "EOL"
      BY <2>9, Tabled DEF ForPlaces, Statements, TypeSymbols, Types
    <3>2. /\ \A state, above : <<state, above, i>> \in Rows(action) => above \in {"none", "other"}
          /\ \A state, above : <<state, above, i>> \in Rows(action) => <<state, "other", j>> \in Rows(action)
      BY <2>9, Tabled DEF ForRows
    <3> QED BY <2>1, <2>9, <3>1, <3>2 DEF Waits
  <2>10. CASE <<action, i, j>> = <<"sem_func_def", 15, 4>>
    <3>1. \A s, t : <<j, s, t>> \in Places(action) => s = "EOL"
      BY <2>10, Tabled DEF DefPlaces, Statements, TypeSymbols, Types
    <3>2. /\ \A state, above : <<state, above, i>> \in Rows(action) => above \in {"none", "other"}
          /\ \A state, above : <<state, above, i>> \in Rows(action) => <<state, "other", j>> \in Rows(action)
      BY <2>10, Tabled DEF DefRows
    <3> QED BY <2>1, <2>10, <3>1, <3>2 DEF Waits
  <2> QED BY <1>1, <1>3, <2>2, <2>3, <2>4, <2>5, <2>6, <2>7, <2>8, <2>9, <2>10, WhereStarters
<1> QED BY <1>2, <1>3

SameActions(n, an, an2) == \A d \in 1 .. n : an2[d].sem_action = an[d].sem_action
-----------------------------------------------------------------------------
LEMMA PlacesNotZero ==
    ASSUME NEW action, NEW i, NEW s, NEW j, <<i, s, j>> \in Places(action)
    PROVE  i # 0
  BY PlacesHaveActions, TablesAreOrderly DEF Orderly

\* What holds of the symbol on the top of dtree_stack
OnTop(m, sym, own, lab, cur, n, an) ==
    /\ m \in Nat \ {0} /\ n \in Nat /\ own[m] \in 0 .. n /\ (m = 1 => own[m] = 0)
    /\ cur[own[m]] = lab[m] /\ lab[m] # 0
    /\ <<lab[m], sym[m], Below(own, lab, m)>> \in Places(ActionAt(an, own[m]))
    /\ \A h \in 1 .. m : own[h] \in 0 .. own[m]
    /\ \A d \in own[m] + 1 .. n : cur[d] = 0

LEMMA TopHeight ==
    ASSUME NEW m, NEW sym, NEW own, NEW lab, NEW cur, NEW n, NEW an,
           Heights(m, sym, own, lab, cur, n, an)
    PROVE  OnTop(m, sym, own, lab, cur, n, an)
<1>1. m \in Nat \ {0} /\ n \in Nat /\ own[m] \in 0 .. n /\ (m = 1 => own[m] = 0)
      /\ \A h \in 1 .. m : own[h] \in 0 .. own[m]
  BY DEF Heights, Ordered
<1>2. cur[own[m]] = lab[m]
      /\ <<lab[m], sym[m], Below(own, lab, m)>> \in Places(ActionAt(an, own[m]))
  BY <1>1 DEF Heights, Current, Placed
<1>3. lab[m] # 0
  BY <1>2, PlacesNotZero
<1>4. ASSUME NEW d \in own[m] + 1 .. n
      PROVE  cur[d] = 0
  <2>1. d \in 0 .. n /\ \A h \in 1 .. m : own[h] # d
    BY <1>1
  <2> QED BY <2>1 DEF Heights, Current
<1> QED BY <1>1, <1>2, <1>3, <1>4 DEF OnTop

LEMMA SameHeights ==
    ASSUME NEW m, NEW sym, NEW own, NEW lab, NEW cur, NEW n, NEW an,
           Heights(m, sym, own, lab, cur, n, an),
           NEW sym2, NEW own2, NEW cur2, NEW an2, Agree(m, sym, sym2), Agree(m, own, own2),
           \A d \in 0 .. n : cur2[d] = cur[d], SameActions(n, an, an2)
    PROVE  Heights(m, sym2, own2, lab, cur2, n, an2)
<1>1. Ordered(m, own2, n) /\ \A h \in 1 .. m : own2[h] = own[h] /\ own[h] \in 0 .. n /\ m \in Nat \ {0}
  BY DEF Heights, Ordered, Agree
<1>2. \A h \in 1 .. m : Below(own2, lab, h) = Below(own, lab, h)
  BY <1>1 DEF Below
<1>3. \A d \in 0 .. n : ActionAt(an2, d) = ActionAt(an, d)
  BY DEF ActionAt, SameActions
<1>4. Placed(m, sym2, own2, lab, an2)
  BY <1>1, <1>2, <1>3 DEF Heights, Placed, Agree
<1>5. Current(m, own2, lab, cur2, n)
  BY <1>1 DEF Heights, Current
<1> QED BY <1>1, <1>4, <1>5 DEF Heights

LEMMA PopHeight ==
    ASSUME NEW m, NEW sym, NEW own, NEW lab, NEW cur, NEW n, NEW an,
           Heights(m, sym, own, lab, cur, n, an), m > 1,
           NEW cur2, \A d \in 0 .. n : cur2[d] = IF d = own[m] THEN Below(own, lab, m) ELSE cur[d]
    PROVE  Heights(m - 1, sym, own, lab, cur2, n, an)
<1>1. /\ m \in Nat /\ n \in Nat /\ m - 1 \in Nat \ {0} /\ own[m] \in 0 .. n /\ own[m - 1] \in 0 .. own[m]
      /\ \A h \in 1 .. m - 1 : h \in 1 .. m /\ h # m
      /\ \A h \in 1 .. m : h \in 1 .. m - 1 \/ h = m
  BY DEF Heights, Ordered
<1>0. Ordered(m - 1, own, n)
  BY <1>1 DEF Heights, Ordered
<1>2. Placed(m - 1, sym, own, lab, an)
  BY <1>1 DEF Heights, Placed
<1>3. ASSUME NEW h \in 1 .. m - 1, h = m - 1 \/ own[h + 1] # own[h]
      PROVE  cur2[own[h]] = lab[h]
  <2>1. own[h] \in 0 .. n /\ own[h] \in 0 .. own[m - 1] /\ h \in 1 .. m
    BY <1>0, <1>1 DEF Ordered
  <2>2. CASE own[h] = own[m]
    <3>1. own[m - 1] = own[m]
      BY <1>1, <2>1, <2>2
    <3>2. h = m - 1
      <4>1. CASE h < m - 1
        <5>1. own[h + 1] \in 0 .. own[m] /\ own[h] <= own[h + 1]
          BY <1>1, <4>1 DEF Heights, Ordered
        <5> QED BY <1>3, <5>1, <2>2, <4>1, <2>1, <1>1
      <4> QED BY <4>1, <1>1
    <3> QED BY <1>1, <2>1, <2>2, <3>1, <3>2 DEF Below
  <2>3. CASE own[h] # own[m]
    <3>1. own[h + 1] # own[h]
      BY <1>1, <1>3, <2>3
    <3>2. cur[own[h]] = lab[h]
      BY <2>1, <3>1 DEF Heights, Current
    <3> QED BY <2>1, <2>3, <3>2
  <2> QED BY <2>2, <2>3
<1>4. ASSUME NEW d \in 0 .. n, \A h \in 1 .. m - 1 : own[h] # d
      PROVE  cur2[d] = 0
  <2>1. CASE d = own[m]
    <3>1. own[m - 1] # own[m]
      BY <1>1, <1>4, <2>1
    <3> QED BY <3>1, <2>1 DEF Below
  <2>2. CASE d # own[m]
    <3>1. \A h \in 1 .. m : own[h] # d
      BY <1>1, <1>4, <2>2
    <3> QED BY <2>2, <3>1 DEF Heights, Current
  <2> QED BY <2>1, <2>2
<1>5. Current(m - 1, own, lab, cur2, n)
  BY <1>3, <1>4 DEF Current
<1> QED BY <1>0, <1>2, <1>5 DEF Heights

\* What is put on the stack: the symbols of p, at the places l, owned by d
Pushed(p, len, m, d, sym2, own2) ==
    \A h \in m + 1 .. m + len : sym2[h] = p[(m + len + 1) - h] /\ own2[h] = d
Fitted(p, len, l, c, action) ==
    \A k \in 1 .. len : <<l[k], p[k], IF k = len THEN c ELSE l[k + 1]>> \in Places(action)
Moved(cur, cur2, n, d, i) == \A e \in 0 .. n : cur2[e] = IF e = d THEN i ELSE cur[e]
HeightsFor(m, sym, own, cur, n, an) == \E lab : Heights(m, sym, own, lab, cur, n, an)

LEMMA PushHeights ==
    ASSUME NEW m, NEW sym, NEW own, NEW lab, NEW cur, NEW n, NEW an,
           Heights(m, sym, own, lab, cur, n, an),
           NEW d \in own[m] .. n, NEW len \in Nat \ {0}, NEW p, NEW l, NEW cur2,
           Fitted(p, len, l, cur[d], ActionAt(an, d)), Pushed(p, len, m, d, sym, own),
           Moved(cur, cur2, n, d, l[1])
    PROVE  HeightsFor(m + len, sym, own, cur2, n, an)
<1> USE DEF Fitted, Pushed, Moved
<1> DEFINE lab2 == [h \in 1 .. m + len |-> IF h <= m THEN lab[h] ELSE l[(m + len + 1) - h]]
<1>1. /\ m \in Nat \ {0} /\ n \in Nat /\ own[m] \in 0 .. n /\ d \in 0 .. n
      /\ \A h \in 1 .. m : own[h] \in 0 .. own[m]
      /\ \A e \in own[m] + 1 .. n : cur[e] = 0
      /\ cur[own[m]] = lab[m]
  <2>1. OnTop(m, sym, own, lab, cur, n, an)
    BY TopHeight
  <2> QED BY <2>1 DEF OnTop
<1>3. /\ \A h \in 1 .. m : lab2[h] = lab[h]
      /\ \A h \in m + 1 .. m + len : lab2[h] = l[(m + len + 1) - h]
  BY <1>1
<1> HIDE DEF lab2
<1>4. Ordered(m + len, own, n)
  <2>1. own[1] = 0
    BY <1>1 DEF Heights, Ordered
  <2>2. ASSUME NEW h \in 1 .. m + len
        PROVE  own[h] \in 0 .. d /\ (h > m => own[h] = d)
    BY <1>1
  <2>3. \A h \in 1 .. m + len : own[h] \in 0 .. n
    BY <1>1, <2>2
  <2>4. ASSUME NEW g \in 1 .. m + len, NEW h \in 1 .. m + len, g <= h
        PROVE  own[g] <= own[h]
    <3>1. CASE h <= m
      BY <1>1, <2>2, <2>4, <3>1 DEF Heights, Ordered
    <3>2. CASE h > m
      BY <1>1, <2>2, <3>2
    <3> QED BY <1>1, <3>1, <3>2
  <2>5. m + len \in Nat \ {0} /\ n \in Nat
    BY <1>1
  <2> QED BY <2>1, <2>3, <2>4, <2>5 DEF Ordered
<1>5. ASSUME NEW h \in 1 .. m + len
      PROVE  <<lab2[h], sym[h], Below(own, lab2, h)>> \in Places(ActionAt(an, own[h]))
  <2>1. CASE h <= m
    <3>1. h \in 1 .. m /\ (h > 1 => h - 1 \in 1 .. m)
      BY <1>1, <2>1
    <3>2. Below(own, lab2, h) = Below(own, lab, h)
      BY <1>3, <3>1 DEF Below
    <3> QED BY <1>3, <3>1, <3>2 DEF Heights, Placed
  <2>2. CASE h > m
    <3> DEFINE k == (m + len + 1) - h
    <3>1. k \in 1 .. len /\ h \in m + 1 .. m + len /\ h > 1
      BY <1>1, <2>2
    <3>2. lab2[h] = l[k] /\ sym[h] = p[k] /\ own[h] = d
      BY <1>3, <3>1
    <3>3. CASE k = len
      <4>1. h = m + 1 /\ h - 1 = m /\ m \in 1 .. m
        BY <1>1, <3>1, <3>3
      <4>2. own[h - 1] = own[m] /\ lab2[h - 1] = lab[m]
        BY <4>1, <1>3
      <4>3. Below(own, lab2, h) = cur[d]
        <5>1. CASE own[m] = d
          BY <3>1, <3>2, <4>2, <5>1, <1>1 DEF Below
        <5>2. CASE own[m] # d
          <6>1. cur[d] = 0
            BY <1>1, <5>2
          <6> QED BY <3>2, <4>2, <5>2, <6>1 DEF Below
        <5> QED BY <5>1, <5>2
      <4> QED BY <3>1, <3>2, <3>3, <4>3
    <3>4. CASE k # len
      <4>1. h - 1 \in m + 1 .. m + len /\ (m + len + 1) - (h - 1) = k + 1
        BY <1>1, <3>1, <3>4
      <4>2. own[h - 1] = d /\ lab2[h - 1] = l[k + 1]
        BY <4>1, <1>3
      <4>3. Below(own, lab2, h) = l[k + 1]
        BY <3>1, <3>2, <4>2 DEF Below
      <4> QED BY <3>1, <3>2, <3>4, <4>3
    <3> QED BY <3>3, <3>4
  <2> QED BY <1>1, <2>1, <2>2
<1>6. Placed(m + len, sym, own, lab2, an)
  BY <1>5 DEF Placed
<1>7. ASSUME NEW h \in 1 .. m + len, h = m + len \/ own[h + 1] # own[h]
      PROVE  cur2[own[h]] = lab2[h]
  <2>1. CASE h = m + len
    <3>1. own[h] = d /\ lab2[h] = l[1] /\ d \in 0 .. n
      BY <1>1, <1>3, <2>1
    <3> QED BY <3>1
  <2>2. CASE h \in m + 1 .. m + len - 1
    BY <1>1, <1>7, <2>2
  <2>3. CASE h = m
    <3>1. own[h + 1] = d /\ own[h] = own[m]
      BY <1>1, <2>3
    <3>2. own[m] # d
      BY <1>1, <1>7, <2>3, <3>1
    <3> QED BY <1>1, <1>3, <2>3, <3>1, <3>2
  <2>4. CASE h < m
    <3>1. h \in 1 .. m /\ h + 1 \in 1 .. m
      BY <1>1, <2>4
    <3>2. own[h] = own[h] /\ own[h + 1] = own[h + 1] /\ own[h] \in 0 .. n
      BY <1>1, <3>1
    <3>3. cur[own[h]] = lab[h]
      BY <1>1, <1>7, <2>4, <3>1, <3>2 DEF Heights, Current
    <3>4. own[h] # d
      <4>1. own[h] <= own[h + 1] /\ own[h + 1] <= own[m] /\ own[h] # own[h + 1] /\ own[m] <= d
            /\ own[h + 1] \in 0 .. own[m]
        BY <1>1, <1>7, <2>4, <3>1, <3>2 DEF Heights, Ordered
      <4> QED BY <1>1, <3>2, <4>1
    <3> QED BY <1>3, <3>1, <3>2, <3>3, <3>4
  <2> QED BY <1>1, <2>1, <2>2, <2>3, <2>4
<1>8. ASSUME NEW e \in 0 .. n, \A h \in 1 .. m + len : own[h] # e
      PROVE  cur2[e] = 0
  <2>1. m + len \in 1 .. m + len /\ own[m + len] = d
    BY <1>1
  <2>2. e # d /\ \A h \in 1 .. m : own[h] # e
    BY <1>1, <1>8, <2>1
  <2> QED BY <2>2 DEF Heights, Current
<1>9. Current(m + len, own, lab2, cur2, n)
  BY <1>7, <1>8 DEF Current
<1>10. Heights(m + len, sym, own, lab2, cur2, n, an)
  BY <1>4, <1>6, <1>9 DEF Heights
<1> QED BY <1>10 DEF HeightsFor

LEMMA AddFrame ==
    ASSUME NEW m, NEW sym, NEW own, NEW lab, NEW cur, NEW n, NEW an,
           Heights(m, sym, own, lab, cur, n, an),
           NEW cur2, NEW an2, SameActions(n, an, an2), \A d \in 0 .. n : cur2[d] = cur[d],
           cur2[n + 1] = 0
    PROVE  Heights(m, sym, own, lab, cur2, n + 1, an2)
<1>1. Heights(m, sym, own, lab, cur2, n, an2)
  BY SameHeights DEF Agree
<1>2. Ordered(m, own, n + 1)
  BY <1>1 DEF Heights, Ordered
<1>3. \A d \in 0 .. n + 1 : d \in 0 .. n \/ d = n + 1
  BY <1>1 DEF Heights, Ordered
<1>4. Current(m, own, lab, cur2, n + 1)
  BY <1>1, <1>3 DEF Heights, Current
<1> QED BY <1>1, <1>2, <1>4 DEF Heights

LEMMA DropFrame ==
    ASSUME NEW m, NEW sym, NEW own, NEW lab, NEW cur, NEW n, NEW an,
           Heights(m, sym, own, lab, cur, n, an), n > 0, own[m] # n,
           NEW an2, SameActions(n - 1, an, an2)
    PROVE  Heights(m, sym, own, lab, cur, n - 1, an2)
<1>1. /\ m \in Nat \ {0} /\ n - 1 \in Nat /\ n \in Nat /\ own[m] \in 0 .. n - 1
      /\ \A h \in 1 .. m : own[h] \in 0 .. own[m]
  <2>1. OnTop(m, sym, own, lab, cur, n, an)
    BY TopHeight
  <2> QED BY <2>1 DEF OnTop
<1>2. Ordered(m, own, n - 1)
  BY <1>1 DEF Heights, Ordered
<1>3. \A h \in 1 .. m : ActionAt(an2, own[h]) = ActionAt(an, own[h])
  BY <1>1 DEF ActionAt, SameActions
<1>4. Placed(m, sym, own, lab, an2)
  BY <1>3 DEF Heights, Placed
<1>5. Current(m, own, lab, cur, n - 1)
  BY <1>1 DEF Heights, Current
<1> QED BY <1>2, <1>4, <1>5 DEF Heights
-----------------------------------------------------------------------------
(* The ends of lines when the stacks change                                *)
Settled(own, m, n, an) == \A d \in own[m] + 1 .. n : ~Loose(an[d])

LEMMA OnlyEOLsEndStatements ==
    ASSUME NEW m, NEW sym, NEW own, NEW n, NEW an, Ordered(m, own, n), Lined(m, sym, own, n, an),
           sym[m] # "EOL"
    PROVE  Settled(own, m, n, an)
<1> SUFFICES ASSUME NEW d \in own[m] + 1 .. n PROVE ~Loose(an[d])
  BY DEF Settled
<1>1. m \in 1 .. m /\ d \in 1 .. n /\ Between(m, own, m, d)
  BY DEF Ordered, Between
<1> QED BY <1>1 DEF Lined

LEMMA LinedSame ==
    ASSUME NEW m, NEW sym, NEW own, NEW n, NEW an, Ordered(m, own, n), Lined(m, sym, own, n, an),
           NEW sym2, NEW own2, NEW an2, Agree(m, sym, sym2), Agree(m, own, own2),
           \A d \in 1 .. n : Loose(an2[d]) => Loose(an[d])
    PROVE  Lined(m, sym2, own2, n, an2)
<1> SUFFICES ASSUME NEW h \in 1 .. m, NEW d \in 1 .. n, Between(m, own2, h, d), Loose(an2[d])
             PROVE  sym2[h] = "EOL"
  BY DEF Lined
<1>1. own2[h] = own[h] /\ (h # m => own2[h + 1] = own[h + 1]) /\ sym2[h] = sym[h]
  BY DEF Agree, Ordered
<1>2. Between(m, own, h, d)
  BY <1>1 DEF Between
<1> QED BY <1>1, <1>2 DEF Lined

LEMMA LinedPop ==
    ASSUME NEW m, NEW sym, NEW own, NEW n, NEW an, Ordered(m, own, n), Lined(m, sym, own, n, an),
           m > 1, Settled(own, m, n, an)
    PROVE  Lined(m - 1, sym, own, n, an)
<1> SUFFICES ASSUME NEW h \in 1 .. m - 1, NEW d \in 1 .. n, Between(m - 1, own, h, d), Loose(an[d])
             PROVE  sym[h] = "EOL"
  BY DEF Lined
<1>1. m \in Nat /\ h \in 1 .. m /\ h # m /\ own[h] \in 0 .. n /\ own[m] \in 0 .. n
  BY DEF Ordered
<1>2. d <= own[m]
  BY <1>1 DEF Settled
<1>3. Between(m, own, h, d)
  BY <1>1, <1>2 DEF Between
<1> QED BY <1>1, <1>3 DEF Lined

LEMMA LinedPush ==
    ASSUME NEW m, NEW sym, NEW own, NEW n, NEW an, Ordered(m, own, n), Lined(m, sym, own, n, an),
           NEW e \in own[m] .. n, NEW len \in Nat \ {0},
           NEW sym2, NEW own2, Agree(m, sym, sym2), Agree(m, own, own2),
           \A h \in m + 1 .. m + len : own2[h] = e,
           \A d \in e + 1 .. n : ~Loose(an[d])
    PROVE  Lined(m + len, sym2, own2, n, an)
<1> SUFFICES ASSUME NEW h \in 1 .. m + len, NEW d \in 1 .. n, Between(m + len, own2, h, d), Loose(an[d])
             PROVE  sym2[h] = "EOL"
  BY DEF Lined
<1>1. m \in Nat \ {0} /\ n \in Nat /\ own[m] \in 0 .. n /\ e \in 0 .. n /\ d <= e
  BY DEF Ordered
<1>2. h <= m
  BY <1>1 DEF Between
<1>3. h \in 1 .. m /\ own2[h] = own[h] /\ sym2[h] = sym[h] /\ own[h] \in 0 .. n
  BY <1>1, <1>2 DEF Agree, Ordered
<1>4. h # m => own2[h + 1] = own[h + 1]
  BY <1>1, <1>3 DEF Agree
<1>5. Between(m, own, h, d)
  BY <1>1, <1>3, <1>4 DEF Between
<1> QED BY <1>3, <1>5 DEF Lined

LEMMA LinedAdd ==
    ASSUME NEW m, NEW sym, NEW own, NEW n, NEW an, Ordered(m, own, n), Lined(m, sym, own, n, an),
           NEW an2, Agree(n, an, an2), Loose(an2[n + 1]) => sym[m] = "EOL"
    PROVE  Lined(m, sym, own, n + 1, an2)
<1> SUFFICES ASSUME NEW h \in 1 .. m, NEW d \in 1 .. n + 1, Between(m, own, h, d), Loose(an2[d])
             PROVE  sym[h] = "EOL"
  BY DEF Lined
<1>1. m \in Nat \ {0} /\ n \in Nat /\ own[h] \in 0 .. n /\ (h # m => own[h + 1] \in 0 .. n)
  BY DEF Ordered
<1>2. CASE d = n + 1
  <2>1. h = m
    BY <1>1, <1>2 DEF Between
  <2> QED BY <2>1, <1>2
<1>3. CASE d # n + 1
  <2>1. d \in 1 .. n /\ an2[d] = an[d]
    BY <1>1, <1>3 DEF Agree
  <2> QED BY <2>1 DEF Lined
<1> QED BY <1>2, <1>3

LEMMA LinedDrop ==
    ASSUME NEW m, NEW sym, NEW own, NEW n, NEW an, n \in Nat \ {0}, Lined(m, sym, own, n, an),
           NEW an2, \A d \in 1 .. n - 1 : Loose(an2[d]) => Loose(an[d])
    PROVE  Lined(m, sym, own, n - 1, an2)
  BY DEF Lined
-----------------------------------------------------------------------------
(* What is above an analyzer that waits for a symbol of its rule           *)
LEMMA AboveIsNone ==
    ASSUME NEW n, NEW an, NEW d, AboveAt(n, an, d) = "none"
    PROVE  d = n
  BY DEF AboveAt

\* The owner of the symbol on the top waits for it, unless the symbol is the
\* IF at the end of a condition that has finished.
LEMMA OwnerWaits ==
    ASSUME NEW m, NEW sym, NEW own, NEW lab, NEW cur, NEW n, NEW an,
           Coupled(m, sym, own, lab, cur, n, an), own[m] # 0
    PROVE  IF Over(an[own[m]])
           THEN sym[m] = "IF" /\ own[m] = n /\ Below(own, lab, m) = 0 /\ an[n].sem_action = "sem_condition"
           ELSE <<an[own[m]].state, AboveAt(n, an, own[m]), lab[m]>> \in Rows(an[own[m]].sem_action)
<1>1. OnTop(m, sym, own, lab, cur, n, an)
  BY TopHeight DEF Coupled
<1> DEFINE d == own[m]
           action == an[d].sem_action
<1>2. d \in 1 .. n /\ cur[d] = lab[m] /\ lab[m] # 0 /\ ActionAt(an, d) = action
      /\ <<lab[m], sym[m], Below(own, lab, m)>> \in Places(action)
  BY <1>1 DEF OnTop, ActionAt
<1>3. Standing(n, an, cur, d)
  BY <1>2 DEF Coupled, Rowed
<1> HIDE DEF d, action
<1>4. CASE Over(an[d])
  <2>1. an[d].sem_action = "sem_condition" /\ lab[m] = 1 /\ d = n
    BY <1>2, <1>3, <1>4 DEF Standing
  <2>2. Orderly(action, Rows(action), Places(action))
    BY <1>2, PlacesHaveActions, TablesAreOrderly
  <2>3. action = "sem_condition"
    BY <2>1 DEF action
  <2>4. sym[m] = "IF" /\ Below(own, lab, m) = 0
    BY <1>2, <2>1, <2>2, <2>3 DEF Orderly
  <2> QED BY <1>4, <2>1, <2>4 DEF d
<1>5. CASE ~Over(an[d])
  BY <1>2, <1>3, <1>5 DEF Standing, d, action
<1> QED BY <1>4, <1>5 DEF d

\* What is on the bottom is the end of the file.
LEMMA BottomIsEOF ==
    ASSUME NEW m, NEW sym, NEW own, NEW lab, NEW cur, NEW n, NEW an,
           Heights(m, sym, own, lab, cur, n, an), m = 1
    PROVE  sym[m] = "EOF"
<1>1. OnTop(m, sym, own, lab, cur, n, an)
  BY TopHeight
<1>2. <<lab[m], sym[m], Below(own, lab, m)>> \in ProgramPlaces
  BY <1>1, Tabled DEF OnTop, ActionAt
<1>3. Below(own, lab, m) = 0
  BY DEF Below
<1> QED BY <1>2, <1>3 DEF ProgramPlaces

LEMMA OwnerOfEOF ==
    ASSUME NEW m, NEW sym, NEW own, NEW lab, NEW cur, NEW n, NEW an,
           Coupled(m, sym, own, lab, cur, n, an), sym[m] = "EOF"
    PROVE  own[m] = 0
<1>1. OnTop(m, sym, own, lab, cur, n, an)
  BY TopHeight DEF Coupled
<1> DEFINE action == ActionAt(an, own[m])
<1>2. <<lab[m], sym[m], Below(own, lab, m)>> \in Places(action)
  BY <1>1 DEF OnTop
<1>3. Orderly(action, Rows(action), Places(action))
  BY <1>2, PlacesHaveActions, TablesAreOrderly
<1>4. action = "program"
  BY <1>2, <1>3 DEF Orderly
<1>5. CASE own[m] # 0
  <2>1. an[own[m]].sem_action = "program" /\ ~Over(an[own[m]])
    <3>1. an[own[m]].sem_action = "program"
      BY <1>4, <1>5 DEF ActionAt
    <3>2. sym[m] # "IF"
      OBVIOUS
    <3> QED BY <3>1, <3>2, <1>5, OwnerWaits
  <2>2. <<an[own[m]].state, AboveAt(n, an, own[m]), lab[m]>> \in Rows("program")
    BY <1>5, <2>1, OwnerWaits
  <2> QED BY <2>2, RowsHaveActions DEF Actions
<1> QED BY <1>5

\* Where an expression is expected the topmost analyzer expects it.
LEMMA ExpressionOnTop ==
    ASSUME NEW m, NEW sym, NEW own, NEW lab, NEW cur, NEW n, NEW an,
           Coupled(m, sym, own, lab, cur, n, an), sym[m] = "NT_EXPRESSION"
    PROVE  /\ m > 1 /\ own[m] = n /\ n \in Nat \ {0} /\ ~Over(an[n])
           /\ <<an[n].state, "expr", Below(own, lab, m)>> \in Rows(an[n].sem_action)
<1>1. OnTop(m, sym, own, lab, cur, n, an)
  BY TopHeight DEF Coupled
<1> DEFINE action == ActionAt(an, own[m])
<1>2. <<lab[m], "NT_EXPRESSION", Below(own, lab, m)>> \in Places(action)
  BY <1>1 DEF OnTop
<1>3. Orderly(action, Rows(action), Places(action))
  BY <1>2, PlacesHaveActions, TablesAreOrderly
<1>4. own[m] # 0
  BY <1>2, <1>3 DEF Orderly, ActionAt
<1>5. ~Over(an[own[m]])
  <2>1. sym[m] # "IF"
    OBVIOUS
  <2> QED BY <1>4, <2>1, OwnerWaits
<1>6. <<an[own[m]].state, AboveAt(n, an, own[m]), lab[m]>> \in Rows(action)
  BY <1>4, <1>5, OwnerWaits DEF ActionAt
<1>7. AboveAt(n, an, own[m]) = "none" /\ <<an[own[m]].state, "expr", Below(own, lab, m)>> \in Rows(action)
  BY <1>2, <1>3, <1>6 DEF Orderly
<1>8. own[m] = n
  BY <1>7, AboveIsNone
<1>9. m > 1 /\ n \in Nat \ {0}
  BY <1>1, <1>4, <1>8 DEF OnTop
<1> QED BY <1>4, <1>5, <1>7, <1>8, <1>9 DEF ActionAt

\* The analyzer below the value of an expression or parameter
LEMMA SpeaksOnTop ==
    ASSUME NEW m, NEW sym, NEW own, NEW lab, NEW cur, NEW n, NEW an,
           Coupled(m, sym, own, lab, cur, n, an), n > 0, Speaks(an[n])
    PROVE  /\ n - 1 \in Nat \ {0} /\ ~Over(an[n - 1]) /\ Loose(an[n - 1]) /\ n \in Nat
           /\ <<an[n - 1].state,
                IF an[n].sem_action = "sem_expr_result" THEN "expr" ELSE "param",
                cur[n - 1]>> \in Rows(an[n - 1].sem_action)
<1>1. n \in Nat \ {0}
  BY DEF Coupled, Heights, Ordered
<1>2. Heard(n, an, n)
  BY <1>1 DEF Coupled, Voiced
<1>3. n - 1 \in 1 .. n /\ ~Over(an[n - 1]) /\ n - 1 # n /\ n - 1 + 1 = n
  BY <1>1, <1>2 DEF Heard
<1>4. Standing(n, an, cur, n - 1)
  BY <1>3 DEF Coupled, Rowed
<1> DEFINE above == IF an[n].sem_action = "sem_expr_result" THEN "expr" ELSE "param"
           action == an[n - 1].sem_action
<1>5. AboveAt(n, an, n - 1) = above
  BY <1>3 DEF AboveAt, Speaks
<1>6. <<an[n - 1].state, above, cur[n - 1]>> \in Rows(action)
  BY <1>3, <1>4, <1>5 DEF Standing
<1>7. action \in Actions
  BY <1>6, RowsHaveActions
<1>8. Orderly(action, Rows(action), Places(action))
  BY <1>7, TablesAreOrderly DEF AllActions
<1>9. action \notin {"sem_scope", "sem_param_decl", "sem_expr_result"}
  <2>1. above = "expr" \/ above = "param"
    OBVIOUS
  <2> HIDE DEF above
  <2> QED BY <1>6, <1>8, <2>1 DEF Orderly
<1> QED BY <1>1, <1>3, <1>6, <1>9 DEF Loose

\* Nothing speaks where the next symbol is a nonterminal with an action.
LEMMA StarterOnTop ==
    ASSUME NEW m, NEW sym, NEW own, NEW lab, NEW cur, NEW n, NEW an,
           Coupled(m, sym, own, lab, cur, n, an), sym[m] \in Starters
    PROVE  /\ m > 1
           /\ Waits(sym[m], ActionAt(an, own[m]), lab[m], Below(own, lab, m))
           /\ own[m] # 0 => ~Over(an[own[m]])
           /\ n > 0 => ~Speaks(an[n])
           /\ n > 0 /\ an[n].sem_action \in {"sem_var_decl", "sem_exit", "sem_continue"} => Over(an[n])
<1>1. OnTop(m, sym, own, lab, cur, n, an)
  BY TopHeight DEF Coupled
<1> DEFINE action == ActionAt(an, own[m])
<1>0. sym[m] \notin {"EOF", "EOL", "IF"}
  BY DEF Starters, Statements
<1>2. m > 1
  BY <1>0, <1>1, BottomIsEOF DEF OnTop, Coupled
<1>3. Waits(sym[m], action, lab[m], Below(own, lab, m))
  BY <1>1, OwnersWait DEF OnTop
<1>4. own[m] # 0 => ~Over(an[own[m]])
  BY <1>0, OwnerWaits
<1>5. Settled(own, m, n, an)
  BY <1>0, OnlyEOLsEndStatements DEF Coupled, Heights
<1>6. ASSUME n > 0, Speaks(an[n])
      PROVE  FALSE
  <2>1. /\ n - 1 \in Nat \ {0} /\ Loose(an[n - 1]) /\ n \in Nat
        /\ <<an[n - 1].state,
             IF an[n].sem_action = "sem_expr_result" THEN "expr" ELSE "param",
             cur[n - 1]>> \in Rows(an[n - 1].sem_action)
    BY <1>6, SpeaksOnTop
  <2>2. CASE own[m] < n - 1
    BY <1>1, <1>5, <2>1, <2>2 DEF OnTop, Settled
  <2>3. CASE own[m] = n - 1
    <3>1. cur[n - 1] = lab[m] /\ action = an[n - 1].sem_action
      BY <1>1, <2>1, <2>3 DEF OnTop, ActionAt
    <3>2. <<an[n - 1].state, "expr", lab[m]>> \notin Rows(action)
          /\ <<an[n - 1].state, "param", lab[m]>> \notin Rows(action)
      BY <1>3 DEF Waits
    <3> QED BY <2>1, <3>1, <3>2
  <2>4. CASE own[m] = n
    <3>1. Heard(n, an, n) /\ own[m] # 0
      BY <2>1, <2>4 DEF Coupled, Voiced
    <3>2. ~Over(an[n])
      BY <1>4, <2>4, <3>1
    <3>3. an[n].sem_action = "sem_param_decl" /\ action = "sem_param_decl"
      BY <1>6, <2>4, <3>1, <3>2 DEF Heard, Speaks, ActionAt
    <3>4. <<lab[m], sym[m], Below(own, lab, m)>> \in ParamPlaces
      BY <1>1, <3>3, Tabled DEF OnTop
    <3> QED BY <3>4 DEF ParamPlaces, Starters, Statements, TypeSymbols, Types
  <2> QED BY <1>1, <2>1, <2>2, <2>3, <2>4 DEF OnTop
<1>7. ASSUME n > 0, an[n].sem_action \in {"sem_var_decl", "sem_exit", "sem_continue"}, ~Over(an[n])
      PROVE  FALSE
  <2>1. own[m] \in 0 .. n /\ n \in Nat
    BY <1>1 DEF OnTop
  <2>2. CASE own[m] = n
    BY <1>3, <1>7, <2>2 DEF Waits, ActionAt
  <2>3. CASE own[m] # n
    BY <1>5, <1>7, <2>1, <2>3 DEF Settled, Loose
  <2> QED BY <2>2, <2>3
<1> QED BY <1>2, <1>3, <1>4, <1>6, <1>7
-----------------------------------------------------------------------------
(* The steps of the parser on the two stacks.  Above m - 1 there is        *)
(* something else now, sym2 and own2.                                      *)

\* The owner of the symbol on the top goes on behind it.
After(own, lab, cur, m, n) ==
    [d \in 0 .. n |-> IF d = own[m] THEN Below(own, lab, m) ELSE cur[d]]

LEMMA Together ==
    ASSUME NEW m, NEW sym, NEW own, NEW lab, NEW cur, NEW n, NEW an,
           Heights(m, sym, own, lab, cur, n, an),
           Rowed(n, an, cur), Voiced(n, an), Lined(m, sym, own, n, an)
    PROVE  Coupled(m, sym, own, lab, cur, n, an)
  BY DEF Coupled

LEMMA PushedLined ==
    ASSUME NEW m, NEW sym, NEW own, NEW n, NEW an, Ordered(m, own, n), Lined(m, sym, own, n, an),
           NEW e \in own[m] .. n, NEW len \in Nat \ {0}, NEW p, Pushed(p, len, m, e, sym, own),
           \A d \in e + 1 .. n : ~Loose(an[d])
    PROVE  Lined(m + len, sym, own, n, an)
<1>1. /\ \A h \in m + 1 .. m + len : own[h] = e
      /\ Agree(m, sym, sym) /\ Agree(m, own, own)
  BY DEF Pushed, Agree
<1> QED BY <1>1, LinedPush

LEMMA Dropped ==
    ASSUME NEW m, NEW sym, NEW own, NEW lab, NEW cur, NEW n, NEW an,
           Coupled(m, sym, own, lab, cur, n, an), m > 1,
           NEW sym2, NEW own2, Agree(m - 1, sym, sym2), Agree(m - 1, own, own2)
    PROVE  Heights(m - 1, sym2, own2, lab, After(own, lab, cur, m, n), n, an)
<1> DEFINE cur2 == After(own, lab, cur, m, n)
<1>1. \A d \in 0 .. n : cur2[d] = IF d = own[m] THEN Below(own, lab, m) ELSE cur[d]
  BY DEF After
<1> HIDE DEF cur2
<1>2. Heights(m - 1, sym, own, lab, cur2, n, an)
  BY <1>1, PopHeight DEF Coupled
<1>3. Heights(m - 1, sym2, own2, lab, cur2, n, an)
  BY <1>2, SameHeights DEF SameActions
<1> QED BY <1>3 DEF cur2

\* A rule without an action
LEMMA Expands ==
    ASSUME NEW m, NEW sym, NEW own, NEW lab, NEW cur, NEW n, NEW an,
           Coupled(m, sym, own, lab, cur, n, an), m > 1, sym[m] \notin {"EOL", "IF"},
           NEW len \in Nat, NEW p, Len(p) = len, DOMAIN p = 1 .. len, NEW l,
           Unfolds(p, lab[m], Below(own, lab, m), l, ActionAt(an, own[m])),
           NEW sym2, NEW own2, Agree(m - 1, sym, sym2), Agree(m - 1, own, own2),
           Pushed(p, len, m - 1, own[m], sym2, own2)
    PROVE  \E lab2, cur2 : Coupled(m - 1 + len, sym2, own2, lab2, cur2, n, an)
<1> DEFINE d == own[m]
           j == Below(own, lab, m)
           cur1 == After(own, lab, cur, m, n)
           cur2 == [e \in 0 .. n |-> IF e = d THEN First(p, j, l) ELSE cur[e]]
<1>1. /\ m - 1 \in Nat \ {0} /\ m \in Nat /\ n \in Nat /\ d \in 0 .. n /\ own[m - 1] \in 0 .. d
      /\ cur[d] = lab[m]
  <2>1. OnTop(m, sym, own, lab, cur, n, an)
    BY TopHeight DEF Coupled
  <2> QED BY <2>1 DEF OnTop
<1>2. Heights(m - 1, sym2, own2, lab, cur1, n, an)
  BY Dropped
<1>3. Settled(own, m, n, an)
  BY OnlyEOLsEndStatements DEF Coupled, Heights
<1>4. Lined(m - 1, sym2, own2, n, an)
  <2>1. Lined(m - 1, sym, own, n, an)
    BY <1>3, LinedPop DEF Coupled, Heights
  <2>2. Ordered(m - 1, own, n)
    BY <1>1 DEF Coupled, Heights, Ordered
  <2> QED BY <2>1, <2>2, LinedSame
<1>5. own2[m - 1] = own[m - 1]
  BY <1>1 DEF Agree
<1>6. /\ \A e \in 0 .. n : cur2[e] = IF e = d THEN First(p, j, l) ELSE cur[e]
      /\ \A e \in 0 .. n : cur1[e] = IF e = d THEN j ELSE cur[e]
  BY DEF After
<1>7. Rowed(n, an, cur2)
  <2> SUFFICES ASSUME NEW e \in 1 .. n PROVE Standing(n, an, cur2, e)
    BY DEF Rowed
  <2>1. Standing(n, an, cur, e)
    BY DEF Coupled, Rowed
  <2>2. CASE e # d
    BY <1>6, <2>1, <2>2 DEF Standing
  <2>3. CASE e = d
    <3>1. d # 0 /\ ActionAt(an, d) = an[e].sem_action
      BY <1>1, <2>3 DEF ActionAt
    <3>2. ~Over(an[d])
      BY <3>1, OwnerWaits
    <3>3. <<an[d].state, AboveAt(n, an, d), lab[m]>> \in Rows(ActionAt(an, d))
      BY <3>1, <3>2, <2>3, OwnerWaits
    <3>4. <<an[d].state, AboveAt(n, an, d), First(p, j, l)>> \in Rows(ActionAt(an, d))
      BY <3>3 DEF Unfolds
    <3> QED BY <1>1, <1>6, <2>3, <3>1, <3>2, <3>4 DEF Standing
  <2> QED BY <2>2, <2>3
<1> HIDE DEF cur1, cur2, j
<1>8. CASE len = 0
  <2>1. First(p, j, l) = j
    BY <1>8 DEF First
  <2>2. Heights(m - 1, sym2, own2, lab, cur2, n, an)
    BY <1>2, <1>6, <2>1, SameHeights DEF Agree, SameActions
  <2>3. Coupled(m - 1, sym2, own2, lab, cur2, n, an)
    BY <1>4, <1>7, <2>2 DEF Coupled
  <2> QED BY <1>1, <1>8, <2>3
<1>9. CASE len # 0
  <2>1. First(p, j, l) = l[1] /\ cur1[d] = j /\ d \in own2[m - 1] .. n /\ len \in Nat \ {0}
    BY <1>1, <1>5, <1>6, <1>9 DEF First
  <2>2. Fitted(p, len, l, cur1[d], ActionAt(an, d))
    BY <2>1 DEF Unfolds, Fitted, j
  <2>3. Pushed(p, len, m - 1, d, sym2, own2)
    OBVIOUS
  <2>4. Moved(cur1, cur2, n, d, l[1])
    BY <1>6, <2>1 DEF Moved
  <2> HIDE DEF d
  <2>6. HeightsFor((m - 1) + len, sym2, own2, cur2, n, an)
    BY <1>2, <2>1, <2>2, <2>3, <2>4, PushHeights
  <2>7. Lined((m - 1) + len, sym2, own2, n, an)
    <3>1. Ordered(m - 1, own2, n)
      BY <1>2 DEF Heights
    <3>2. \A e \in d + 1 .. n : ~Loose(an[e])
      BY <1>3 DEF Settled, d
    <3> QED BY <1>4, <2>1, <2>3, <3>1, <3>2, PushedLined
  <2>8. PICK lab2 : Heights((m - 1) + len, sym2, own2, lab2, cur2, n, an)
    BY <2>6 DEF HeightsFor
  <2>9. Coupled((m - 1) + len, sym2, own2, lab2, cur2, n, an)
    BY <1>7, <2>7, <2>8 DEF Coupled
  <2> QED BY <2>9
<1> QED BY <1>8, <1>9

\* A rule with an action, which puts analyzer n + 1 on the stack
LEMMA PutsAnalyzer ==
    ASSUME NEW m, NEW sym, NEW own, NEW lab, NEW cur, NEW n, NEW an,
           Coupled(m, sym, own, lab, cur, n, an), sym[m] \in Starters,
           NEW len \in Nat, NEW p, Len(p) = len, DOMAIN p = 1 .. len, NEW l,
           Begins(p, ActionOf(sym[m]), l),
           NEW sym2, NEW own2, Agree(m - 1, sym, sym2), Agree(m - 1, own, own2),
           Pushed(p, len, m - 1, n + 1, sym2, own2),
           NEW an2, Agree(n, an, an2), an2[n + 1].sem_action = ActionOf(sym[m]),
           an2[n + 1].state = "START", an2[n + 1].finished = FALSE
    PROVE  \E lab2, cur2 : Coupled(m - 1 + len, sym2, own2, lab2, cur2, n + 1, an2)
<1> DEFINE d == own[m]
           j == Below(own, lab, m)
           action == ActionOf(sym[m])
           cur1 == After(own, lab, cur, m, n)
           cur0 == [e \in 0 .. n + 1 |-> IF e = n + 1 THEN 0 ELSE cur1[e]]
           now == [e \in 0 .. n + 1 |-> IF e = n + 1 THEN l[1] ELSE cur1[e]]
<1>0. /\ m > 1 /\ Waits(sym[m], ActionAt(an, d), lab[m], j)
      /\ d # 0 => ~Over(an[d])
      /\ n > 0 => ~Speaks(an[n])
  BY StarterOnTop
<1>1. /\ m - 1 \in Nat \ {0} /\ m \in Nat /\ n \in Nat /\ d \in 0 .. n /\ own[m - 1] \in 0 .. d
      /\ cur[d] = lab[m]
  <2>1. OnTop(m, sym, own, lab, cur, n, an)
    BY TopHeight DEF Coupled
  <2> QED BY <2>1, <1>0 DEF OnTop
<1>2. Heights(m - 1, sym2, own2, lab, cur1, n, an)
  BY <1>0, Dropped
<1>3. sym[m] \notin {"EOL", "IF"} /\ Settled(own, m, n, an)
  <2>1. sym[m] \notin {"EOL", "IF"}
    BY DEF Starters, Statements
  <2> QED BY <2>1, OnlyEOLsEndStatements DEF Coupled, Heights
<1>4. Lined(m - 1, sym2, own2, n, an)
  <2>1. Lined(m - 1, sym, own, n, an)
    BY <1>0, <1>3, LinedPop DEF Coupled, Heights
  <2>2. Ordered(m - 1, own, n)
    BY <1>1 DEF Coupled, Heights, Ordered
  <2> QED BY <2>1, <2>2, LinedSame
<1>5. own2[m - 1] = own[m - 1] /\ sym2[m - 1] = sym[m - 1]
  BY <1>1 DEF Agree
<1>6. /\ \A e \in 0 .. n : e # n + 1 /\ cur0[e] = cur1[e] /\ now[e] = cur1[e]
      /\ cur0[n + 1] = 0 /\ now[n + 1] = l[1]
      /\ \A e \in 0 .. n : cur1[e] = IF e = d THEN j ELSE cur[e]
      /\ \A e \in 0 .. n + 1 : now[e] = IF e = n + 1 THEN l[1] ELSE cur0[e]
  BY <1>1 DEF After
<1>7. action \in Actions /\ len # 0 /\ <<"START", "none", l[1]>> \in Rows(action)
  BY DEF Begins
<1>8. Loose(an2[n + 1]) => sym2[m - 1] = "EOL"
  <2> SUFFICES ASSUME Loose(an2[n + 1]) PROVE sym2[m - 1] = "EOL"
    OBVIOUS
  <2>1. j # 0 /\ \A s, k : <<j, s, k>> \in Places(ActionAt(an, d)) => s = "EOL"
    BY <1>0 DEF Loose, Waits
  <2>2. own[m - 1] = d /\ j = lab[m - 1]
    BY <2>1 DEF Below
  <2>3. \E k : <<lab[m - 1], sym[m - 1], k>> \in Places(ActionAt(an, own[m - 1]))
    <3>1. m - 1 \in 1 .. m
      BY <1>1
    <3>2. Placed(m, sym, own, lab, an)
      BY DEF Coupled, Heights
    <3>3. <<lab[m - 1], sym[m - 1], Below(own, lab, m - 1)>> \in Places(ActionAt(an, own[m - 1]))
      BY <3>1, <3>2 DEF Placed
    <3> QED BY <3>3
  <2> QED BY <1>5, <2>1, <2>2, <2>3
<1> HIDE DEF cur0, cur1, now, j
<1>9. Rowed(n + 1, an2, now)
  <2> SUFFICES ASSUME NEW e \in 1 .. n + 1 PROVE Standing(n + 1, an2, now, e)
    BY DEF Rowed
  <2>1. CASE e = n + 1
    BY <1>6, <1>7, <2>1 DEF Standing, Over, AboveAt
  <2>2. CASE e # n + 1
    <3>1. e \in 1 .. n /\ an2[e] = an[e] /\ now[e] = (IF e = d THEN j ELSE cur[e])
      BY <1>1, <1>6, <2>2 DEF Agree
    <3>2. Standing(n, an, cur, e)
      BY <3>1 DEF Coupled, Rowed
    <3>3. CASE e = n
      <4>0. e + 1 = n + 1 /\ n > 0
        BY <1>1, <3>1, <3>3
      <4>1. AboveAt(n, an, e) = "none" /\ AboveAt(n + 1, an2, e) = AboveFor(action)
        BY <1>1, <1>7, <2>2, <3>3, <4>0 DEF AboveAt, AboveFor, Actions
      <4>2. CASE e = d
        <5>1. ActionAt(an, d) = an[e].sem_action
          BY <3>1, <4>2 DEF ActionAt
        <5>2. ~Over(an[e]) /\ <<an[e].state, "none", lab[m]>> \in Rows(an[e].sem_action)
          BY <1>0, <1>1, <3>1, <3>2, <4>1, <4>2 DEF Standing
        <5>3. <<an[e].state, AboveFor(action), j>> \in Rows(an[e].sem_action)
          BY <1>0, <5>1, <5>2 DEF Waits
        <5> QED BY <3>1, <4>1, <4>2, <5>2, <5>3 DEF Standing
      <4>3. CASE e # d
        <5>1. d \in 0 .. n - 1 /\ ~Loose(an[n])
          BY <1>1, <1>3, <3>1, <3>3, <4>3 DEF Settled
        <5>2. Heights(m, sym, own, lab, cur, n, an)
          BY DEF Coupled
        <5>3. cur[n] = 0
          <6>1. OnTop(m, sym, own, lab, cur, n, an)
            BY <5>2, TopHeight
          <6> QED BY <1>1, <5>1, <6>1 DEF OnTop
        <5>4. CASE Over(an[n])
          BY <3>1, <3>3, <4>3, <5>3, <5>4 DEF Standing
        <5>5. CASE ~Over(an[n])
          <6>1. an[n].sem_action = "sem_scope"
            BY <1>0, <4>0, <5>1, <5>5 DEF Loose, Speaks
          <6>2. <<an[n].state, "none", 0>> \in Rows("sem_scope")
            BY <3>2, <3>3, <4>1, <5>3, <5>5, <6>1 DEF Standing
          <6> QED BY <6>2, Tabled DEF ScopeRows
        <5> QED BY <5>4, <5>5
      <4> QED BY <4>2, <4>3
    <3>4. CASE e # n
      <4>1. e + 1 \in 1 .. n /\ an2[e + 1] = an[e + 1]
        BY <1>1, <3>1, <3>4 DEF Agree
      <4>2. AboveAt(n + 1, an2, e) = AboveAt(n, an, e)
        BY <2>2, <3>4, <4>1 DEF AboveAt
      <4>3. CASE e # d
        BY <2>2, <3>1, <3>2, <3>4, <4>2, <4>3 DEF Standing
      <4>4. CASE e = d
        <5>1. ActionAt(an, d) = an[e].sem_action
          BY <3>1, <4>4 DEF ActionAt
        <5>2. ~Over(an[e]) /\ <<an[e].state, AboveAt(n, an, e), lab[m]>> \in Rows(an[e].sem_action)
          BY <1>0, <1>1, <3>1, <3>2, <4>4 DEF Standing
        <5>3. AboveAt(n, an, e) # "none"
          BY <3>4, AboveIsNone
        <5>4. AboveAt(n, an, e) = "other"
          BY <1>0, <5>1, <5>2, <5>3 DEF Waits
        <5>5. <<an[e].state, "other", j>> \in Rows(an[e].sem_action)
          BY <1>0, <5>1, <5>2, <5>4 DEF Waits
        <5> QED BY <3>1, <4>2, <4>4, <5>2, <5>4, <5>5 DEF Standing
      <4> QED BY <4>3, <4>4
    <3> QED BY <3>3, <3>4
  <2> QED BY <2>1, <2>2
<1>10. Voiced(n + 1, an2)
  <2> SUFFICES ASSUME NEW e \in 1 .. n + 1 PROVE Heard(n + 1, an2, e)
    BY DEF Voiced
  <2>1. CASE e = n + 1
    <3>1. an2[e].sem_action = action /\ action # "sem_expr_result" /\ n + 1 - 1 = n
      BY <1>1, <1>7, <2>1 DEF Actions
    <3>2. CASE action # "sem_param_decl"
      BY <3>1, <3>2 DEF Heard, Speaks
    <3>3. CASE action = "sem_param_decl"
      <4>1. sym[m] = "NT_PARAM_DECL"
        BY <3>3 DEF Starters, Statements, ActionOf
      <4>2. ActionAt(an, d) \in {"sem_func_decl", "sem_func_def"}
        <5>1. <<lab[m], sym[m], j>> \in Places(ActionAt(an, d))
          BY <1>1, TopHeight DEF Coupled, Heights, Placed, j
        <5>2. ActionAt(an, d) \in AllActions
          BY <5>1, PlacesHaveActions
        <5>3. "NT_PARAM_DECL" \notin Statements
          BY DEF Statements
        <5> QED BY <4>1, <5>1, <5>2, <5>3, WhereStarters
      <4>3. d # 0 /\ ActionAt(an, d) = an[d].sem_action
        BY <4>2 DEF ActionAt
      <4>4. d = n
        <5>1. ~Over(an[d]) /\ <<an[d].state, AboveAt(n, an, d), lab[m]>> \in Rows(an[d].sem_action)
          BY <1>0, <4>3, OwnerWaits
        <5>2. CASE AboveAt(n, an, d) = "none"
          BY <5>2, AboveIsNone
        <5>3. CASE AboveAt(n, an, d) # "none"
          <6>1. AboveAt(n, an, d) = "other"
            BY <1>0, <4>3, <5>1, <5>3 DEF Waits
          <6>2. <<ActionAt(an, d), lab[m]>> \in {<<"sem_func_decl", 11>>, <<"sem_func_def", 12>>}
            <7>1. <<lab[m], sym[m], j>> \in Places(ActionAt(an, d))
              BY <1>1, TopHeight DEF Coupled, Heights, Placed, j
            <7>2. ActionAt(an, d) \in AllActions
              BY <7>1, PlacesHaveActions
            <7>3. "NT_PARAM_DECL" \notin Statements
              BY DEF Statements
            <7> QED BY <4>1, <7>1, <7>2, <7>3, WhereStarters
          <6>3. <<an[d].state, "other", lab[m]>> \in Rows(ActionAt(an, d))
            BY <4>3, <5>1, <6>1
          <6> QED BY <6>2, <6>3, Tabled DEF DeclRows, DefRows
        <5> QED BY <5>2, <5>3
      <4>5. e > 1 /\ an2[e - 1] = an[n] /\ ~Over(an[n])
        BY <1>0, <1>1, <2>1, <4>3, <4>4 DEF Agree
      <4> QED BY <2>1, <3>1, <4>5 DEF Heard
    <3> QED BY <3>2, <3>3
  <2>2. CASE e # n + 1
    <3>1. e \in 1 .. n /\ an2[e] = an[e]
      BY <1>1, <2>2 DEF Agree
    <3>2. Heard(n, an, e)
      BY <3>1 DEF Coupled, Voiced
    <3>3. CASE Speaks(an[e])
      BY <1>0, <3>1, <3>2, <3>3 DEF Heard
    <3>4. CASE ~Speaks(an[e])
      BY <3>1, <3>2, <3>4 DEF Heard, Speaks
    <3> QED BY <3>3, <3>4
  <2> QED BY <2>1, <2>2
<1>11. Heights(m - 1, sym2, own2, lab, cur0, n + 1, an2)
  BY <1>2, <1>6, AddFrame DEF Agree, SameActions
<1>12. Lined(m - 1, sym2, own2, n + 1, an2)
  BY <1>2, <1>4, <1>8, LinedAdd DEF Heights
<1>13. Moved(cur0, now, n + 1, n + 1, l[1])
  BY <1>6 DEF Moved
<1>14. n + 1 \in own2[m - 1] .. n + 1 /\ len \in Nat \ {0}
  BY <1>1, <1>5, <1>7
<1>15. HeightsFor((m - 1) + len, sym2, own2, now, n + 1, an2)
  <2>1. Fitted(p, len, l, cur0[n + 1], ActionAt(an2, n + 1))
    <3>1. ActionAt(an2, n + 1) = action
      BY <1>1 DEF ActionAt
    <3> QED BY <1>6, <3>1 DEF Begins, Fitted
  <2> QED BY <1>11, <1>13, <1>14, <2>1, PushHeights
<1>16. Lined((m - 1) + len, sym2, own2, n + 1, an2)
  <2>1. Ordered(m - 1, own2, n + 1)
    BY <1>11 DEF Heights
  <2>2. \A e \in n + 1 + 1 .. n + 1 : ~Loose(an2[e])
    BY <1>1
  <2> QED BY <1>12, <1>14, <2>1, <2>2, PushedLined
<1>17. \E places : Coupled((m - 1) + len, sym2, own2, places, now, n + 1, an2)
  <2>1. PICK places : Heights((m - 1) + len, sym2, own2, places, now, n + 1, an2)
    BY <1>15 DEF HeightsFor
  <2>2. Coupled((m - 1) + len, sym2, own2, places, now, n + 1, an2)
    BY <1>9, <1>10, <1>16, <2>1, Together
  <2> QED BY <2>2
<1> QED BY <1>17

LEMMA ExpectsNobody ==
    ASSUME NEW action, NEW state, NEW above, above \in {"expr", "param"}, NEW i,
           <<state, above, i>> \in Rows(action)
    PROVE  action \notin {"program", "sem_scope", "sem_param_decl", "sem_expr_result"}
<1>1. action \in Actions
  BY RowsHaveActions
<1>2. Orderly(action, Rows(action), Places(action))
  BY <1>1, TablesAreOrderly DEF AllActions
<1> QED BY <1>1, <1>2 DEF Orderly

\* An expression leaves its value in an analyzer of its own.
LEMMA ExpressionLeavesValue ==
    ASSUME NEW m, NEW sym, NEW own, NEW lab, NEW cur, NEW n, NEW an,
           Coupled(m, sym, own, lab, cur, n, an), sym[m] = "NT_EXPRESSION",
           NEW sym2, NEW own2, Agree(m - 1, sym, sym2), Agree(m - 1, own, own2),
           NEW an2, Agree(n, an, an2), an2[n + 1].sem_action = "sem_expr_result", Over(an2[n + 1]),
           an2[n + 1].value.value_type = "ID"
    PROVE  Joined(m - 1, sym2, own2, n + 1, an2)
<1> DEFINE j == Below(own, lab, m)
           cur1 == After(own, lab, cur, m, n)
           now == [e \in 0 .. n + 1 |-> IF e = n + 1 THEN 0 ELSE cur1[e]]
<1>1. /\ m > 1 /\ own[m] = n /\ n \in Nat \ {0} /\ ~Over(an[n])
      /\ <<an[n].state, "expr", j>> \in Rows(an[n].sem_action)
  BY ExpressionOnTop
<1>2. m \in Nat /\ m - 1 \in Nat \ {0} /\ n + 1 \in Nat /\ n + 1 > 1 /\ n + 1 - 1 = n
  BY <1>1 DEF Coupled, Heights, Ordered
<1>3. Heights(m - 1, sym2, own2, lab, cur1, n, an)
  BY <1>1, Dropped
<1>4. /\ \A e \in 0 .. n : now[e] = cur1[e]
      /\ now[n + 1] = 0
      /\ \A e \in 0 .. n : cur1[e] = IF e = n THEN j ELSE cur[e]
  BY <1>1 DEF After
<1> HIDE DEF cur1, now, j
<1>5. Heights(m - 1, sym2, own2, lab, now, n + 1, an2)
  <2>1. SameActions(n, an, an2)
    BY DEF SameActions, Agree
  <2> QED BY <1>3, <1>4, <2>1, AddFrame
<1>6. Rowed(n + 1, an2, now)
  <2> SUFFICES ASSUME NEW e \in 1 .. n + 1 PROVE Standing(n + 1, an2, now, e)
    BY DEF Rowed
  <2>1. CASE e = n + 1
    BY <1>4, <2>1 DEF Standing
  <2>2. CASE e = n
    <3>1. an2[e] = an[n] /\ now[e] = j /\ AboveAt(n + 1, an2, e) = "expr"
      BY <1>1, <1>4, <2>2 DEF AboveAt, Agree
    <3> QED BY <1>1, <3>1 DEF Standing
  <2>3. CASE e \in 1 .. n - 1
    <3>1. an2[e] = an[e] /\ an2[e + 1] = an[e + 1] /\ now[e] = cur[e] /\ e # n /\ e # n + 1 /\ e \in 1 .. n
      BY <1>1, <1>4, <2>3 DEF Agree
    <3>2. AboveAt(n + 1, an2, e) = AboveAt(n, an, e)
      BY <3>1 DEF AboveAt
    <3>3. Standing(n, an, cur, e)
      BY <3>1 DEF Coupled, Rowed
    <3> QED BY <3>1, <3>2, <3>3 DEF Standing
  <2> QED BY <1>1, <2>1, <2>2, <2>3
<1>7. Voiced(n + 1, an2)
  <2> SUFFICES ASSUME NEW e \in 1 .. n + 1 PROVE Heard(n + 1, an2, e)
    BY DEF Voiced
  <2>1. CASE e = n + 1
    <3>1. an2[e - 1] = an[n]
      BY <1>1, <2>1 DEF Agree
    <3> QED BY <1>1, <1>2, <2>1, <3>1 DEF Heard
  <2>2. CASE e = n
    <3>1. an2[e] = an[n]
      BY <1>1, <2>2 DEF Agree
    <3>2. an[n].sem_action \notin {"sem_param_decl", "sem_expr_result"}
      BY <1>1, ExpectsNobody
    <3> QED BY <3>1, <3>2 DEF Heard, Speaks
  <2>3. CASE e \in 1 .. n - 1
    <3>1. an2[e] = an[e] /\ e # n /\ e \in 1 .. n
      BY <1>1, <2>3 DEF Agree
    <3>2. Heard(n, an, e)
      BY <3>1 DEF Coupled, Voiced
    <3> QED BY <3>1, <3>2 DEF Heard, Speaks
  <2> QED BY <1>1, <2>1, <2>2, <2>3
<1>8. Lined(m - 1, sym2, own2, n + 1, an2)
  <2>1. Ordered(m, own, n) /\ Lined(m, sym, own, n, an)
    BY DEF Coupled, Heights
  <2>2. Settled(own, m, n, an)
    <3>1. sym[m] # "EOL"
      OBVIOUS
    <3> QED BY <2>1, <3>1, OnlyEOLsEndStatements
  <2>3. Lined(m - 1, sym, own, n, an)
    BY <1>1, <2>1, <2>2, LinedPop
  <2>4. Ordered(m - 1, own, n)
    BY <1>2, <2>1 DEF Ordered
  <2>5. Lined(m - 1, sym2, own2, n, an)
    BY <2>3, <2>4, LinedSame
  <2>6. Ordered(m - 1, own2, n)
    BY <1>3 DEF Heights
  <2>7. ~Loose(an2[n + 1])
    BY DEF Loose
  <2> QED BY <2>5, <2>6, <2>7, LinedAdd
<1>9. Coupled(m - 1, sym2, own2, lab, now, n + 1, an2)
  BY <1>5, <1>6, <1>7, <1>8, Together
<1> QED BY <1>9 DEF Joined

\* A finished analyzer that no symbol belongs to is removed.
LEMMA FinishedIsRemoved ==
    ASSUME NEW m, NEW sym, NEW own, NEW lab, NEW cur, NEW n, NEW an,
           Coupled(m, sym, own, lab, cur, n, an), n > 0, own[m] # n,
           NEW an2, SameActions(n - 1, an, an2), Agree(n - 2, an, an2),
           n > 1 => Standing(n - 1, an2, cur, n - 1) /\ (Loose(an2[n - 1]) => Loose(an[n - 1]))
    PROVE  Coupled(m, sym, own, lab, cur, n - 1, an2)
<1>1. n \in Nat \ {0} /\ n - 1 \in Nat
  BY DEF Coupled, Heights, Ordered
<1>2. Heights(m, sym, own, lab, cur, n - 1, an2)
  BY DropFrame DEF Coupled
<1>3. Rowed(n - 1, an2, cur)
  <2> SUFFICES ASSUME NEW e \in 1 .. n - 1 PROVE Standing(n - 1, an2, cur, e)
    BY DEF Rowed
  <2>1. CASE e = n - 1
    BY <1>1, <2>1
  <2>2. CASE e # n - 1
    <3>1. e \in 1 .. n /\ e # n /\ e \in 1 .. n - 2 /\ e + 1 \in 1 .. n - 1
      BY <1>1, <2>2
    <3>2. an2[e] = an[e] /\ an2[e + 1].sem_action = an[e + 1].sem_action
      BY <3>1 DEF Agree, SameActions
    <3>3. AboveAt(n - 1, an2, e) = AboveAt(n, an, e)
      BY <2>2, <3>1, <3>2 DEF AboveAt
    <3>4. Standing(n, an, cur, e)
      BY <3>1 DEF Coupled, Rowed
    <3> QED BY <3>1, <3>2, <3>3, <3>4 DEF Standing
  <2> QED BY <2>1, <2>2
<1>4. Voiced(n - 1, an2)
  <2> SUFFICES ASSUME NEW e \in 1 .. n - 1 PROVE Heard(n - 1, an2, e)
    BY DEF Voiced
  <2>1. e \in 1 .. n /\ e # n
    BY <1>1
  <2>2. Heard(n, an, e) /\ an2[e].sem_action = an[e].sem_action
    BY <2>1 DEF Coupled, Voiced, SameActions
  <2> QED BY <2>1, <2>2 DEF Heard, Speaks
<1>5. Lined(m, sym, own, n - 1, an2)
  <2>1. ASSUME NEW e \in 1 .. n - 1, Loose(an2[e])
        PROVE  Loose(an[e])
    <3>1. CASE e = n - 1
      BY <1>1, <2>1, <3>1
    <3>2. CASE e # n - 1
      <4>1. e \in 1 .. n - 2
        BY <1>1, <3>2
      <4> QED BY <2>1, <4>1 DEF Agree
    <3> QED BY <3>1, <3>2
  <2> QED BY <1>1, <2>1, LinedDrop DEF Coupled
<1> QED BY <1>2, <1>3, <1>4, <1>5, Together

\* The topmost analyzer reads a symbol of its rule.
LEMMA AnalyzerReads ==
    ASSUME NEW m, NEW sym, NEW own, NEW lab, NEW cur, NEW n, NEW an,
           Coupled(m, sym, own, lab, cur, n, an), n > 0, own[m] = n, ~Over(an[n]),
           NEW sym2, NEW own2, Agree(m - 1, sym, sym2), Agree(m - 1, own, own2),
           NEW an2, SameActions(n, an, an2), Agree(n - 1, an, an2),
           Over(an2[n]) <=> an2[n].finished,
           Fits(an2[n].sem_action, an2[n].state, an2[n].finished, Below(own, lab, m))
    PROVE  Joined(m - 1, sym2, own2, n, an2)
<1> DEFINE j == Below(own, lab, m)
           now == After(own, lab, cur, m, n)
<1>1. n \in Nat \ {0} /\ m > 1 /\ m \in Nat /\ m - 1 \in Nat \ {0}
  <2>1. OnTop(m, sym, own, lab, cur, n, an)
    BY TopHeight DEF Coupled
  <2> QED BY <2>1 DEF OnTop
<1>2. Heights(m - 1, sym2, own2, lab, now, n, an)
  BY <1>1, Dropped
<1>3. \A e \in 0 .. n : now[e] = IF e = n THEN j ELSE cur[e]
  BY DEF After
<1> HIDE DEF now, j
<1>4. Heights(m - 1, sym2, own2, lab, now, n, an2)
  BY <1>2, SameHeights DEF Agree
<1>5. Rowed(n, an2, now)
  <2> SUFFICES ASSUME NEW e \in 1 .. n PROVE Standing(n, an2, now, e)
    BY DEF Rowed
  <2>1. CASE e = n
    <3>1. AboveAt(n, an2, e) = "none" /\ now[e] = j
      BY <1>1, <1>3, <2>1 DEF AboveAt
    <3>2. Fits(an2[n].sem_action, an2[n].state, an2[n].finished, j)
      BY DEF j
    <3> QED BY <2>1, <3>1, <3>2 DEF Standing, Fits
  <2>2. CASE e # n
    <3>1. e \in 1 .. n - 1 /\ e + 1 \in 1 .. n
      BY <1>1, <2>2
    <3>2. an2[e] = an[e] /\ an2[e + 1].sem_action = an[e + 1].sem_action /\ now[e] = cur[e]
      BY <1>3, <2>2, <3>1 DEF Agree, SameActions
    <3>3. AboveAt(n, an2, e) = AboveAt(n, an, e)
      BY <2>2, <3>2 DEF AboveAt
    <3>4. Standing(n, an, cur, e)
      BY <3>1 DEF Coupled, Rowed
    <3> QED BY <2>2, <3>2, <3>3, <3>4 DEF Standing
  <2> QED BY <2>1, <2>2
<1>6. Voiced(n, an2)
  <2> SUFFICES ASSUME NEW e \in 1 .. n PROVE Heard(n, an2, e)
    BY DEF Voiced
  <2>1. Heard(n, an, e) /\ an2[e].sem_action = an[e].sem_action
    BY DEF Coupled, Voiced, SameActions
  <2>2. CASE e = n
    <3>1. an2[e].sem_action # "sem_expr_result"
      BY <2>1, <2>2 DEF Heard
    <3>2. Speaks(an2[e]) => e > 1 /\ ~Over(an2[e - 1])
      <4>1. SUFFICES ASSUME Speaks(an2[e]) PROVE e > 1 /\ ~Over(an2[e - 1])
        OBVIOUS
      <4>2. e > 1 /\ ~Over(an[e - 1])
        BY <2>1, <4>1 DEF Heard, Speaks
      <4>3. e - 1 \in 1 .. n - 1
        BY <1>1, <2>2, <4>2
      <4> QED BY <4>2, <4>3 DEF Agree
    <3> QED BY <2>2, <3>1, <3>2 DEF Heard
  <2>3. CASE e # n
    BY <2>1, <2>3 DEF Heard, Speaks
  <2> QED BY <2>2, <2>3
<1>7. Lined(m - 1, sym2, own2, n, an2)
  <2>1. Ordered(m, own, n) /\ Lined(m, sym, own, n, an)
    BY DEF Coupled, Heights
  <2>2. Settled(own, m, n, an)
    BY <1>1 DEF Settled
  <2>3. Lined(m - 1, sym, own, n, an)
    BY <1>1, <2>1, <2>2, LinedPop
  <2>4. Ordered(m - 1, own, n)
    BY <1>1, <2>1 DEF Ordered
  <2>5. ASSUME NEW e \in 1 .. n, Loose(an2[e])
        PROVE  Loose(an[e])
    <3>1. CASE e = n
      BY <2>5, <3>1 DEF Loose, SameActions
    <3>2. CASE e # n
      <4>1. e \in 1 .. n - 1
        BY <1>1, <3>2
      <4> QED BY <2>5, <4>1 DEF Agree
    <3> QED BY <3>1, <3>2
  <2> QED BY <2>3, <2>4, <2>5, LinedSame
<1>8. Coupled(m - 1, sym2, own2, lab, now, n, an2)
  BY <1>4, <1>5, <1>6, <1>7, Together
<1> QED BY <1>8 DEF Joined
-----------------------------------------------------------------------------
\* What holds where the topmost analyzer is not the one the symbol belongs to
EndOfLine(m, sym, own, cur, n, an) ==
    /\ sym[m] = "EOL" /\ cur[n] = 0 /\ ~Speaks(an[n])
    /\ <<an[n].state, "none", 0>> \in Rows(an[n].sem_action)
    /\ \A d \in own[m] + 1 .. n - 1 : Over(an[d])

LEMMA OnlyTheEndOfItsLine ==
    ASSUME NEW m, NEW sym, NEW own, NEW lab, NEW cur, NEW n, NEW an,
           Coupled(m, sym, own, lab, cur, n, an), n > 0, own[m] # n, ~Over(an[n])
    PROVE  EndOfLine(m, sym, own, cur, n, an)
<1>1. /\ m \in Nat \ {0} /\ n \in Nat \ {0} /\ own[m] \in 0 .. n - 1
      /\ \A d \in own[m] + 1 .. n : cur[d] = 0
  <2>1. OnTop(m, sym, own, lab, cur, n, an)
    BY TopHeight DEF Coupled
  <2> QED BY <2>1 DEF OnTop
<1>2. <<an[n].state, "none", 0>> \in Rows(an[n].sem_action)
  <2>1. Standing(n, an, cur, n) /\ cur[n] = 0 /\ AboveAt(n, an, n) = "none"
    BY <1>1 DEF Coupled, Rowed, AboveAt
  <2> QED BY <2>1 DEF Standing
<1>3. an[n].sem_action \notin {"sem_scope", "sem_param_decl", "sem_expr_result"}
  <2>1. an[n].sem_action \in Actions
    BY <1>2, RowsHaveActions
  <2>2. Orderly(an[n].sem_action, Rows(an[n].sem_action), Places(an[n].sem_action))
    BY <2>1, TablesAreOrderly DEF AllActions
  <2> QED BY <1>2, <2>1, <2>2 DEF Orderly, Actions
<1>4. sym[m] = "EOL"
  <2>1. Between(m, own, m, n) /\ Loose(an[n]) /\ m \in 1 .. m /\ n \in 1 .. n
    BY <1>1, <1>3 DEF Between, Loose
  <2> QED BY <2>1 DEF Coupled, Lined
<1>5. ASSUME NEW d \in own[m] + 1 .. n - 1, ~Over(an[d])
      PROVE  FALSE
  <2>1. d \in 1 .. n /\ d + 1 \in 1 .. n /\ d # n /\ cur[d] = 0
    BY <1>1
  <2>2. <<an[d].state, AboveAt(n, an, d), 0>> \in Rows(an[d].sem_action)
    BY <1>5, <2>1 DEF Coupled, Rowed, Standing
  <2>3. Heard(n, an, d + 1)
    BY <2>1 DEF Coupled, Voiced
  <2>4. AboveAt(n, an, d) = "other"
    BY <1>3, <2>1, <2>3 DEF AboveAt, Heard, Speaks
  <2>5. an[d].sem_action \in Actions
    BY <2>2, RowsHaveActions
  <2>6. Orderly(an[d].sem_action, Rows(an[d].sem_action), Places(an[d].sem_action))
    BY <2>5, TablesAreOrderly DEF AllActions
  <2> QED BY <2>2, <2>4, <2>6 DEF Orderly
<1> QED BY <1>1, <1>2, <1>3, <1>4, <1>5 DEF EndOfLine, Speaks

\* There the statement ends.
LEMMA StatementEnds ==
    ASSUME NEW m, NEW sym, NEW own, NEW lab, NEW cur, NEW n, NEW an,
           Coupled(m, sym, own, lab, cur, n, an), n > 0, own[m] # n, ~Over(an[n]), m > 1,
           NEW sym2, NEW own2, Agree(m - 1, sym, sym2), Agree(m - 1, own, own2),
           NEW an2, SameActions(n, an, an2), Agree(n - 1, an, an2), Over(an2[n])
    PROVE  Joined(m - 1, sym2, own2, n, an2)
<1> DEFINE d == own[m]
           j == Below(own, lab, m)
           now == After(own, lab, cur, m, n)
<1>1. EndOfLine(m, sym, own, cur, n, an)
  BY OnlyTheEndOfItsLine
<1>2. /\ m - 1 \in Nat \ {0} /\ m \in Nat /\ n \in Nat \ {0} /\ d \in 0 .. n - 1 /\ cur[d] = lab[m]
      /\ <<lab[m], sym[m], j>> \in Places(ActionAt(an, d))
  <2>1. OnTop(m, sym, own, lab, cur, n, an)
    BY TopHeight DEF Coupled
  <2> QED BY <2>1 DEF OnTop
<1>3. Heights(m - 1, sym2, own2, lab, now, n, an)
  BY Dropped
<1>4. \A e \in 0 .. n : now[e] = IF e = d THEN j ELSE cur[e]
  BY DEF After
<1> HIDE DEF now, j
<1>5. Heights(m - 1, sym2, own2, lab, now, n, an2)
  BY <1>3, SameHeights DEF Agree
<1>6. Rowed(n, an2, now)
  <2> SUFFICES ASSUME NEW e \in 1 .. n PROVE Standing(n, an2, now, e)
    BY DEF Rowed
  <2>1. CASE e = n
    BY <1>1, <1>2, <1>4, <2>1 DEF Standing, EndOfLine
  <2>2. CASE e # n
    <3>1. e \in 1 .. n - 1 /\ e + 1 \in 1 .. n
      BY <1>2, <2>2
    <3>2. an2[e] = an[e] /\ an2[e + 1].sem_action = an[e + 1].sem_action
      BY <3>1 DEF Agree, SameActions
    <3>3. AboveAt(n, an2, e) = AboveAt(n, an, e)
      BY <2>2, <3>2 DEF AboveAt
    <3>4. Standing(n, an, cur, e)
      BY <3>1 DEF Coupled, Rowed
    <3>5. CASE e # d
      <4>1. now[e] = cur[e]
        BY <1>4, <3>5
      <4> QED BY <4>1, <2>2, <3>2, <3>3, <3>4 DEF Standing
    <3>6. CASE e = d
      <4>1. d # 0 /\ ActionAt(an, d) = an[e].sem_action
        BY <3>6, <3>1 DEF ActionAt
      <4>2. sym[m] = "EOL" /\ ~Speaks(an[n])
        BY <1>1 DEF EndOfLine
      <4>3. ~Over(an[d]) /\ <<an[d].state, AboveAt(n, an, d), lab[m]>> \in Rows(an[d].sem_action)
        BY <4>1, <4>2, OwnerWaits
      <4>4. AboveAt(n, an, d) = "other"
        <5>1. Heard(n, an, d + 1)
          BY <3>1, <3>6 DEF Coupled, Voiced
        <5> QED BY <3>1, <3>6, <2>2, <4>2, <5>1 DEF AboveAt, Heard, Speaks
      <4>5. Orderly(an[e].sem_action, Rows(an[e].sem_action), Places(an[e].sem_action))
        BY <1>2, <4>1, PlacesHaveActions, TablesAreOrderly
      <4>6. <<an[e].state, "other", j>> \in Rows(an[e].sem_action)
        BY <1>2, <3>6, <4>1, <4>2, <4>3, <4>4, <4>5 DEF Orderly
      <4>7. now[e] = j
        BY <1>4, <3>6
      <4> QED BY <3>2, <3>3, <3>6, <4>3, <4>4, <4>6, <4>7 DEF Standing
    <3> QED BY <3>5, <3>6
  <2> QED BY <2>1, <2>2
<1>7. Voiced(n, an2)
  <2> SUFFICES ASSUME NEW e \in 1 .. n PROVE Heard(n, an2, e)
    BY DEF Voiced
  <2>1. Heard(n, an, e) /\ an2[e].sem_action = an[e].sem_action
    BY DEF Coupled, Voiced, SameActions
  <2>2. ~Speaks(an[e])
    BY <1>1, <2>1 DEF EndOfLine, Heard
  <2> QED BY <2>1, <2>2 DEF Heard, Speaks
<1>8. Lined(m - 1, sym2, own2, n, an2)
  <2>1. Ordered(m, own, n) /\ Lined(m, sym, own, n, an)
    BY DEF Coupled, Heights
  <2>2. ASSUME NEW e \in 1 .. n, Loose(an2[e])
        PROVE  e \in 1 .. n - 1 /\ an2[e] = an[e]
    <3>1. e # n
      BY <2>2 DEF Loose
    <3>2. e \in 1 .. n - 1
      BY <1>2, <3>1
    <3> QED BY <3>2 DEF Agree
  <2>3. Settled(own, m, n, an2)
    <3> SUFFICES ASSUME NEW e \in own[m] + 1 .. n, Loose(an2[e]) PROVE FALSE
      BY DEF Settled
    <3>1. e \in 1 .. n
      BY <1>2
    <3>2. e \in own[m] + 1 .. n - 1 /\ an2[e] = an[e]
      BY <1>2, <2>2, <3>1
    <3>3. Over(an[e])
      BY <1>1, <3>2 DEF EndOfLine
    <3> QED BY <3>2, <3>3 DEF Loose
  <2>4. Lined(m, sym, own, n, an2)
    BY <2>1, <2>2, LinedSame DEF Agree
  <2>5. Lined(m - 1, sym, own, n, an2)
    BY <2>1, <2>3, <2>4, LinedPop
  <2>6. Ordered(m - 1, own, n)
    BY <1>2, <2>1 DEF Ordered
  <2> QED BY <2>5, <2>6, LinedSame
<1>9. Coupled(m - 1, sym2, own2, lab, now, n, an2)
  BY <1>5, <1>6, <1>7, <1>8, Together
<1> QED BY <1>9 DEF Joined

\* No analyzer is there to read the symbol.
LEMMA NobodyReads ==
    ASSUME NEW m, NEW sym, NEW own, NEW lab, NEW cur, NEW n, NEW an,
           Coupled(m, sym, own, lab, cur, n, an), n = 0, m > 1,
           NEW sym2, NEW own2, Agree(m - 1, sym, sym2), Agree(m - 1, own, own2)
    PROVE  Joined(m - 1, sym2, own2, n, an)
<1> DEFINE now == After(own, lab, cur, m, n)
<1>1. Heights(m - 1, sym2, own2, lab, now, n, an)
  BY Dropped
<1> HIDE DEF now
<1>2. Rowed(n, an, now) /\ Voiced(n, an) /\ Lined(m - 1, sym2, own2, n, an)
  BY DEF Rowed, Voiced, Lined
<1>3. Coupled(m - 1, sym2, own2, lab, now, n, an)
  BY <1>1, <1>2, Together
<1> QED BY <1>3 DEF Joined

\* The IF at the end of a condition is read by nobody.
LEMMA ConditionIsClosed ==
    ASSUME NEW m, NEW sym, NEW own, NEW lab, NEW cur, NEW n, NEW an,
           Coupled(m, sym, own, lab, cur, n, an), own[m] # 0, Over(an[own[m]]),
           NEW sym2, NEW own2, Agree(m - 1, sym, sym2), Agree(m - 1, own, own2)
    PROVE  Joined(m - 1, sym2, own2, n, an)
<1> DEFINE now == After(own, lab, cur, m, n)
<1>1. own[m] = n /\ Below(own, lab, m) = 0
  BY OwnerWaits
<1>2. m > 1 /\ m \in Nat /\ m - 1 \in Nat \ {0} /\ n \in Nat
  <2>1. OnTop(m, sym, own, lab, cur, n, an)
    BY TopHeight DEF Coupled
  <2> QED BY <2>1 DEF OnTop
<1>3. Heights(m - 1, sym2, own2, lab, now, n, an)
  BY <1>2, Dropped
<1>4. \A e \in 0 .. n : now[e] = IF e = n THEN 0 ELSE cur[e]
  BY <1>1 DEF After
<1> HIDE DEF now
<1>5. Rowed(n, an, now)
  <2> SUFFICES ASSUME NEW e \in 1 .. n PROVE Standing(n, an, now, e)
    BY DEF Rowed
  <2>1. CASE e = n
    BY <1>1, <1>4, <2>1 DEF Standing
  <2>2. CASE e # n
    <3>1. Standing(n, an, cur, e) /\ now[e] = cur[e]
      BY <1>4, <2>2 DEF Coupled, Rowed
    <3> QED BY <2>2, <3>1 DEF Standing
  <2> QED BY <2>1, <2>2
<1>6. Lined(m - 1, sym2, own2, n, an)
  <2>1. Ordered(m, own, n) /\ Lined(m, sym, own, n, an)
    BY DEF Coupled, Heights
  <2>2. Settled(own, m, n, an)
    BY <1>1, <1>2 DEF Settled
  <2>3. Lined(m - 1, sym, own, n, an)
    BY <1>2, <2>1, <2>2, LinedPop
  <2>4. Ordered(m - 1, own, n)
    BY <1>2, <2>1 DEF Ordered
  <2> QED BY <2>3, <2>4, LinedSame
<1>7. Voiced(n, an)
  BY DEF Coupled
<1>8. Coupled(m - 1, sym2, own2, lab, now, n, an)
  BY <1>3, <1>5, <1>6, <1>7, Together
<1> QED BY <1>8 DEF Joined

LEMMA SumsOfNone ==
    ASSUME NEW an, NEW total
    PROVE  /\ Sums(0, an, total) => total = 0
           /\ total = 0 => Sums(0, an, total)
<1>1. ASSUME Sums(0, an, total)
      PROVE  total = 0
  BY <1>1 DEF Sums, Adds
<1>2. ASSUME total = 0
      PROVE  Sums(0, an, total)
  <2>1. Adds(0, an, total, [d \in {0} |-> 0])
    BY <1>2 DEF Adds
  <2> QED BY <2>1 DEF Sums
<1> QED BY <1>1, <1>2

LEMMA HeldIsNat == \A a : TablesHeld(a) \in {0, 1}
  BY DEF TablesHeld, TablesOf

LEMMA SumsAtLeast ==
    ASSUME NEW n \in Nat \ {0}, NEW an, NEW total, Sums(n, an, total)
    PROVE  total \in Nat /\ total >= TablesHeld(an[n]) /\ Sums(n - 1, an, total - TablesHeld(an[n]))
<1> PICK c : Adds(n, an, total, c)
  BY DEF Sums
<1>1. n \in 0 .. n /\ n \in 1 .. n /\ n - 1 \in 0 .. n
  OBVIOUS
<1>2. c[n] = c[n - 1] + TablesHeld(an[n]) /\ c[n] = total /\ c[n] \in Nat /\ c[n - 1] \in Nat
  BY <1>1 DEF Adds
<1>3. TablesHeld(an[n]) \in {0, 1}
  BY HeldIsNat
<1>4. c[n - 1] = total - TablesHeld(an[n])
  BY <1>2, <1>3
<1>5. Adds(n - 1, an, total - TablesHeld(an[n]), c)
  BY <1>4 DEF Adds
<1> QED BY <1>2, <1>3, <1>5 DEF Sums

LEMMA SumsOfMore ==
    ASSUME NEW n \in Nat, NEW an, NEW total, Sums(n, an, total), NEW an2, Agree(n, an, an2)
    PROVE  Sums(n + 1, an2, total + TablesHeld(an2[n + 1]))
<1> PICK c : Adds(n, an, total, c)
  BY DEF Sums
<1> DEFINE b == [d \in 0 .. n + 1 |-> IF d = n + 1 THEN total + TablesHeld(an2[n + 1]) ELSE c[d]]
<1>1. TablesHeld(an2[n + 1]) \in {0, 1}
  BY HeldIsNat
<1>2. total \in Nat
  BY DEF Adds
<1>3. b[0] = 0 /\ b[n + 1] = total + TablesHeld(an2[n + 1]) /\ \A d \in 0 .. n : b[d] = c[d]
  BY DEF Adds
<1> HIDE DEF b
<1>4. \A d \in 0 .. n + 1 : b[d] \in Nat
  BY <1>1, <1>2, <1>3 DEF Adds
<1>5. ASSUME NEW d \in 1 .. n + 1
      PROVE  b[d] = b[d - 1] + TablesHeld(an2[d])
  <2>1. CASE d = n + 1
    <3>1. b[d - 1] = total
      BY <1>3, <2>1 DEF Adds
    <3> QED BY <1>3, <2>1, <3>1
  <2>2. CASE d # n + 1
    <3>1. d \in 1 .. n /\ d \in 0 .. n /\ d - 1 \in 0 .. n
      BY <2>2
    <3>2. b[d] = c[d] /\ b[d - 1] = c[d - 1] /\ an2[d] = an[d]
      BY <1>3, <3>1 DEF Agree
    <3> QED BY <3>1, <3>2 DEF Adds
  <2> QED BY <2>1, <2>2
<1>6. Adds(n + 1, an2, total + TablesHeld(an2[n + 1]), b)
  BY <1>3, <1>4, <1>5 DEF Adds
<1> QED BY <1>6 DEF Sums

LEMMA SumsOfChanged ==
    ASSUME NEW n \in Nat \ {0}, NEW an, NEW total, Sums(n, an, total), NEW an2, Agree(n - 1, an, an2)
    PROVE  Sums(n, an2, (total - TablesHeld(an[n])) + TablesHeld(an2[n]))
<1>1. Sums(n - 1, an, total - TablesHeld(an[n]))
  BY SumsAtLeast
<1>2. n - 1 \in Nat /\ (n - 1) + 1 = n
  OBVIOUS
<1>3. Sums((n - 1) + 1, an2, (total - TablesHeld(an[n])) + TablesHeld(an2[(n - 1) + 1]))
  BY <1>1, <1>2, SumsOfMore
<1> QED BY <1>2, <1>3

WithoutTop(p) == [p EXCEPT !.sem_an_stack = Tail(@)]

LEMMA TopFrame ==
    ASSUME NEW p, Fit(p), Height(p) > 0
    PROVE  /\ Busy(p) /\ Height(p) \in Nat \ {0} /\ IsAnalyzer(Me(p)) /\ Me(p) = Frames(p)[Height(p)]
           /\ Over(Me(p)) <=> Me(p).finished
           /\ p.sem_an_stack # << >>
<1>1. Busy(p)
  BY DEF Busy, Height
<1>2. IsAnalyzer(Me(p)) /\ p.sem_an_stack # << >>
  BY <1>1, TopIsFirst
<1>3. Height(p) \in Nat \ {0} /\ Me(p) = Frames(p)[Height(p)]
  BY FlipEnds DEF Fit, Height, Frames, Me
<1> QED BY <1>1, <1>2, <1>3 DEF IsAnalyzer, Over

LEMMA FlagsOfTop ==
    ASSUME NEW p
    PROVE  FlagsFit(p) <=> FlagsOf(p, Me(p))
  BY DEF FlagsFit, FlagsOf

LEMMA PoppedFits ==
    ASSUME NEW p, Fit(p), Height(p) > 0
    PROVE  /\ Fit(WithoutTop(p)) /\ Height(WithoutTop(p)) = Height(p) - 1
           /\ Agree(Height(p) - 1, Frames(p), Frames(WithoutTop(p)))
           /\ Tables(WithoutTop(p)) = Tables(p) /\ Flags(WithoutTop(p)) = Flags(p)
<1> DEFINE q == WithoutTop(p)
           s == p.sem_an_stack
<1>1. DOMAIN p = Fields /\ IsSeq(s) /\ IsSeq(p.sym_tab_stack) /\ \A k \in 1 .. Len(s) : IsAnalyzer(s[k])
  BY DEF Fit
<1>2. DOMAIN q = Fields /\ q.sem_an_stack = Tail(s) /\ q.sym_tab_stack = p.sym_tab_stack /\ Flags(q) = Flags(p)
  BY <1>1 DEF WithoutTop, Fields, Flags
<1>3. IsSeq(Tail(s)) /\ Len(Tail(s)) = Len(s) - 1 /\ Agree(Len(s) - 1, Flip(s), Flip(Tail(s)))
      /\ Len(s) \in Nat \ {0}
  BY <1>1, FlipTail, FlipEnds DEF Height
<1>4. ASSUME NEW k \in 1 .. Len(Tail(s))
      PROVE  IsAnalyzer(Tail(s)[k])
  <2>1. Tail(s)[k] = s[k + 1] /\ k + 1 \in 1 .. Len(s)
    <3> PICK S : s \in Seq(S)
      BY <1>1 DEF IsSeq
    <3>1. s # << >>
      BY <1>3, EmptySeq
    <3> QED BY <1>3, <3>1, HeadTailProperties
  <2> QED BY <1>1, <2>1
<1>5. Fit(q)
  BY <1>1, <1>2, <1>3, <1>4 DEF Fit
<1> QED BY <1>2, <1>3, <1>5 DEF Height, Frames, Tables

\* The same stack with a changed analyzer on the top
LEMMA ChangedFrames ==
    ASSUME NEW p, Fit(p), Height(p) > 0, NEW q, Busy(q), Changed(p.sem_an_stack, q.sem_an_stack),
           Me(q).sem_action = Me(p).sem_action
    PROVE  /\ Fit(q) /\ Height(q) = Height(p) /\ Agree(Height(p) - 1, Frames(p), Frames(q))
           /\ Frames(q)[Height(p)] = Me(q) /\ SameActions(Height(p), Frames(p), Frames(q))
           /\ Over(Frames(q)[Height(p)]) <=> Me(q).finished
<1>1. Height(q) = Height(p) /\ Agree(Height(p) - 1, Frames(p), Frames(q))
  BY FlipChanged DEF Fit, Height, Frames
<1>2. Fit(q) /\ Height(p) \in Nat \ {0} /\ Me(p) = Frames(p)[Height(p)]
      /\ Me(q) = Frames(q)[Height(q)] /\ (Over(Me(q)) <=> Me(q).finished)
  <2>1. Fit(q) /\ Height(q) > 0
    BY DEF Busy, Height
  <2> QED BY <2>1, TopFrame
<1>3. SameActions(Height(p), Frames(p), Frames(q))
  <2> SUFFICES ASSUME NEW d \in 1 .. Height(p) PROVE Frames(q)[d].sem_action = Frames(p)[d].sem_action
    BY DEF SameActions
  <2>1. CASE d = Height(p)
    BY <1>1, <1>2, <2>1
  <2>2. CASE d # Height(p)
    <3>1. d \in 1 .. Height(p) - 1
      BY <1>2, <2>2
    <3> QED BY <1>1, <3>1 DEF Agree
  <2> QED BY <2>1, <2>2
<1> QED BY <1>1, <1>2, <1>3
-----------------------------------------------------------------------------
(* handle_finished_semantics *)

\* What the statement of a finished analyzer leaves behind means nothing to
\* the analyzer below.
LEMMA NothingIsSaid ==
    ASSUME NEW p, Fit(p), NEW n, n = Height(p), NEW an, an = Frames(p), n > 0,
           NEW m, NEW sym, NEW own, NEW lab, NEW cur, Coupled(m, sym, own, lab, cur, n, an),
           ~Speaks(an[n]), n > 1
    PROVE  /\ sem_action(WithoutTop(p), Me(p).value) = Ok(WithoutTop(p))
<1> DEFINE q == WithoutTop(p)
<1>1. n \in Nat \ {0} /\ n - 1 \in 1 .. n /\ n - 1 # n /\ (n - 1) + 1 = n
  BY TopFrame
<1>2. Fit(q) /\ Height(q) = n - 1 /\ Agree(n - 1, an, Frames(q))
  BY PoppedFits
<1>3. Busy(q) /\ Me(q) = an[n - 1] /\ (Over(Me(q)) <=> Me(q).finished)
  <2>1. Height(q) > 0 /\ n - 1 \in 1 .. n - 1
    BY <1>1, <1>2
  <2>2. Busy(q) /\ Me(q) = Frames(q)[n - 1] /\ (Over(Me(q)) <=> Me(q).finished)
    BY <1>2, <2>1, TopFrame
  <2> QED BY <1>2, <2>1, <2>2 DEF Agree
<1>4. Quiet(Me(p).value)
  BY TopFrame DEF IsAnalyzer
<1> HIDE DEF q
<1>5. CASE Over(an[n - 1])
  BY <1>3, <1>5 DEF sem_action, q
<1>6. CASE ~Over(an[n - 1])
  <2>1. Standing(n, an, cur, n - 1)
    BY <1>1 DEF Coupled, Rowed
  <2>2. AboveAt(n, an, n - 1) = "other"
    BY <1>1 DEF AboveAt, Speaks
  <2>3. <<Me(q).state, "other", cur[n - 1]>> \in Rows(Me(q).sem_action)
    BY <1>3, <1>6, <2>1, <2>2 DEF Standing
  <2>4. ~IsToken(Me(p).value, BlockTokens)
    BY <1>4 DEF Quiet, IsToken, BlockTokens
  <2> QED BY <1>3, <2>3, <2>4, OpenIgnores DEF q
<1> QED BY <1>5, <1>6

\* The analyzer that is left on the top where the removed one said nothing
LEMMA ParentGoesOn ==
    ASSUME NEW n, NEW an, NEW m, NEW sym, NEW own, NEW lab, NEW cur, Coupled(m, sym, own, lab, cur, n, an),
           n > 1, an[n].sem_action # "sem_expr_result", NEW an2, Agree(n - 1, an, an2)
    PROVE  Standing(n - 1, an2, cur, n - 1) /\ (Loose(an2[n - 1]) => Loose(an[n - 1]))
<1>1. n \in Nat \ {0} /\ n - 1 \in 1 .. n /\ n - 1 # n /\ (n - 1) + 1 = n /\ n - 1 \in 1 .. n - 1
  BY DEF Coupled, Heights, Ordered
<1>2. an2[n - 1] = an[n - 1] /\ Standing(n, an, cur, n - 1)
  BY <1>1 DEF Coupled, Rowed, Agree
<1>3. AboveAt(n, an, n - 1) \in {"other", "param"} /\ AboveAt(n - 1, an2, n - 1) = "none"
  BY <1>1 DEF AboveAt
<1>4. CASE Over(an[n - 1])
  BY <1>1, <1>2, <1>4 DEF Standing
<1>5. CASE ~Over(an[n - 1])
  <2>1. <<an[n - 1].state, AboveAt(n, an, n - 1), cur[n - 1]>> \in Rows(an[n - 1].sem_action)
    BY <1>2, <1>5 DEF Standing
  <2>2. Orderly(an[n - 1].sem_action, Rows(an[n - 1].sem_action), Places(an[n - 1].sem_action))
    BY <2>1, RowsHaveActions, TablesAreOrderly DEF AllActions
  <2>3. <<an[n - 1].state, "none", cur[n - 1]>> \in Rows(an[n - 1].sem_action)
    BY <1>3, <2>1, <2>2 DEF Orderly
  <2> QED BY <1>2, <1>3, <1>5, <2>3 DEF Standing
<1> QED BY <1>2, <1>4, <1>5
-----------------------------------------------------------------------------
\* The analyzer a value is passed to and the symbol on the top
OwnsTop(m, sym, own, lab, cur, n, an) ==
    /\ own[m] = n - 1 /\ cur[n - 1] = lab[m] /\ lab[m] # 0
    /\ <<cur[n - 1], sym[m], Below(own, lab, m)>> \in Places(an[n - 1].sem_action)
ParentStands(m, sym, own, lab, cur, n, an) ==
    (cur[n - 1] # 0 \/ sym[m] # "EOL") => OwnsTop(m, sym, own, lab, cur, n, an)

LEMMA WhereItStands ==
    ASSUME NEW m, NEW sym, NEW own, NEW lab, NEW cur, NEW n, NEW an,
           Coupled(m, sym, own, lab, cur, n, an), n > 0, own[m] # n, Speaks(an[n])
    PROVE  ParentStands(m, sym, own, lab, cur, n, an)
<1>1. n - 1 \in Nat \ {0} /\ Loose(an[n - 1]) /\ n \in Nat
  BY SpeaksOnTop
<1>2. OnTop(m, sym, own, lab, cur, n, an)
  BY TopHeight DEF Coupled
<1>3. m \in Nat \ {0} /\ own[m] \in 0 .. n - 1 /\ cur[own[m]] = lab[m] /\ lab[m] # 0
      /\ <<lab[m], sym[m], Below(own, lab, m)>> \in Places(ActionAt(an, own[m]))
      /\ \A d \in own[m] + 1 .. n : cur[d] = 0
  BY <1>1, <1>2 DEF OnTop
<1>4. ASSUME own[m] # n - 1
      PROVE  cur[n - 1] = 0 /\ sym[m] = "EOL"
  <2>1. n - 1 \in own[m] + 1 .. n /\ m \in 1 .. m /\ n - 1 \in 1 .. n /\ Between(m, own, m, n - 1)
    BY <1>1, <1>3, <1>4 DEF Between
  <2>2. sym[m] = "EOL"
    BY <1>1, <2>1 DEF Coupled, Lined
  <2> QED BY <1>3, <2>1, <2>2
<1>5. own[m] = n - 1 => ActionAt(an, own[m]) = an[n - 1].sem_action
  BY <1>1 DEF ActionAt
<1> QED BY <1>3, <1>4, <1>5 DEF ParentStands, OwnsTop

\* A value is what the analyzer below waits for.
LEMMA ValueIsExpected ==
    ASSUME NEW p, NEW id, Kept(p, id), NEW n, n = Height(p), NEW an, an = Frames(p), n > 0,
           NEW m, NEW sym, NEW own, NEW lab, NEW cur, Coupled(m, sym, own, lab, cur, n, an),
           Speaks(an[n]), own[m] # n, sym[m] = id, id \notin Nonterminals
    PROVE  /\ Expected(WithoutTop(p), Me(p).value, cur[n - 1])
           /\ \E above \in {"expr", "param"} :
                 <<an[n - 1].state, above, cur[n - 1]>> \in Rows(an[n - 1].sem_action)
<1> DEFINE q == WithoutTop(p)
           j == cur[n - 1]
           action == an[n - 1].sem_action
           value == Me(p).value
<1>1. /\ n - 1 \in Nat \ {0} /\ ~Over(an[n - 1]) /\ n \in Nat
      /\ <<an[n - 1].state, IF an[n].sem_action = "sem_expr_result" THEN "expr" ELSE "param", j>>
            \in Rows(action)
  BY SpeaksOnTop
<1>2. Fit(p) /\ Height(q) = n - 1 /\ Fit(q) /\ Agree(n - 1, an, Frames(q)) /\ Flags(q) = Flags(p)
  BY PoppedFits DEF Kept
<1>3. Me(q) = an[n - 1]
  <2>1. Me(q) = Frames(q)[n - 1] /\ n - 1 \in 1 .. n - 1
    BY <1>1, <1>2, TopFrame
  <2> QED BY <1>2, <2>1 DEF Agree
<1>4. Me(p) = an[n] /\ IsAnalyzer(Me(p)) /\ Quiet(value) /\ IsValue(value)
  BY <1>2, TopFrame DEF IsAnalyzer, Quiet
<1>5. q.step_found = p.step_found /\ StepSeen(p, n, an, id)
  BY <1>2 DEF Flags, Kept
<1>0. ParentStands(m, sym, own, lab, cur, n, an)
  BY WhereItStands
<1>6. (j # 0 \/ id # "EOL") => <<j, id, Below(own, lab, m)>> \in Places(action)
  BY <1>0 DEF ParentStands, OwnsTop
<1>7. Orderly(action, Rows(action), Places(action))
  BY <1>1, RowsHaveActions, TablesAreOrderly DEF AllActions
<1> HIDE DEF q, j, action, value
<1>8. CASE an[n].sem_action = "sem_expr_result"
  <2>1. <<an[n - 1].state, "expr", j>> \in Rows(action)
    BY <1>1, <1>8
  <2>2. value.value_type = "ID"
    <3>1. Heard(n, an, n)
      BY <1>1 DEF Coupled, Voiced
    <3> QED BY <1>4, <1>8, <3>1 DEF Heard, value
  <2>3. q.step_found \in BOOLEAN /\ (q.step_found = TRUE <=> id = "STEP")
    BY <1>5, <1>8 DEF StepSeen
  <2>4. id = "STEP" => action = "sem_for_loop" /\ j = 16
    BY <1>6, <1>7 DEF Orderly
  <2>5. action = "sem_for_loop" /\ j = 16 => id = "STEP"
    <3>1. SUFFICES ASSUME action = "sem_for_loop", j = 16 PROVE id = "STEP"
      OBVIOUS
    <3>2. <<16, id, Below(own, lab, m)>> \in Places(action)
      BY <1>6, <3>1
    <3> QED BY <1>7, <3>1, <3>2 DEF Orderly
  <2>6. action = "sem_for_loop" => j # 5
    <3>1. SUFFICES ASSUME action = "sem_for_loop", j = 5 PROVE FALSE
      OBVIOUS
    <3>0. <<5, id, Below(own, lab, m)>> \in Places(action)
      BY <1>6, <3>1
    <3>2. id = "NT_STEP_OPT"
      BY <1>7, <3>0, <3>1 DEF Orderly
    <3> QED BY <3>2, NamesAreNonterminals DEF Names
  <2>7. Evaluates(q, value, j)
    BY <1>3, <1>4, <2>1, <2>2, <2>3, <2>4, <2>5, <2>6 DEF Evaluates, action
  <2> QED BY <2>1, <2>7 DEF Expected, q, j, action, value
<1>9. CASE an[n].sem_action # "sem_expr_result"
  <2>1. <<an[n - 1].state, "param", j>> \in Rows(action)
    BY <1>1, <1>9
  <2>2. q.step_found = FALSE
    BY <1>5, <1>9 DEF StepSeen
  <2>3. TakesParam(q, value, j)
    BY <1>3, <1>4, <2>1, <2>2 DEF TakesParam, action
  <2> QED BY <2>1, <2>3 DEF Expected, q, j, action, value
<1> QED BY <1>8, <1>9

\* The analyzer below is ready for it.
LEMMA ParentIsReady ==
    ASSUME NEW p, NEW id, Kept(p, id), NEW n, n = Height(p), NEW an, an = Frames(p), n > 0,
           NEW m, NEW sym, NEW own, NEW lab, NEW cur, Coupled(m, sym, own, lab, cur, n, an),
           Speaks(an[n]), Over(an[n])
    PROVE  /\ Ready(WithoutTop(p), an[n - 1].sem_action)
           /\ Sums(n - 1, Frames(WithoutTop(p)), Tables(WithoutTop(p)))
<1> DEFINE q == WithoutTop(p)
<1>0. n - 1 \in Nat \ {0} /\ ~Over(an[n - 1]) /\ n \in Nat
  BY SpeaksOnTop
<1>1. n - 1 \in Nat \ {0} /\ ~Over(an[n - 1]) /\ n \in Nat \ {0}
  BY <1>0
<1>2. Fit(p) /\ Height(q) = n - 1 /\ Fit(q) /\ Agree(n - 1, an, Frames(q)) /\ Flags(q) = Flags(p)
      /\ Tables(q) = Tables(p)
  BY PoppedFits DEF Kept
<1>3. Me(q) = an[n - 1] /\ Busy(q) /\ ~Me(q).finished
  <2>1. Me(q) = Frames(q)[n - 1] /\ n - 1 \in 1 .. n - 1 /\ Busy(q) /\ (Over(Me(q)) <=> Me(q).finished)
    BY <1>1, <1>2, TopFrame
  <2>2. Me(q) = an[n - 1]
    BY <1>2, <2>1 DEF Agree
  <2> QED BY <1>1, <2>1, <2>2
<1>4. an[n].finished = TRUE
  BY DEF Over
<1>5. TablesHeld(an[n]) = 0
  BY <1>4 DEF TablesHeld, TablesOf, Has
<1>6. Sums(n - 1, an, Tables(p))
  <2>1. Sums(n, an, Tables(p))
    BY DEF Kept
  <2>2. Tables(p) \in Nat /\ Sums(n - 1, an, Tables(p) - TablesHeld(an[n]))
    BY <1>1, <2>1, SumsAtLeast
  <2> QED BY <1>5, <2>2
<1>7. Sums(n - 1, Frames(q), Tables(q))
  <2>1. PICK c : Adds(n - 1, an, Tables(p), c)
    BY <1>6 DEF Sums
  <2>2. Adds(n - 1, Frames(q), Tables(q), c)
    BY <1>2, <2>1 DEF Adds, Agree
  <2> QED BY <2>2 DEF Sums
<1>8. Tables(q) >= TablesHeld(Me(q))
  <2>1. Tables(p) >= TablesHeld(an[n - 1])
    BY <1>1, <1>6, SumsAtLeast
  <2> QED BY <1>2, <1>3, <2>1
<1>9. FlagsOf(q, an[n - 1])
  <2>1. FlagsKept(p, n, an)
    BY DEF Kept
  <2>2. FlagsOf(p, IF an[n].sem_action = "sem_expr_result" THEN an[n - 1] ELSE an[n])
    BY <2>1, <1>1 DEF FlagsKept
  <2>3. q.static_var_decl = p.static_var_decl /\ q.il_override = p.il_override
        /\ q.last_loop_type = p.last_loop_type
    BY <1>2 DEF Flags
  <2> HIDE DEF q
  <2> QED BY <1>4, <2>2, <2>3 DEF FlagsOf
<1>10. FlagsFit(q)
  BY <1>3, <1>9, FlagsOfTop
<1> QED BY <1>3, <1>7, <1>8, <1>10 DEF Ready
-----------------------------------------------------------------------------
(* The rounds of handle_semantics on the two stacks                        *)
PassDown(p) ==
    IF WithoutTop(p).sem_an_stack = << >> \/ Me(p).value = NoValue THEN Ok(WithoutTop(p))
    ELSE sem_action(WithoutTop(p), Me(p).value)

\* What is known after a step of handle_semantics
Result(q, id, m, sym, own, n) ==
    /\ Kept(q, id) /\ Height(q) = n
    /\ Joined(m, sym, own, n, Frames(q))
    /\ n > 0 => Frames(q)[n].sem_action # "sem_expr_result"

LEMMA PoppedSums ==
    ASSUME NEW p, NEW id, Kept(p, id), NEW n, n = Height(p), NEW an, an = Frames(p), n > 0, Over(an[n])
    PROVE  Sums(n - 1, Frames(WithoutTop(p)), Tables(WithoutTop(p)))
<1> DEFINE q == WithoutTop(p)
<1>1. Fit(p) /\ Height(q) = n - 1 /\ Agree(n - 1, an, Frames(q)) /\ Tables(q) = Tables(p)
  BY PoppedFits DEF Kept
<1>2. n \in Nat \ {0} /\ n - 1 \in Nat
  <2>1. Height(p) \in Nat \ {0}
    BY <1>1, TopFrame
  <2> QED BY <2>1
<1>3. TablesHeld(an[n]) = 0
  <2>1. an[n].finished = TRUE
    BY DEF Over
  <2> QED BY <2>1 DEF TablesHeld, TablesOf, Has
<1>4. Sums(n - 1, an, Tables(p))
  <2>1. Sums(n, an, Tables(p))
    BY DEF Kept
  <2>2. Tables(p) \in Nat /\ Sums(n - 1, an, Tables(p) - TablesHeld(an[n]))
    BY <1>2, <2>1, SumsAtLeast
  <2> QED BY <1>3, <2>2
<1>5. PICK c : Adds(n - 1, an, Tables(p), c)
  BY <1>4 DEF Sums
<1> HIDE DEF q
<1>6. Adds(n - 1, Frames(q), Tables(q), c)
  BY <1>1, <1>5 DEF Adds, Agree
<1> QED BY <1>6 DEF Sums, q

\* Only the value of an expression can be below nothing: what is removed
\* leaves the flags clear.
LEMMA OverHasNoFlags ==
    ASSUME NEW p, NEW n, NEW an, n > 0, FlagsKept(p, n, an), Over(an[n]),
           an[n].sem_action # "sem_expr_result", NEW q, Flags(q) = Flags(p)
    PROVE  NoFlags(q) /\ \A a : FlagsOf(q, a)
<1>1. FlagsOf(p, an[n]) /\ an[n].finished = TRUE
  BY DEF FlagsKept, Over
<1>2. NoFlags(p)
  BY <1>1 DEF FlagsOf, NoFlags
<1>3. NoFlags(q)
  BY <1>2 DEF NoFlags, Flags
<1> QED BY <1>3 DEF NoFlags, FlagsOf

\* An analyzer is removed and nothing said.
LEMMA RemovedOnly ==
    ASSUME NEW p, NEW id, Kept(p, id), NEW n, n = Height(p), NEW an, an = Frames(p), n > 0,
           NEW m, NEW sym, NEW own, NEW lab, NEW cur, Coupled(m, sym, own, lab, cur, n, an),
           Over(an[n]), an[n].sem_action # "sem_expr_result", own[m] # n
    PROVE  Result(WithoutTop(p), id, m, sym, own, n - 1)
<1> DEFINE q == WithoutTop(p)
<1>1. /\ Fit(p) /\ Fit(q) /\ Height(q) = n - 1 /\ Agree(n - 1, an, Frames(q))
      /\ Tables(q) = Tables(p) /\ Flags(q) = Flags(p)
  BY PoppedFits DEF Kept
<1>2. n \in Nat \ {0} /\ n - 1 \in Nat
  <2>1. Height(p) \in Nat \ {0}
    BY <1>1, TopFrame
  <2> QED BY <2>1
<1>3. Sums(n - 1, Frames(q), Tables(q))
  BY PoppedSums
<1>4. NoFlags(q) /\ \A a : FlagsOf(q, a)
  BY <1>1, OverHasNoFlags DEF Kept
<1>5. FlagsKept(q, n - 1, Frames(q))
  BY <1>4 DEF FlagsKept
<1>6. n > 1 => Frames(q)[n - 1] = an[n - 1] /\ an[n - 1].sem_action # "sem_expr_result"
  <2>1. SUFFICES ASSUME n > 1
                 PROVE  Frames(q)[n - 1] = an[n - 1] /\ an[n - 1].sem_action # "sem_expr_result"
    OBVIOUS
  <2>2. n - 1 \in 1 .. n /\ n - 1 \in 1 .. n - 1
    BY <1>2, <2>1
  <2>3. Heard(n, an, n - 1)
    BY <2>2 DEF Coupled, Voiced
  <2>4. ~Speaks(an[n - 1])
    BY <1>2, <2>3 DEF Heard
  <2> QED BY <1>1, <2>2, <2>4 DEF Agree, Speaks
<1>7. StepSeen(q, n - 1, Frames(q), id)
  <2>1. StepSeen(p, n, an, id) /\ q.step_found = p.step_found
    BY <1>1 DEF Kept, Flags
  <2>2. p.step_found = FALSE
    BY <2>1 DEF StepSeen
  <2>3. ~(n - 1 > 0 /\ Frames(q)[n - 1].sem_action = "sem_expr_result")
    BY <1>2, <1>6
  <2> HIDE DEF q
  <2> QED BY <2>1, <2>2, <2>3 DEF StepSeen
<1>8. Kept(q, id)
  BY <1>1, <1>3, <1>5, <1>7 DEF Kept
<1>9. Coupled(m, sym, own, lab, cur, n - 1, Frames(q))
  <2>1. SameActions(n - 1, an, Frames(q)) /\ Agree(n - 2, an, Frames(q))
    BY <1>1, <1>2 DEF SameActions, Agree
  <2>2. n > 1 => Standing(n - 1, Frames(q), cur, n - 1)
                 /\ (Loose(Frames(q)[n - 1]) => Loose(an[n - 1]))
    BY <1>1, ParentGoesOn
  <2> QED BY <2>1, <2>2, FinishedIsRemoved
<1>10. n - 1 > 0 => Frames(q)[n - 1].sem_action # "sem_expr_result"
  BY <1>2, <1>6
<1> QED BY <1>1, <1>8, <1>9, <1>10 DEF Result, Joined

\* Statements say nothing.
LEMMA StatementIsRemoved ==
    ASSUME NEW p, NEW id, Kept(p, id), NEW n, n = Height(p), NEW an, an = Frames(p), n > 0,
           NEW m, NEW sym, NEW own, NEW lab, NEW cur, Coupled(m, sym, own, lab, cur, n, an), ~Speaks(an[n])
    PROVE  PassDown(p) = Ok(WithoutTop(p))
<1>1. Fit(p)
  BY DEF Kept
<1>2. CASE n > 1
  BY <1>1, <1>2, NothingIsSaid DEF PassDown
<1>3. CASE ~(n > 1)
  <2>1. Height(p) \in Nat \ {0} /\ IsSeq(p.sem_an_stack) /\ p.sem_an_stack # << >>
        /\ Fit(WithoutTop(p)) /\ Height(WithoutTop(p)) = n - 1
    BY <1>1, TopFrame, PoppedFits DEF Fit
  <2>0. n = 1 /\ Height(WithoutTop(p)) = 0
    BY <1>3, <2>1
  <2>2. Len(WithoutTop(p).sem_an_stack) = 0 /\ IsSeq(WithoutTop(p).sem_an_stack)
    <3> DEFINE w == WithoutTop(p)
    <3> HIDE DEF w
    <3>1. Height(w) = 0 /\ Fit(w)
      BY <2>0, <2>1 DEF w
    <3>2. Len(w.sem_an_stack) = 0 /\ IsSeq(w.sem_an_stack)
      BY <3>1 DEF Height, Fit
    <3> QED BY <3>2 DEF w
  <2>3. WithoutTop(p).sem_an_stack = << >>
    BY <2>2, EmptySeq DEF IsSeq
  <2> QED BY <2>3 DEF PassDown
<1> QED BY <1>2, <1>3
-----------------------------------------------------------------------------
\* The parent of a value that was passed down: it has gone on, and where the
\* next symbol is its own it has not finished.
LEMMA ParentGotValue ==
    ASSUME NEW w, NEW q, NEW value, NEW j, Leaves(w, q, value, j), Fit(w), Height(w) > 0
    PROVE  /\ Fit(q) /\ Height(q) = Height(w) /\ Agree(Height(w) - 1, Frames(w), Frames(q))
           /\ Frames(q)[Height(w)] = Me(q) /\ SameActions(Height(w), Frames(w), Frames(q))
           /\ Over(Me(q)) <=> Me(q).finished
<1>1. Busy(q) /\ Changed(w.sem_an_stack, q.sem_an_stack) /\ Me(q).sem_action = Me(w).sem_action
  BY DEF Leaves
<1>2. /\ Fit(q) /\ Height(q) = Height(w) /\ Agree(Height(w) - 1, Frames(w), Frames(q))
      /\ Frames(q)[Height(w)] = Me(q) /\ SameActions(Height(w), Frames(w), Frames(q))
      /\ Over(Frames(q)[Height(w)]) <=> Me(q).finished
  BY <1>1, ChangedFrames
<1> QED BY <1>2

\* What an action leaves is kept.
LEMMA LeavesKept ==
    ASSUME NEW w, NEW q, NEW value, NEW j, Leaves(w, q, value, j), Fit(w), NEW k, k = Height(w), k > 0,
           Sums(k, Frames(w), Tables(w)), Me(w).sem_action # "sem_expr_result", NEW id
    PROVE  Kept(q, id) /\ Frames(q)[k].sem_action # "sem_expr_result"
<1>1. /\ Fit(q) /\ Height(q) = k /\ Agree(k - 1, Frames(w), Frames(q)) /\ Frames(q)[k] = Me(q)
  BY ParentGotValue
<1>2. k \in Nat \ {0} /\ Me(w) = Frames(w)[k]
  BY TopFrame
<1>3. Me(q).sem_action # "sem_expr_result" /\ FlagsFit(q) /\ q.step_found = FALSE
      /\ Tables(q) = Tables(w) - TablesHeld(Me(w)) + TablesHeld(Me(q))
  BY DEF Leaves
<1>4. Sums(k, Frames(q), Tables(q))
  <2>1. Sums(k, Frames(q), (Tables(w) - TablesHeld(Frames(w)[k])) + TablesHeld(Frames(q)[k]))
    BY <1>1, <1>2, SumsOfChanged
  <2> QED BY <1>1, <1>2, <1>3, <2>1
<1>5. FlagsKept(q, k, Frames(q))
  <2>1. FlagsOf(q, Me(q))
    BY <1>3, FlagsOfTop
  <2> QED BY <1>1, <1>2, <1>3, <2>1 DEF FlagsKept
<1>6. StepSeen(q, k, Frames(q), id)
  BY <1>1, <1>3 DEF StepSeen
<1> QED BY <1>1, <1>3, <1>4, <1>5, <1>6 DEF Kept

\* At the place behind a value nothing is over but the rule itself.
LEMMA NotYetOver ==
    ASSUME NEW state, NEW above, above \in {"expr", "param"}, NEW action, NEW j,
           <<state, above, j>> \in Rows(action), j # 0, NEW state2, NEW finished,
           Fits(action, state2, finished, j)
    PROVE  ~finished
<1> SUFFICES ASSUME finished PROVE FALSE
  OBVIOUS
<1>1. action = "sem_condition" /\ j = 1
  BY DEF Fits
<1>2. Orderly(action, Rows(action), Places(action))
  BY RowsHaveActions, TablesAreOrderly DEF AllActions
<1> QED BY <1>1, <1>2 DEF Orderly

\* Definitions of functions do not end in a step.
NoMoreDefs(n, an, an2) == \A d \in 1 .. n : DefOver(an2[d]) => DefOver(an[d])
EndsDefs(p, q, ends) ==
    \A d \in 1 .. Height(q) : DefOver(Frames(q)[d]) =>
        (d \in 1 .. Height(p) /\ DefOver(Frames(p)[d])) \/ (d = Height(q) /\ ends)

LEMMA ExpectsAtNoEnd ==
    ASSUME NEW state, NEW above \in {"expr", "param"}, NEW j, <<state, above, j>> \in Rows("sem_func_def")
    PROVE  j # 0
  BY Tabled DEF DefRows

LEMMA ValueIsPassed ==
    ASSUME NEW p, NEW id, Kept(p, id), NEW n, n = Height(p), NEW an, an = Frames(p), n > 0,
           NEW m, NEW sym, NEW own, NEW lab, NEW cur, Coupled(m, sym, own, lab, cur, n, an),
           Speaks(an[n]), Over(an[n]), OwnerLives(m, own, n, an), sym[m] = id, id \notin Nonterminals,
           sem_action(WithoutTop(p), Me(p).value).ret = "SUCCESS",
           NEW q, q = sem_action(WithoutTop(p), Me(p).value).parser
    PROVE  /\ Result(q, id, m, sym, own, n - 1) /\ OwnerLives(m, own, n - 1, Frames(q))
           /\ NoMoreDefs(n - 1, an, Frames(q))
<1> DEFINE w == WithoutTop(p)
           j == cur[n - 1]
           action == an[n - 1].sem_action
           value == Me(p).value
<1>0. n - 1 \in Nat \ {0} /\ ~Over(an[n - 1]) /\ Loose(an[n - 1]) /\ n \in Nat
  BY SpeaksOnTop
<1>1. own[m] # n /\ own[m] \in 0 .. n - 1
  BY <1>0 DEF OwnerLives
<1>2. /\ Fit(p) /\ Fit(w) /\ Height(w) = n - 1 /\ Agree(n - 1, an, Frames(w))
  BY PoppedFits DEF Kept
<1>3. Ready(w, action) /\ Sums(n - 1, Frames(w), Tables(w))
  BY ParentIsReady
<1>4. Expected(w, value, j) /\ \E above \in {"expr", "param"} : <<an[n - 1].state, above, j>> \in Rows(action)
  BY <1>1, ValueIsExpected
<1>5. PICK above \in {"expr", "param"} : <<an[n - 1].state, above, j>> \in Rows(action)
  BY <1>4
<1>6. ParentStands(m, sym, own, lab, cur, n, an)
  BY <1>1, WhereItStands
<1>7. Me(w) = an[n - 1] /\ Frames(w)[n - 1] = an[n - 1]
  <2>1. Me(w) = Frames(w)[n - 1] /\ n - 1 \in 1 .. n - 1
    BY <1>0, <1>2, TopFrame
  <2> QED BY <1>2, <2>1 DEF Agree
<1>8. action # "sem_expr_result"
  BY <1>5, RowsHaveActions DEF Actions
<1> HIDE DEF w, j, action, value
<1>9. sem_action(w, value).ret = "SUCCESS" /\ sem_action(w, value).parser = q
  BY DEF w, value
<1>10. Leaves(w, q, value, j)
  BY <1>3, <1>4, <1>9, ActionActs
<1>11. /\ Fit(q) /\ Height(q) = n - 1 /\ Agree(n - 2, Frames(w), Frames(q))
       /\ Frames(q)[n - 1] = Me(q) /\ SameActions(n - 1, Frames(w), Frames(q))
       /\ Over(Me(q)) <=> Me(q).finished
  <2>1. Height(w) > 0 /\ Height(w) - 1 = n - 2
    BY <1>0, <1>2
  <2> QED BY <1>2, <1>10, <2>1, ParentGotValue
<1>12. Agree(n - 2, an, Frames(q)) /\ SameActions(n - 1, an, Frames(q))
  BY <1>0, <1>2, <1>11 DEF Agree, SameActions
<1>13. Kept(q, id) /\ Frames(q)[n - 1].sem_action # "sem_expr_result"
  <2>1. Me(w).sem_action # "sem_expr_result"
    BY <1>7, <1>8 DEF action
  <2> QED BY <1>0, <1>2, <1>3, <1>10, <2>1, LeavesKept
<1>14. Me(q).sem_action = action /\ Fits(action, Me(q).state, Me(q).finished, j)
  BY <1>7, <1>10 DEF Leaves, action
<1>15. Coupled(m, sym, own, lab, cur, n - 1, Frames(q))
  <2>1. Standing(n - 1, Frames(q), cur, n - 1)
    BY <1>11, <1>14 DEF Standing, Fits, AboveAt, j
  <2> QED BY <1>0, <1>1, <1>12, <2>1, FinishedIsRemoved
<1>16. OwnerLives(m, own, n - 1, Frames(q))
  <2>1. CASE own[m] = n - 1
    <3>0. j # 0
      <4>1. OnTop(m, sym, own, lab, cur, n, an)
        BY TopHeight DEF Coupled
      <4> QED BY <2>1, <4>1 DEF OnTop, j
    <3>1. ~Me(q).finished
      BY <1>5, <1>14, <3>0, NotYetOver
    <3> QED BY <1>0, <1>11, <2>1, <3>1 DEF OwnerLives
  <2>2. CASE own[m] # n - 1
    <3>1. own[m] = 0 \/ own[m] \in 1 .. n - 2
      BY <1>0, <1>1, <2>2
    <3> QED BY <1>0, <1>1, <1>12, <3>1 DEF OwnerLives, Agree
  <2> QED BY <2>1, <2>2
<1>17. NoMoreDefs(n - 1, an, Frames(q))
  <2>1. action = "sem_func_def" => j # 0
    BY <1>5, ExpectsAtNoEnd
  <2>2. action = "sem_func_def" => ~Me(q).finished
    BY <1>5, <1>14, <2>1, NotYetOver
  <2>3. ~DefOver(Frames(q)[n - 1])
    BY <1>11, <1>14, <2>2 DEF DefOver
  <2> QED BY <1>0, <1>12, <2>3 DEF Agree, NoMoreDefs
<1> QED BY <1>0, <1>11, <1>13, <1>15, <1>16, <1>17 DEF Result, Joined
-----------------------------------------------------------------------------
\* The analyzer on the top, where it has not finished, may get a token.
LEMMA ReadyToRead ==
    ASSUME NEW p, NEW id, Kept(p, id), NEW n, n = Height(p), NEW an, an = Frames(p), n > 0,
           NEW m, NEW sym, NEW own, NEW lab, NEW cur, Coupled(m, sym, own, lab, cur, n, an), ~Over(an[n])
    PROVE  /\ Ready(p, an[n].sem_action) /\ p.step_found = FALSE /\ Me(p) = an[n]
           /\ an[n].sem_action # "sem_expr_result" /\ n \in Nat \ {0} /\ Fit(p)
<1>1. Fit(p) /\ Sums(n, an, Tables(p)) /\ FlagsKept(p, n, an) /\ StepSeen(p, n, an, id)
  BY DEF Kept
<1>2. n \in Nat \ {0} /\ Busy(p) /\ Me(p) = an[n] /\ (Over(Me(p)) <=> Me(p).finished)
  BY <1>1, TopFrame
<1>3. an[n].sem_action # "sem_expr_result"
  <2>1. Heard(n, an, n)
    BY <1>2 DEF Coupled, Voiced
  <2> QED BY <2>1 DEF Heard
<1>4. p.step_found = FALSE
  BY <1>1, <1>3 DEF StepSeen
<1>5. FlagsFit(p)
  BY <1>1, <1>2, <1>3, FlagsOfTop DEF FlagsKept
<1>6. Tables(p) >= TablesHeld(an[n])
  BY <1>1, <1>2, SumsAtLeast
<1> QED BY <1>1, <1>2, <1>3, <1>4, <1>5, <1>6 DEF Ready

LEMMA TokenIsValue ==
    ASSUME NEW t
    PROVE  IsValue(TokenValue(t)) /\ TokenValue(t).value_type = "TOKEN" /\ TokenValue(t).token = t.id
  BY DEF TokenValue, NoValue, IsValue

\* A definition of a function is over at FUNCTION, where its line ends.
LEMMA NoDefEndsHere ==
    ASSUME NEW state, NEW above, NEW action, <<state, above, 0>> \in Rows(action)
    PROVE  action # "sem_func_def"
  BY Tabled DEF DefRows

LEMMA DefEndsLine ==
    ASSUME NEW m, NEW sym, NEW own, NEW lab, NEW cur, NEW n, NEW an,
           Coupled(m, sym, own, lab, cur, n, an), n > 0, own[m] = n, ~Over(an[n]),
           an[n].sem_action = "sem_func_def", Below(own, lab, m) = 0
    PROVE  m > 1 /\ sym[m - 1] = "EOL"
<1>1. Ordered(m, own, n) /\ Placed(m, sym, own, lab, an) /\ Lined(m, sym, own, n, an)
  BY DEF Coupled, Heights
<1>2. m \in Nat \ {0} /\ m > 1 /\ m - 1 \in 1 .. m /\ n \in Nat \ {0}
  BY <1>1 DEF Ordered
<1>3. own[m - 1] # n
  <2>1. \E i, s, j : <<lab[m - 1], s, j>> \in Places(i)
    BY <1>1, <1>2 DEF Placed
  <2>2. lab[m - 1] # 0
    BY <2>1, PlacesNotZero
  <2> QED BY <1>2, <2>2 DEF Below
<1>4. own[m - 1] < n
  BY <1>1, <1>2, <1>3 DEF Ordered
<1>5. Between(m, own, m - 1, n) /\ Loose(an[n])
  BY <1>2, <1>4 DEF Between, Loose
<1> QED BY <1>1, <1>2, <1>5 DEF Lined

\* The token goes to the statement it belongs to.
LEMMA TokenIsRead ==
    ASSUME NEW p, NEW id, Kept(p, id), NEW n, n = Height(p), NEW an, an = Frames(p), n > 0,
           NEW m, NEW sym, NEW own, NEW lab, NEW cur, Coupled(m, sym, own, lab, cur, n, an), ~Over(an[n]),
           own[m] = n, NEW t, sym[m] = t.id, t.id \notin Nonterminals,
           sem_action(p, TokenValue(t)).ret = "SUCCESS",
           NEW q, q = sem_action(p, TokenValue(t)).parser,
           NEW sym2, NEW own2, Agree(m - 1, sym, sym2), Agree(m - 1, own, own2), NEW id2
    PROVE  /\ Result(q, id2, m - 1, sym2, own2, n) /\ NoMoreDefs(n - 1, an, Frames(q))
           /\ DefOver(Frames(q)[n]) => m > 1 /\ sym[m - 1] = "EOL"
<1> DEFINE j == Below(own, lab, m)
           action == an[n].sem_action
           value == TokenValue(t)
<1>1. /\ Ready(p, action) /\ p.step_found = FALSE /\ Me(p) = an[n]
      /\ action # "sem_expr_result" /\ n \in Nat \ {0} /\ Fit(p)
  BY ReadyToRead
<1>2. <<an[n].state, "none", lab[m]>> \in Rows(action)
  <2>1. own[m] # 0 /\ ~Over(an[own[m]])
    BY <1>1
  <2>2. <<an[own[m]].state, AboveAt(n, an, own[m]), lab[m]>> \in Rows(an[own[m]].sem_action)
    BY <2>1, OwnerWaits
  <2> QED BY <2>2 DEF AboveAt
<1>3. <<lab[m], t.id, j>> \in Places(action)
  <2>1. OnTop(m, sym, own, lab, cur, n, an)
    BY TopHeight DEF Coupled
  <2> QED BY <1>1, <2>1 DEF OnTop, ActionAt
<1>4. Expected(p, value, j)
  BY <1>1, <1>2, <1>3, TokenIsValue DEF Expected, Reads
<1> HIDE DEF j, action, value
<1>5. sem_action(p, value).ret = "SUCCESS" /\ sem_action(p, value).parser = q
  BY DEF value
<1>6. Leaves(p, q, value, j)
  BY <1>1, <1>4, <1>5, ActionActs
<1>7. /\ Fit(q) /\ Height(q) = n /\ Agree(n - 1, an, Frames(q))
      /\ Frames(q)[n] = Me(q) /\ SameActions(n, an, Frames(q)) /\ (Over(Me(q)) <=> Me(q).finished)
  BY <1>1, <1>6, ParentGotValue
<1>8. Kept(q, id2) /\ Frames(q)[n].sem_action # "sem_expr_result"
  <2>1. Sums(n, an, Tables(p))
    BY DEF Kept
  <2> QED BY <1>1, <1>6, <2>1, LeavesKept DEF action
<1>9. Joined(m - 1, sym2, own2, n, Frames(q))
  <2>1. Fits(Frames(q)[n].sem_action, Frames(q)[n].state, Frames(q)[n].finished, Below(own, lab, m))
    BY <1>6, <1>7 DEF Leaves, j
  <2> QED BY <1>1, <1>7, <2>1, AnalyzerReads
<1>10. DefOver(Frames(q)[n]) => m > 1 /\ sym[m - 1] = "EOL"
  <2>1. SUFFICES ASSUME DefOver(Me(q)) PROVE m > 1 /\ sym[m - 1] = "EOL"
    BY <1>7
  <2>2. action = "sem_func_def" /\ j = 0
    BY <1>1, <1>6, <1>7, <2>1 DEF Leaves, Fits, DefOver, Over, action
  <2> QED BY <1>1, <2>2, DefEndsLine DEF action, j
<1>11. NoMoreDefs(n - 1, an, Frames(q))
  BY <1>7 DEF Agree, NoMoreDefs
<1> QED BY <1>7, <1>8, <1>9, <1>10, <1>11 DEF Result

\* The end of a line goes to the statement that is left on the top.
LEMMA LineIsEnded ==
    ASSUME NEW p, NEW id, Kept(p, id), NEW n, n = Height(p), NEW an, an = Frames(p), n > 0,
           NEW m, NEW sym, NEW own, NEW lab, NEW cur, Coupled(m, sym, own, lab, cur, n, an), ~Over(an[n]),
           own[m] # n, NEW t, sym[m] = t.id, m > 1,
           sem_action(p, TokenValue(t)).ret = "SUCCESS",
           NEW q, q = sem_action(p, TokenValue(t)).parser,
           NEW sym2, NEW own2, Agree(m - 1, sym, sym2), Agree(m - 1, own, own2), NEW id2
    PROVE  Result(q, id2, m - 1, sym2, own2, n) /\ NoMoreDefs(n, an, Frames(q))
<1> DEFINE action == an[n].sem_action
           value == TokenValue(t)
<1>1. /\ Ready(p, action) /\ p.step_found = FALSE /\ Me(p) = an[n]
      /\ action # "sem_expr_result" /\ n \in Nat \ {0} /\ Fit(p)
  BY ReadyToRead
<1>2. EndOfLine(m, sym, own, cur, n, an)
  BY OnlyTheEndOfItsLine
<1>3. EndsLine(p, value, 0)
  BY <1>1, <1>2, TokenIsValue DEF EndsLine, EndOfLine
<1> HIDE DEF action, value
<1>5. sem_action(p, value).ret = "SUCCESS" /\ sem_action(p, value).parser = q
  BY DEF value
<1>6. Leaves(p, q, value, 0)
  BY <1>1, <1>3, <1>5, ActionActs DEF Expected
<1>7. /\ Fit(q) /\ Height(q) = n /\ Agree(n - 1, an, Frames(q))
      /\ Frames(q)[n] = Me(q) /\ SameActions(n, an, Frames(q)) /\ (Over(Me(q)) <=> Me(q).finished)
  BY <1>1, <1>6, ParentGotValue
<1>8. Kept(q, id2) /\ Frames(q)[n].sem_action # "sem_expr_result"
  <2>1. Sums(n, an, Tables(p))
    BY DEF Kept
  <2> QED BY <1>1, <1>6, <2>1, LeavesKept DEF action
<1>9. Joined(m - 1, sym2, own2, n, Frames(q))
  <2>1. Over(Frames(q)[n])
    BY <1>3, <1>6, <1>7 DEF Leaves
  <2> QED BY <1>7, <2>1, StatementEnds
<1>10. NoMoreDefs(n, an, Frames(q))
  <2>1. action # "sem_func_def"
    BY <1>2, NoDefEndsHere DEF EndOfLine, action
  <2>2. ~DefOver(Frames(q)[n])
    BY <1>1, <1>6, <1>7, <2>1 DEF Leaves, DefOver, action
  <2> QED BY <1>1, <1>7, <2>2 DEF Agree, NoMoreDefs
<1> QED BY <1>7, <1>8, <1>9, <1>10 DEF Result

\* Where no value of an expression is on the top nothing depends on the token
\* to come.
LEMMA AnyTokenMayCome ==
    ASSUME NEW p, NEW id, Kept(p, id), NEW id2,
           Height(p) > 0 => Frames(p)[Height(p)].sem_action # "sem_expr_result"
    PROVE  Kept(p, id2)
  BY DEF Kept, StepSeen

\* The token goes to nobody.
LEMMA TokenIsLost ==
    ASSUME NEW p, NEW id, Kept(p, id), NEW n, n = Height(p), NEW an, an = Frames(p), n = 0,
           NEW m, NEW sym, NEW own, NEW lab, NEW cur, Coupled(m, sym, own, lab, cur, n, an), m > 1,
           NEW sym2, NEW own2, Agree(m - 1, sym, sym2), Agree(m - 1, own, own2), NEW id2
    PROVE  Result(p, id2, m - 1, sym2, own2, n)
<1>1. Kept(p, id2)
  <2>1. ~(Height(p) > 0)
    OBVIOUS
  <2> QED BY <2>1, AnyTokenMayCome
<1>2. Joined(m - 1, sym2, own2, n, an)
  BY NobodyReads
<1> QED BY <1>1, <1>2 DEF Result

\* At the end of the file there is no analyzer and no table.
LEMMA NothingAtTheEnd ==
    ASSUME NEW p, NEW id, Kept(p, id), NEW n, n = Height(p), NEW an, an = Frames(p),
           NEW m, NEW sym, NEW own, NEW lab, NEW cur, Coupled(m, sym, own, lab, cur, n, an),
           sym[m] = "EOF", n > 0 => ~Over(an[n])
    PROVE  p.sem_an_stack = << >> /\ p.sym_tab_stack = << >>
<1>1. own[m] = 0
  BY OwnerOfEOF
<1>2. Fit(p) /\ Sums(n, an, Tables(p))
  BY DEF Kept
<1>3. n \in Nat
  BY DEF Coupled, Heights, Ordered
<1>4. n = 0
  <2>1. SUFFICES ASSUME n > 0 PROVE FALSE
    BY <1>3
  <2>2. own[m] # n /\ ~Over(an[n])
    BY <1>1, <2>1
  <2>3. EndOfLine(m, sym, own, cur, n, an)
    BY <2>1, <2>2, OnlyTheEndOfItsLine
  <2> QED BY <2>3 DEF EndOfLine
<1>5. Tables(p) = 0
  BY <1>2, <1>4, SumsOfNone
<1>6. Len(p.sem_an_stack) = 0 /\ Len(p.sym_tab_stack) = 0
  BY <1>4, <1>5 DEF Height, Tables
<1> QED BY <1>2, <1>6, EmptySeq DEF Fit, IsSeq
-----------------------------------------------------------------------------
(* What the proofs need of the grammar: EOF is neither a nonterminal nor   *)
(* in a production, and productions are sequences (grammar_init).          *)
Proper(r) ==
    /\ r.for_nt # "EOF"
    /\ Len(r.production) \in Nat
    /\ DOMAIN r.production = 1 .. Len(r.production)
    /\ r.production = [k \in DOMAIN r.production |-> r.production[k]]
    /\ \A k \in DOMAIN r.production : r.production[k] # "EOF"

LEMMA RulesProper == \A r \in grammar_rules : Proper(r)
<1>1. \A r \in ProgramRules : Proper(r)
  BY SMTT(60) DEF ProgramRules, Rule, Proper
<1>2. \A r \in StatementRules : Proper(r)
  BY SMTT(60) DEF StatementRules, Rule, Proper
<1>3. \A r \in DeclarationRules : Proper(r)
  BY SMTT(60) DEF DeclarationRules, Rule, Tokens, Types, Proper
<1>4. \A r \in SimpleRules : Proper(r)
  BY SMTT(60) DEF SimpleRules, Rule, Tokens, AssignOperators, Proper
<1>5. \A r \in ConditionRules : Proper(r)
  BY SMTT(60) DEF ConditionRules, Rule, Proper
<1>6. \A r \in LoopRules : Proper(r)
  BY SMTT(60) DEF LoopRules, Rule, Tokens, Proper
<1> QED BY <1>1, <1>2, <1>3, <1>4, <1>5, <1>6 DEF grammar_rules

LEMMA NonterminalsNotEOF == "EOF" \notin Nonterminals
  BY RulesProper DEF Nonterminals, Proper

(* A production is a sequence of symbols. *)
LEMMA ProductionsAreSymbols ==
    ASSUME NEW r \in grammar_rules
    PROVE  r.production \in Seq(Symbols)
<1>1. \A k \in DOMAIN r.production : r.production[k] \in Symbols
  BY DEF Symbols
<1> DEFINE p == r.production
<1>2. Len(p) \in Nat /\ DOMAIN p = 1 .. Len(p) /\ p = [k \in DOMAIN p |-> p[k]]
  BY RulesProper DEF Proper
<1>3. \A k \in DOMAIN p : p[k] \in Symbols
  BY <1>1
<1> HIDE DEF p
<1>4. p \in [1 .. Len(p) -> Symbols]
  BY <1>2, <1>3
<1>5. p \in Seq(Symbols)
  BY <1>2, <1>4
<1> QED BY <1>5 DEF p

\* What is below the topmost symbol
Under(s, o, m) ==
    /\ Len(s) = m /\ Len(o) = m /\ m \in Nat \ {0} /\ s # << >> /\ o # << >>
    /\ Flip(s)[m] = Head(s) /\ Flip(o)[m] = Head(o)
    /\ IsSeq(Tail(s)) /\ IsSeq(Tail(o)) /\ Len(Tail(s)) = m - 1 /\ Len(Tail(o)) = m - 1
    /\ Agree(m - 1, Flip(s), Flip(Tail(s))) /\ Agree(m - 1, Flip(o), Flip(Tail(o)))

LEMMA SequencesUnder ==
    ASSUME NEW s, IsSeq(s), NEW o, IsSeq(o), NEW m, m = Len(s), Len(o) = m, m > 0
    PROVE  Under(s, o, m)
<1>1. Len(s) > 0 /\ Len(o) > 0
  OBVIOUS
<1>2. Len(s) \in Nat \ {0} /\ Flip(s)[Len(s)] = s[1] /\ Head(s) = s[1]
  BY <1>1, FlipEnds
<1>3. Flip(o)[Len(o)] = o[1] /\ Head(o) = o[1]
  BY <1>1, FlipEnds
<1>4. IsSeq(Tail(s)) /\ Len(Tail(s)) = Len(s) - 1 /\ Agree(Len(s) - 1, Flip(s), Flip(Tail(s)))
  BY <1>1, FlipTail
<1>5. IsSeq(Tail(o)) /\ Len(Tail(o)) = Len(o) - 1 /\ Agree(Len(o) - 1, Flip(o), Flip(Tail(o)))
  BY <1>1, FlipTail
<1>6. s # << >> /\ o # << >>
  BY <1>1, EmptySeq
<1> QED BY <1>2, <1>3, <1>4, <1>5, <1>6 DEF Under

LEMMA PairedUnder ==
    ASSUME NEW s, NEW o, NEW st, Paired(s, o, st)
    PROVE  \E m, lab, cur : Under(s, o, m) /\ Coupled(m, Flip(s), Flip(o), lab, cur, Len(st), Flip(st))
<1>1. PICK lab, cur : Coupled(Len(s), Flip(s), Flip(o), lab, cur, Len(st), Flip(st))
  BY DEF Paired, Joined
<1>2. Len(s) \in Nat \ {0}
  BY <1>1 DEF Coupled, Heights, Ordered
<1>3. Under(s, o, Len(s))
  BY <1>2, SequencesUnder DEF Paired
<1> QED BY <1>1, <1>3

LEMMA OneOwner ==
    ASSUME NEW p, IsSeq(p), NEW d, NEW o, o = [k \in DOMAIN p |-> d]
    PROVE  IsSeq(o) /\ Len(o) = Len(p) /\ \A k \in 1 .. Len(p) : o[k] = d
<1>1. Len(p) \in Nat /\ DOMAIN p = 1 .. Len(p)
  BY LenProperties DEF IsSeq
<1>2. o \in [1 .. Len(p) -> {d}]
  BY <1>1
<1>3. o \in Seq({d})
  BY <1>1, <1>2
<1>4. Len(o) \in Nat /\ DOMAIN o = 1 .. Len(o)
  BY <1>3, LenProperties
<1>5. 1 .. Len(o) = 1 .. Len(p)
  BY <1>2, <1>4
<1>6. Len(o) = Len(p)
  BY <1>1, <1>4, <1>5
<1> QED BY <1>2, <1>3, <1>6 DEF IsSeq

\* A production in the place of the topmost symbol (push_rule)
Replaced(p, s) == p \o Tail(s)
OwnersOf(p, d, o) == [k \in DOMAIN p |-> d] \o Tail(o)

LEMMA ProductionPushed ==
    ASSUME NEW s, NEW o, NEW m, Under(s, o, m), NEW p, IsSeq(p), NEW d,
           NEW s2, s2 = Replaced(p, s), NEW o2, o2 = OwnersOf(p, d, o)
    PROVE  /\ IsSeq(s2) /\ IsSeq(o2) /\ Len(s2) = m - 1 + Len(p) /\ Len(o2) = Len(s2)
           /\ Agree(m - 1, Flip(s), Flip(s2)) /\ Agree(m - 1, Flip(o), Flip(o2))
           /\ Pushed(p, Len(p), m - 1, d, Flip(s2), Flip(o2))
<1> DEFINE q == [k \in DOMAIN p |-> d]
<1>1. IsSeq(q) /\ Len(q) = Len(p) /\ \A k \in 1 .. Len(p) : q[k] = d
  BY OneOwner
<1>2. /\ m \in Nat \ {0} /\ IsSeq(Tail(s)) /\ IsSeq(Tail(o)) /\ Len(Tail(s)) = m - 1 /\ Len(Tail(o)) = m - 1
      /\ Agree(m - 1, Flip(s), Flip(Tail(s))) /\ Agree(m - 1, Flip(o), Flip(Tail(o)))
  BY DEF Under
<1> HIDE DEF q
<1>3. s2 = p \o Tail(s) /\ o2 = q \o Tail(o) /\ Len(p) \in Nat
  BY LenProperties DEF q, IsSeq, Replaced, OwnersOf
<1>4. /\ IsSeq(s2) /\ Len(s2) = (m - 1) + Len(p) /\ Agree(m - 1, Flip(Tail(s)), Flip(s2))
      /\ \A h \in (m - 1) + 1 .. (m - 1) + Len(p) : Flip(s2)[h] = p[((m - 1) + Len(p) + 1) - h]
  <2>1. /\ IsSeq(p \o Tail(s)) /\ Len(p \o Tail(s)) = Len(Tail(s)) + Len(p)
        /\ Agree(Len(Tail(s)), Flip(Tail(s)), Flip(p \o Tail(s)))
        /\ \A h \in Len(Tail(s)) + 1 .. Len(Tail(s)) + Len(p) :
              Flip(p \o Tail(s))[h] = p[(Len(Tail(s)) + Len(p) + 1) - h]
    BY <1>2, FlipPush
  <2> QED BY <1>2, <1>3, <2>1
<1>5. /\ IsSeq(o2) /\ Len(o2) = (m - 1) + Len(p) /\ Agree(m - 1, Flip(Tail(o)), Flip(o2))
      /\ \A h \in (m - 1) + 1 .. (m - 1) + Len(p) : Flip(o2)[h] = q[((m - 1) + Len(p) + 1) - h]
  <2>1. /\ IsSeq(q \o Tail(o)) /\ Len(q \o Tail(o)) = Len(Tail(o)) + Len(q)
        /\ Agree(Len(Tail(o)), Flip(Tail(o)), Flip(q \o Tail(o)))
        /\ \A h \in Len(Tail(o)) + 1 .. Len(Tail(o)) + Len(q) :
              Flip(q \o Tail(o))[h] = q[(Len(Tail(o)) + Len(q) + 1) - h]
    BY <1>1, <1>2, FlipPush
  <2> QED BY <1>1, <1>2, <1>3, <2>1
<1>6. Agree(m - 1, Flip(s), Flip(s2)) /\ Agree(m - 1, Flip(o), Flip(o2))
  BY <1>2, <1>4, <1>5 DEF Agree
<1>7. \A h \in (m - 1) + 1 .. (m - 1) + Len(p) :
         ((m - 1) + Len(p) + 1) - h \in 1 .. Len(p)
  BY <1>2, <1>3
<1>8. Pushed(p, Len(p), m - 1, d, Flip(s2), Flip(o2))
  BY <1>1, <1>4, <1>5, <1>7 DEF Pushed
<1> QED BY <1>2, <1>4, <1>5, <1>6, <1>8

\* The symbol that was matched, put back
LEMMA PutBack ==
    ASSUME NEW s, IsSeq(s), NEW o, IsSeq(o), Len(o) = Len(s), NEW x, NEW d
    PROVE  /\ IsSeq(<<x>> \o s) /\ IsSeq(<<d>> \o o) /\ Len(<<x>> \o s) = Len(s) + 1
           /\ Len(<<d>> \o o) = Len(s) + 1
           /\ Flip(<<x>> \o s)[Len(s) + 1] = x /\ Flip(<<d>> \o o)[Len(s) + 1] = d
           /\ Agree(Len(s), Flip(<<x>> \o s), Flip(s)) /\ Agree(Len(s), Flip(<<d>> \o o), Flip(o))
<1>1. ASSUME NEW y, NEW t, IsSeq(t)
      PROVE  /\ IsSeq(<<y>> \o t) /\ Len(<<y>> \o t) = Len(t) + 1
             /\ Flip(<<y>> \o t)[Len(t) + 1] = y /\ Agree(Len(t), Flip(<<y>> \o t), Flip(t))
  <2>1. IsSeq(<<y>>) /\ Len(<<y>>) = 1 /\ <<y>>[1] = y /\ Len(t) \in Nat
    <3>1. <<y>> \in Seq({y})
      OBVIOUS
    <3> QED BY <1>1, <3>1, LenProperties DEF IsSeq
  <2>2. /\ IsSeq(<<y>> \o t) /\ Len(<<y>> \o t) = Len(t) + Len(<<y>>)
        /\ Agree(Len(t), Flip(t), Flip(<<y>> \o t))
        /\ \A h \in Len(t) + 1 .. Len(t) + Len(<<y>>) :
              Flip(<<y>> \o t)[h] = <<y>>[(Len(t) + Len(<<y>>) + 1) - h]
    BY <1>1, <2>1, FlipPush
  <2>3. Len(t) + 1 \in Len(t) + 1 .. Len(t) + Len(<<y>>) /\ (Len(t) + Len(<<y>>) + 1) - (Len(t) + 1) = 1
    BY <2>1
  <2> QED BY <2>1, <2>2, <2>3 DEF Agree
<1> QED BY <1>1
-----------------------------------------------------------------------------
LEMMA TokensAreThere ==
    ASSUME source \in Programs, NEW n
    PROVE  TokenAt(n).id # "none" /\ TokenAt(n) # NoToken
<1>1. source \in Seq(Scanned)
  BY ProgramsAssumption
<1>2. CASE n \in DOMAIN source
  <2>1. source[n] \in Scanned
    BY <1>1, <1>2
  <2> QED BY <1>2, <2>1, ScannedAssumption DEF TokenAt, NoToken
<1>3. CASE n \notin DOMAIN source
  BY <1>3 DEF TokenAt, EOF, NoToken
<1> QED BY <1>2, <1>3

\* A step that leaves the stacks alone and does not wait for the analyzers
LEMMA SameStacks ==
    ASSUME Working, pc \in {"get_token", "rewrite", "expression"},
           UNCHANGED <<parser, dtree_stack, owners>>, pc' \in {"rewrite", "expression"},
           Kept(parser, token'.id),
           pc' = "expression" => dtree_stack # << >> /\ Top = "NT_EXPRESSION" /\ token' = NoToken
    PROVE  Working'
<1>1. Paired(dtree_stack, owners, parser.sem_an_stack)
  BY DEF Working, StacksPaired
<1>2. StacksPaired'
  BY <1>1 DEF StacksPaired
<1>3. Kept(parser', NextUp'.id)
  BY DEF NextUp
<1>4. pc' = "expression" => dtree_stack' # << >> /\ Top' = "NT_EXPRESSION" /\ token' = NoToken
  BY DEF Top
<1> QED BY <1>2, <1>3, <1>4 DEF Working

LEMMA DoneKeeps ==
    ASSUME TInv, pc' = "done", ret_code' # "SUCCESS", source' = source
    PROVE  TInv'
  BY DEF TInv, NothingLeft, Accepted

LEMMA GetTokenKeeps ==
    ASSUME TInv, GetToken
    PROVE  TInv'
<1>1. PICK t : /\ pc = "get_token" /\ Consider(t) /\ UNCHANGED translation
               /\ t = backlog_token \/ backlog_token = NoToken
  BY DEF GetToken, TakeBacklog, ReadToken
<1>2. Working
  BY <1>1 DEF TInv
<1>3. UNCHANGED <<parser, dtree_stack, owners, source>> /\ token' = t
  BY <1>1 DEF Consider, translation
<1>4. CASE t.id = "LEX_ERROR"
  <2>1. pc' = "done" /\ ret_code' # "SUCCESS"
    BY <1>1, <1>4 DEF Consider, Fail
  <2> QED BY <1>3, <2>1, DoneKeeps
<1>5. CASE t.id # "LEX_ERROR"
  <2>1. pc' = "rewrite"
    BY <1>1, <1>5 DEF Consider, GoTo
  <2>2. Kept(parser, backlog_token.id)
    BY <1>1, <1>2 DEF Working, NextUp
  <2>3. Kept(parser, t.id)
    <3>1. CASE t = backlog_token
      BY <2>2, <3>1
    <3>2. CASE backlog_token = NoToken
      <4>1. ~ValueOnTop(parser)
        BY <1>1, <1>2, <3>2 DEF Working
      <4> QED BY <2>2, <4>1, AnyTokenMayCome DEF ValueOnTop
    <3> QED BY <1>1, <3>1, <3>2
  <2>4. Working'
    BY <1>1, <1>2, <1>3, <2>1, <2>3, SameStacks
  <2> QED BY <1>3, <2>1, <2>4 DEF TInv, NothingLeft, Accepted
<1> QED BY <1>4, <1>5

LEMMA RefuseKeeps ==
    ASSUME TInv, Refuse
    PROVE  TInv'
<1>1. pc' = "done" /\ ret_code' # "SUCCESS" /\ source' = source
  BY DEF Refuse, NoRule, Mismatch, Fail, translation
<1> QED BY <1>1, DoneKeeps

LEMMA GoToExpressionKeeps ==
    ASSUME TInv, GoToExpression
    PROVE  TInv'
<1>1. /\ pc = "rewrite" /\ Top = "NT_EXPRESSION" /\ token' = NoToken /\ pc' = "expression"
      /\ UNCHANGED <<parser, dtree_stack, owners, source>>
  BY DEF GoToExpression, CallExpression, GoTo, translation
<1>2. Working /\ Paired(dtree_stack, owners, parser.sem_an_stack) /\ Kept(parser, token.id)
  BY <1>1 DEF TInv, Working, StacksPaired, NextUp
<1>3. PICK m, lab, cur : /\ Under(dtree_stack, owners, m)
                         /\ Coupled(m, Flip(dtree_stack), Flip(owners), lab, cur,
                                    Len(parser.sem_an_stack), Flip(parser.sem_an_stack))
  BY <1>2, PairedUnder
<1>4. Flip(dtree_stack)[m] = "NT_EXPRESSION" /\ dtree_stack # << >>
  BY <1>1, <1>3 DEF Under, Top
<1>5. Kept(parser, token'.id)
  <2> DEFINE n == Len(parser.sem_an_stack)
             an == Flip(parser.sem_an_stack)
             sym == Flip(dtree_stack)
             own == Flip(owners)
  <2> HIDE DEF n, an, sym, own
  <2>1. Coupled(m, sym, own, lab, cur, n, an) /\ sym[m] = "NT_EXPRESSION"
    BY <1>3, <1>4 DEF n, an, sym, own
  <2>2. n \in Nat \ {0} /\ ~Over(an[n])
    BY <2>1, ExpressionOnTop
  <2>3. Heard(n, an, n)
    BY <2>1, <2>2 DEF Coupled, Voiced
  <2>4. an[n].sem_action # "sem_expr_result"
    BY <2>2, <2>3 DEF Heard
  <2>5. Height(parser) = n /\ Frames(parser) = an
    BY DEF Height, Frames, n, an
  <2> QED BY <1>2, <2>4, <2>5, AnyTokenMayCome
<1>6. Working'
  BY <1>1, <1>2, <1>4, <1>5, SameStacks
<1> QED BY <1>1, <1>6 DEF TInv, NothingLeft, Accepted
-----------------------------------------------------------------------------
(* Another analyzer on the stack                                           *)
With(p, a) == [p EXCEPT !.sem_an_stack = <<a>> \o @]

LEMMA AddedFits ==
    ASSUME NEW p, Fit(p), NEW a, IsAnalyzer(a), NEW q, q = With(p, a)
    PROVE  /\ Fit(q) /\ Height(q) = Height(p) + 1 /\ Height(p) \in Nat
           /\ Agree(Height(p), Frames(p), Frames(q)) /\ Frames(q)[Height(p) + 1] = a
           /\ Tables(q) = Tables(p) /\ Flags(q) = Flags(p)
<1> DEFINE s == p.sem_an_stack
           t == <<a>> \o s
<1>1. IsSeq(s) /\ DOMAIN p = Fields
  BY DEF Fit
<1>2. q.sem_an_stack = t /\ DOMAIN q = Fields /\ q.sym_tab_stack = p.sym_tab_stack
      /\ Flags(q) = Flags(p)
  BY <1>1 DEF With, Fields, Flags
<1>3. /\ IsSeq(t) /\ Len(t) = Len(s) + 1 /\ Flip(t)[Len(s) + 1] = a /\ Agree(Len(s), Flip(t), Flip(s))
  BY <1>1, PutBack
<1>4. Len(s) \in Nat
  BY <1>1, Lengths
<1>5. ASSUME NEW k \in 1 .. Len(t)
      PROVE  IsAnalyzer(t[k])
  <2>1. <<a>> \in Seq({a}) /\ Len(<<a>>) = 1 /\ <<a>>[1] = a
    OBVIOUS
  <2>2. PICK S : s \in Seq(S)
    BY <1>1 DEF IsSeq
  <2> DEFINE S2 == S \cup {a}
  <2>3. <<a>> \in Seq(S2) /\ s \in Seq(S2)
    BY <2>2
  <2> HIDE DEF S2, s
  <2>4. \A i \in 1 .. Len(t) : t[i] = IF i <= Len(<<a>>) THEN <<a>>[i] ELSE s[i - Len(<<a>>)]
    BY <2>3, ConcatProperties
  <2>5. \A i \in 1 .. Len(s) : IsAnalyzer(s[i])
    BY DEF Fit, s
  <2>6. CASE k = 1
    BY <2>1, <2>4, <2>6
  <2>7. CASE k # 1
    <3>1. k - 1 \in 1 .. Len(s) /\ t[k] = s[k - 1]
      BY <1>3, <1>4, <2>1, <2>4, <2>7
    <3> QED BY <2>5, <3>1
  <2> QED BY <2>6, <2>7
<1>6. Fit(q)
  <2>1. IsSeq(p.sym_tab_stack)
    BY DEF Fit
  <2> HIDE DEF t, s
  <2> QED BY <1>2, <1>3, <1>5, <2>1 DEF Fit
<1> HIDE DEF t
<1> QED BY <1>2, <1>3, <1>4, <1>6 DEF Height, Frames, Tables, Agree

LEMMA AddedDefs ==
    ASSUME NEW p, Fit(p), NEW a, IsAnalyzer(a), ~DefOver(a), NEW q, q = With(p, a)
    PROVE  EndsDefs(p, q, FALSE)
<1>1. /\ Height(q) = Height(p) + 1 /\ Height(p) \in Nat
      /\ Agree(Height(p), Frames(p), Frames(q)) /\ Frames(q)[Height(p) + 1] = a
  BY AddedFits
<1>2. ASSUME NEW d \in 1 .. Height(q), DefOver(Frames(q)[d])
      PROVE  d \in 1 .. Height(p) /\ DefOver(Frames(p)[d])
  <2>1. d # Height(p) + 1
    BY <1>1, <1>2
  <2>2. d \in 1 .. Height(p)
    BY <1>1, <2>1
  <2> QED BY <1>1, <1>2, <2>2 DEF Agree
<1> QED BY <1>2 DEF EndsDefs

\* The analyzer of a rule that starts
LEMMA StartedKept ==
    ASSUME NEW p, NEW id, Kept(p, id), NEW n, n = Height(p), NEW an, an = Frames(p),
           NEW action, action # "sem_expr_result", NEW q, q = With(p, Analyzer(action)),
           n > 0 => ~Speaks(an[n]),
           n > 0 /\ an[n].sem_action \in {"sem_var_decl", "sem_exit", "sem_continue"} => Over(an[n])
    PROVE  /\ Kept(q, id) /\ Height(q) = n + 1 /\ Agree(n, an, Frames(q)) /\ n \in Nat
           /\ Frames(q)[n + 1] = Analyzer(action)
<1> DEFINE a == Analyzer(action)
<1>1. IsAnalyzer(a) /\ a.sem_action = action /\ a.state = "START" /\ a.finished = FALSE
  BY DEF Analyzer, IsAnalyzer, Quiet, IsValue, NoValue
<1>2. /\ Fit(q) /\ Height(q) = n + 1 /\ n \in Nat /\ Agree(n, an, Frames(q)) /\ Frames(q)[n + 1] = a
      /\ Tables(q) = Tables(p) /\ Flags(q) = Flags(p)
  BY <1>1, AddedFits DEF Kept
<1> HIDE DEF a
<1>3. TablesHeld(a) = 0
  BY <1>1 DEF TablesHeld, TablesOf, Has, OneTable
<1>4. Sums(n + 1, Frames(q), Tables(q))
  <2>1. Sums(n, an, Tables(p))
    BY DEF Kept
  <2>2. Sums(n + 1, Frames(q), Tables(p) + TablesHeld(Frames(q)[n + 1]))
    BY <1>2, <2>1, SumsOfMore
  <2>3. Tables(p) \in Nat
    BY Lengths DEF Kept, Fit, Tables
  <2> QED BY <1>2, <1>3, <2>2, <2>3
<1>5. NoFlags(p) /\ p.step_found = FALSE
  <2>1. FlagsKept(p, n, an) /\ StepSeen(p, n, an, id)
    BY DEF Kept
  <2>2. CASE n = 0
    BY <2>1, <2>2 DEF FlagsKept, StepSeen
  <2>3. CASE n # 0
    <3>1. n > 0 /\ an[n].sem_action # "sem_expr_result"
      BY <1>2, <2>3 DEF Speaks
    <3>2. FlagsOf(p, an[n])
      BY <2>1, <2>3, <3>1 DEF FlagsKept
    <3>3. an[n].sem_action \in {"sem_var_decl", "sem_exit", "sem_continue"} => an[n].finished = TRUE
      BY <3>1 DEF Over
    <3> QED BY <2>1, <3>1, <3>2, <3>3 DEF FlagsOf, NoFlags, StepSeen
  <2> QED BY <2>2, <2>3
<1>6. NoFlags(q) /\ q.step_found = FALSE
  BY <1>2, <1>5 DEF NoFlags, Flags
<1>7. FlagsKept(q, n + 1, Frames(q))
  <2>1. FlagsOf(q, a)
    BY <1>6 DEF FlagsOf, NoFlags
  <2> QED BY <1>1, <1>2, <2>1 DEF FlagsKept
<1>8. StepSeen(q, n + 1, Frames(q), id)
  BY <1>1, <1>2, <1>6 DEF StepSeen
<1> QED BY <1>2, <1>4, <1>7, <1>8 DEF Kept, a

LEMMA BlankKept == Kept(parser_init, "none")
<1> DEFINE p == parser_init
<1>1. p.sem_an_stack = << >> /\ p.sym_tab_stack = << >> /\ DOMAIN p = Fields
      /\ p.static_var_decl = FALSE /\ p.il_override = "none" /\ p.last_loop_type = "none"
      /\ p.step_found = FALSE
  BY DEF parser_init, Fields
<1> HIDE DEF p
<1>2. IsSeq(<< >>) /\ Len(<< >>) = 0
  <2>1. << >> \in Seq({})
    OBVIOUS
  <2> QED BY <2>1, EmptySeq DEF IsSeq
<1>3. Fit(p) /\ Height(p) = 0 /\ Tables(p) = 0
  BY <1>1, <1>2 DEF Fit, Height, Tables
<1>4. Sums(0, Frames(p), 0)
  BY SumsOfNone
<1>5. FlagsKept(p, 0, Frames(p)) /\ StepSeen(p, 0, Frames(p), "none")
  BY <1>1 DEF FlagsKept, NoFlags, StepSeen
<1>6. Kept(p, "none")
  BY <1>3, <1>4, <1>5 DEF Kept
<1> QED BY <1>6 DEF p

LEMMA InitPaired ==
    ASSUME NEW s, s = <<"NT_LINE", "EOF">>, NEW o, o = <<0, 0>>
    PROVE  Paired(s, o, << >>) /\ IsSeq(s) /\ IsSeq(o) /\ Len(s) = 2 /\ Len(o) = 2
<1> DEFINE lab == [h \in 1 .. 2 |-> IF h = 1 THEN 1 ELSE 10]
           cur == [d \in 0 .. 0 |-> 10]
           sym == Flip(s)
           own == Flip(o)
           st == << >>
<1>1. Len(s) = 2 /\ Len(o) = 2 /\ s \in Seq({"NT_LINE", "EOF"}) /\ o \in Seq({0})
  OBVIOUS
<1>2. Len(st) = 0
  OBVIOUS
<1>3. sym[1] = "EOF" /\ sym[2] = "NT_LINE" /\ own[1] = 0 /\ own[2] = 0
  BY <1>1 DEF Flip
<1>4. lab[1] = 1 /\ lab[2] = 10 /\ cur[0] = 10
  OBVIOUS
<1> HIDE DEF lab, cur, sym, own, st
<1>5. Ordered(2, own, 0)
  BY <1>3 DEF Ordered
<1>6. Placed(2, sym, own, lab, Flip(st))
  <2>1. Below(own, lab, 1) = 0 /\ Below(own, lab, 2) = 1
    BY <1>3, <1>4 DEF Below
  <2>2. \A h \in 1 .. 2 : h = 1 \/ h = 2
    OBVIOUS
  <2>3. <<1, "EOF", 0>> \in ProgramPlaces /\ <<10, "NT_LINE", 1>> \in ProgramPlaces
    BY DEF ProgramPlaces
  <2> QED BY <1>3, <1>4, <2>1, <2>2, <2>3 DEF Placed, ActionAt, Places
<1>7. Current(2, own, lab, cur, 0)
  BY <1>3, <1>4 DEF Current
<1>8. Heights(2, sym, own, lab, cur, 0, Flip(st))
  BY <1>5, <1>6, <1>7 DEF Heights
<1>9. Rowed(0, Flip(st), cur) /\ Voiced(0, Flip(st)) /\ Lined(2, sym, own, 0, Flip(st))
  BY DEF Rowed, Voiced, Lined
<1>10. Coupled(2, sym, own, lab, cur, 0, Flip(st))
  BY <1>8, <1>9, Together
<1>11. Joined(2, sym, own, 0, Flip(st))
  BY <1>10 DEF Joined
<1>12. IsSeq(s) /\ IsSeq(o)
  BY <1>1 DEF IsSeq
<1>13. Joined(Len(s), Flip(s), Flip(o), Len(st), Flip(st))
  BY <1>1, <1>2, <1>11 DEF sym, own
<1>14. Paired(s, o, st)
  BY <1>1, <1>12, <1>13 DEF Paired
<1> QED BY <1>1, <1>12, <1>14 DEF st

LEMMA InitKeeps == TInit => TInv
<1> SUFFICES ASSUME TInit PROVE TInv
  OBVIOUS
<1>1. /\ source \in Programs /\ parser = parser_init /\ pc = "get_token" /\ backlog_token = NoToken
      /\ dtree_stack = <<"NT_LINE", "EOF">> /\ owners = <<0, 0>>
  BY DEF TInit, Init
<1>2. parser.sem_an_stack = << >> /\ NextUp.id = "none"
  BY <1>1 DEF parser_init, NextUp, NoToken
<1>3. Paired(dtree_stack, owners, << >>) /\ IsSeq(dtree_stack) /\ IsSeq(owners)
      /\ Len(owners) = Len(dtree_stack)
  BY <1>1, InitPaired
<1>4. Kept(parser, NextUp.id)
  BY <1>1, <1>2, BlankKept
<1>5. ~ValueOnTop(parser)
  <2>1. Len(parser.sem_an_stack) = 0
    BY <1>2
  <2> QED BY <2>1 DEF ValueOnTop, Height
<1>6. StacksPaired
  BY <1>1, <1>2, <1>3 DEF StacksPaired
<1>7. Working
  BY <1>1, <1>3, <1>4, <1>5, <1>6 DEF Working
<1> QED BY <1>1, <1>7 DEF TInv, NothingLeft, Accepted
-----------------------------------------------------------------------------
(* rewrite_until_terminal                                                  *)
Ends == {"EOF", "EOL", "IF"}

LEMMA RulesReplace == \A r \in grammar_rules : r.for_nt \notin Ends
<1> USE DEF Ends
<1>1. \A r \in ProgramRules : r.for_nt \notin Ends
  BY SMTT(60) DEF ProgramRules, Rule
<1>2. \A r \in StatementRules : r.for_nt \notin Ends
  BY SMTT(60) DEF StatementRules, Rule
<1>3. \A r \in DeclarationRules : r.for_nt \notin Ends
  BY SMTT(60) DEF DeclarationRules, Rule, Tokens, Types
<1>4. \A r \in SimpleRules : r.for_nt \notin Ends
  BY SMTT(60) DEF SimpleRules, Rule, Tokens, AssignOperators
<1>5. \A r \in ConditionRules : r.for_nt \notin Ends
  BY SMTT(60) DEF ConditionRules, Rule
<1>6. \A r \in LoopRules : r.for_nt \notin Ends
  BY SMTT(60) DEF LoopRules, Rule, Tokens
<1> QED BY <1>1, <1>2, <1>3, <1>4, <1>5, <1>6 DEF grammar_rules

LEMMA ProductionIsSeq ==
    ASSUME NEW r \in grammar_rules
    PROVE  IsSeq(r.production)
  BY ProductionsAreSymbols DEF IsSeq

\* The stacks after a rule was applied
Rewritten(s2, o2, q, id) ==
    /\ Kept(q, id) /\ Paired(s2, o2, q.sem_an_stack)

LEMMA RuleExpands ==
    ASSUME NEW p, NEW id, Kept(p, id), NEW s, NEW o, Paired(s, o, p.sem_an_stack),
           NEW r \in grammar_rules, r.for_nt = Head(s), r.sem_action = "none",
           NEW s2, s2 = Replaced(r.production, s),
           NEW o2, o2 = OwnersOf(r.production, Head(o), o)
    PROVE  Rewritten(s2, o2, p, id)
<1> DEFINE sym == Flip(s)
           own == Flip(o)
           n == Len(p.sem_an_stack)
           an == Flip(p.sem_an_stack)
           prod == r.production
<1>1. PICK m, lab, cur : Under(s, o, m) /\ Coupled(m, sym, own, lab, cur, n, an)
  BY PairedUnder
<1>2. IsSeq(prod)
  BY ProductionIsSeq
<1>3. Len(prod) \in Nat /\ DOMAIN prod = 1 .. Len(prod)
  BY <1>2, Lengths
<1>4. sym[m] = r.for_nt /\ own[m] = Head(o) /\ sym[m] \notin Ends
  BY <1>1, RulesReplace DEF Under
<1> HIDE DEF sym, own, n, an, prod
<1>5. m > 1
  <2>1. m \in Nat \ {0}
    BY <1>1 DEF Under
  <2>2. CASE m = 1
    <3>1. sym[m] = "EOF"
      BY <1>1, <2>2, BottomIsEOF DEF Coupled
    <3> QED BY <1>4, <3>1 DEF Ends
  <2> QED BY <2>1, <2>2
<1>6. PICK l : Unfolds(prod, lab[m], Below(own, lab, m), l, ActionAt(an, own[m]))
  <2>1. <<lab[m], r.for_nt, Below(own, lab, m)>> \in Places(ActionAt(an, own[m]))
    <3>1. OnTop(m, sym, own, lab, cur, n, an)
      BY <1>1, TopHeight DEF Coupled
    <3> QED BY <1>4, <3>1 DEF OnTop
  <2> QED BY <2>1, RulesUnfold DEF prod
<1>7. /\ IsSeq(s2) /\ IsSeq(o2) /\ Len(s2) = m - 1 + Len(prod) /\ Len(o2) = Len(s2)
      /\ Agree(m - 1, sym, Flip(s2)) /\ Agree(m - 1, own, Flip(o2))
      /\ Pushed(prod, Len(prod), m - 1, own[m], Flip(s2), Flip(o2))
  <2>1. /\ IsSeq(s2) /\ IsSeq(o2) /\ Len(s2) = m - 1 + Len(r.production) /\ Len(o2) = Len(s2)
        /\ Agree(m - 1, Flip(s), Flip(s2)) /\ Agree(m - 1, Flip(o), Flip(o2))
        /\ Pushed(r.production, Len(r.production), m - 1, Head(o), Flip(s2), Flip(o2))
    <3>1. Under(s, o, m) /\ IsSeq(r.production)
      BY <1>1, <1>2 DEF prod
    <3> QED BY <3>1, ProductionPushed
  <2> QED BY <1>4, <2>1 DEF sym, own, prod
<1>8. \E lab2, cur2 : Coupled(m - 1 + Len(prod), Flip(s2), Flip(o2), lab2, cur2, n, an)
  BY <1>1, <1>3, <1>4, <1>5, <1>6, <1>7, Expands DEF Ends
<1>9. Joined(Len(s2), Flip(s2), Flip(o2), n, an)
  BY <1>7, <1>8 DEF Joined
<1> QED BY <1>7, <1>9 DEF Rewritten, Paired, n, an

LEMMA RuleStarts ==
    ASSUME NEW p, NEW id, Kept(p, id), NEW s, NEW o, Paired(s, o, p.sem_an_stack),
           NEW r \in grammar_rules, r.for_nt = Head(s), r.sem_action # "none",
           NEW q, q = With(p, Analyzer(r.sem_action)),
           NEW s2, s2 = Replaced(r.production, s),
           NEW o2, o2 = OwnersOf(r.production, Len(q.sem_an_stack), o)
    PROVE  Rewritten(s2, o2, q, id)
<1> DEFINE sym == Flip(s)
           own == Flip(o)
           n == Len(p.sem_an_stack)
           an == Flip(p.sem_an_stack)
           prod == r.production
           action == r.sem_action
<1>1. PICK m, lab, cur : Under(s, o, m) /\ Coupled(m, sym, own, lab, cur, n, an)
  BY PairedUnder
<1>2. IsSeq(prod)
  BY ProductionIsSeq
<1>3. Len(prod) \in Nat /\ DOMAIN prod = 1 .. Len(prod)
  BY <1>2, Lengths
<1>4. sym[m] = r.for_nt
  BY <1>1 DEF Under
<1>5. r.for_nt \in Starters /\ action = ActionOf(r.for_nt) /\ \E l : Begins(prod, action, l)
  BY RulesBegin
<1>0. n = Height(p) /\ an = Frames(p)
  BY DEF Height, Frames
<1> HIDE DEF sym, own, n, an, prod, action
<1>6. PICK l : Begins(prod, action, l)
  BY <1>5
<1>7. action # "sem_expr_result"
  BY <1>6 DEF Begins, Actions
<1>8. /\ n > 0 => ~Speaks(an[n])
      /\ n > 0 /\ an[n].sem_action \in {"sem_var_decl", "sem_exit", "sem_continue"} => Over(an[n])
  BY <1>1, <1>4, <1>5, StarterOnTop
<1>9. /\ Kept(q, id) /\ Height(q) = n + 1 /\ Agree(n, an, Frames(q)) /\ n \in Nat
      /\ Frames(q)[n + 1] = Analyzer(action)
  <2>1. q = With(p, Analyzer(action))
    BY DEF action
  <2> QED BY <1>0, <1>7, <1>8, <2>1, StartedKept
<1>10. /\ IsSeq(s2) /\ IsSeq(o2) /\ Len(s2) = m - 1 + Len(prod) /\ Len(o2) = Len(s2)
       /\ Agree(m - 1, sym, Flip(s2)) /\ Agree(m - 1, own, Flip(o2))
       /\ Pushed(prod, Len(prod), m - 1, n + 1, Flip(s2), Flip(o2))
  <2>1. o2 = OwnersOf(r.production, n + 1, o)
    BY <1>9 DEF Height
  <2>2. /\ IsSeq(s2) /\ IsSeq(o2) /\ Len(s2) = m - 1 + Len(r.production) /\ Len(o2) = Len(s2)
        /\ Agree(m - 1, Flip(s), Flip(s2)) /\ Agree(m - 1, Flip(o), Flip(o2))
        /\ Pushed(r.production, Len(r.production), m - 1, n + 1, Flip(s2), Flip(o2))
    <3>1. Under(s, o, m) /\ IsSeq(r.production)
      BY <1>1, <1>2 DEF prod
    <3> QED BY <2>1, <3>1, ProductionPushed
  <2> QED BY <2>2 DEF sym, own, prod
<1>11. \E lab2, cur2 : Coupled(m - 1 + Len(prod), Flip(s2), Flip(o2), lab2, cur2, n + 1, Frames(q))
  <2>1. Analyzer(action).sem_action = action /\ Analyzer(action).state = "START"
        /\ Analyzer(action).finished = FALSE
    BY DEF Analyzer
  <2> QED BY <1>1, <1>3, <1>4, <1>5, <1>6, <1>9, <1>10, <2>1, PutsAnalyzer
<1>12. Joined(Len(s2), Flip(s2), Flip(o2), n + 1, Frames(q))
  BY <1>10, <1>11 DEF Joined
<1> QED BY <1>9, <1>10, <1>12 DEF Rewritten, Paired, Height, Frames

LEMMA ApplyRuleKeeps ==
    ASSUME TInv, NEW r \in grammar_rules, ApplyRule(r)
    PROVE  TInv' /\ EndsDefs(parser, parser', FALSE)
<1>1. /\ pc = "rewrite" /\ r.for_nt = Head(dtree_stack) /\ UNCHANGED <<token, pc, source, ret_code>>
      /\ dtree_stack' = Replaced(r.production, dtree_stack)
  BY DEF ApplyRule, Rewrite, get_rule_from_ll_table, Top, history, Replaced
<1>2. /\ Kept(parser, token.id) /\ Paired(dtree_stack, owners, parser.sem_an_stack)
  BY <1>1 DEF TInv, Working, NextUp, StacksPaired
<1>3. Rewritten(dtree_stack', owners', parser', token.id)
  <2>1. CASE r.sem_action = "none"
    <3>1. parser' = parser /\ owners' = OwnersOf(r.production, Head(owners), owners)
      BY <2>1 DEF ApplyRule, OwnersOf
    <3> QED BY <1>1, <1>2, <2>1, <3>1, RuleExpands
  <2>2. CASE r.sem_action # "none"
    <3>1. /\ parser' = With(parser, Analyzer(r.sem_action))
          /\ owners' = OwnersOf(r.production, Len(parser'.sem_an_stack), owners)
      BY <2>2 DEF ApplyRule, With, OwnersOf
    <3> QED BY <1>1, <1>2, <2>2, <3>1, RuleStarts
  <2> QED BY <2>1, <2>2
<1>4. Working'
  <2>1. Kept(parser', token'.id) /\ Paired(dtree_stack', owners', parser'.sem_an_stack)
    BY <1>1, <1>3 DEF Rewritten
  <2>2. IsSeq(dtree_stack') /\ IsSeq(owners') /\ Len(owners') = Len(dtree_stack')
    BY <2>1 DEF Paired
  <2> QED BY <1>1, <2>1, <2>2 DEF Working, NextUp, StacksPaired
<1>5. EndsDefs(parser, parser', FALSE)
  <2>1. CASE r.sem_action = "none"
    BY <2>1 DEF ApplyRule, EndsDefs
  <2>2. CASE r.sem_action # "none"
    <3> DEFINE a == Analyzer(r.sem_action)
    <3>1. IsAnalyzer(a) /\ ~DefOver(a)
      BY DEF Analyzer, IsAnalyzer, Quiet, IsValue, NoValue, DefOver, Over
    <3>2. parser' = With(parser, a) /\ Fit(parser)
      BY <1>2, <2>2 DEF ApplyRule, With, Kept
    <3> QED BY <3>1, <3>2, AddedDefs
  <2> QED BY <2>1, <2>2
<1> QED BY <1>1, <1>4, <1>5 DEF TInv, NothingLeft, Accepted
-----------------------------------------------------------------------------
(* parse_expression leaves the stacks of Parser and the flags alone, and   *)
(* adds an analyzer with a value.                                          *)
Alike(p, q) ==
    /\ DOMAIN q = Fields /\ q.sem_an_stack = p.sem_an_stack /\ q.sym_tab_stack = p.sym_tab_stack
    /\ Flags(q) = Flags(p)

LEMMA AlikeEmit ==
    ASSUME NEW p, NEW q, Alike(p, q), NEW code
    PROVE  Alike(p, Emit(q, code)) /\ Alike(p, EmitTo(q, "global", code))
<1>1. ASSUME NEW list PROVE Alike(p, EmitTo(q, list, code))
  BY DEF Alike, EmitTo, Fields, Flags
<1> QED BY <1>1 DEF Emit

LEMMA AlikeOther ==
    ASSUME NEW p, NEW q, Alike(p, q), NEW n, NEW key, NEW type
    PROVE  Alike(p, TakeUids(q, n)) /\ Alike(p, SetGlobal(q, key, type))
  BY DEF Alike, TakeUids, SetGlobal, Fields, Flags

LEMMA AlikeEvaluated ==
    ASSUME NEW p, DOMAIN p = Fields
    PROVE  Alike(p, Evaluate(p))
<1>1. Alike(p, p)
  BY DEF Alike
<1>2. ASSUME NEW q, Alike(p, q), NEW type
      PROVE  Alike(p, Negate(q, type))
  BY <1>2, AlikeEmit, AlikeOther DEF Negate
<1> DEFINE pushed == Emit(p, [k \in DOMAIN Operands |-> OperandCode(Operands[k])])
<1>3. Alike(p, pushed)
  BY <1>1, AlikeEmit
<1>4. Evaluate(p) \in {Emit(pushed, <<On("CALL", backlog_token.str, 0)>>),
                       Negate(pushed, ExpressionType), pushed}
  BY DEF Evaluate
<1> HIDE DEF pushed
<1> QED BY <1>2, <1>3, <1>4, AlikeEmit

Valued(p, w, a) ==
    /\ Alike(p, w) /\ IsAnalyzer(a) /\ a.finished = TRUE
    /\ a.sem_action = "sem_expr_result" /\ a.value.value_type = "ID"

LEMMA ExpressionResult ==
    ASSUME NEW p, NEW type, DOMAIN p = Fields
    PROVE  \E w, a : Valued(p, w, a) /\ sem_expr_result(p, type) = With(w, a)
<1> DEFINE defined == IF ExprValue \in DOMAIN p.sym_tab_global THEN p
                      ELSE EmitTo(p, "global", <<DefVar("GF", ExprValue)>>)
           a == [Analyzer("sem_expr_result") EXCEPT !.finished = TRUE, !.value = IdValue(ExprValue, type)]
           code == <<[Pop(ExprResult) EXCEPT !.expected = type]>>
           w == Emit(SetGlobal(defined, ExprValue, type), code)
<1>1. Alike(p, p)
  BY DEF Alike
<1>2. Alike(p, defined)
  BY <1>1, AlikeEmit
<1>3. sem_expr_result(p, type) = With(w, a)
  BY DEF sem_expr_result, With
<1>4. IsAnalyzer(a) /\ a.finished = TRUE /\ a.sem_action = "sem_expr_result" /\ a.value.value_type = "ID"
  BY DEF Analyzer, IsAnalyzer, Quiet, IsValue, NoValue, IdValue
<1> HIDE DEF defined, a, code
<1>5. Alike(p, w)
  BY <1>2, AlikeEmit, AlikeOther
<1>6. Valued(p, w, a)
  BY <1>4, <1>5 DEF Valued
<1> HIDE DEF w
<1> QED BY <1>3, <1>6

\* The same Parser but for what it has emitted and step_found
LEMMA AlikeFits ==
    ASSUME NEW p, Fit(p), NEW w, DOMAIN w = Fields, w.sem_an_stack = p.sem_an_stack,
           w.sym_tab_stack = p.sym_tab_stack
    PROVE  Fit(w) /\ Height(w) = Height(p) /\ Frames(w) = Frames(p) /\ Tables(w) = Tables(p)
  BY DEF Fit, Height, Frames, Tables

\* What parse_expression leaves
LEMMA ValueIsLeft ==
    ASSUME NEW p, Kept(p, "none"), NEW s, NEW o, Paired(s, o, p.sem_an_stack), Head(s) = "NT_EXPRESSION",
           NEW id, NEW w, NEW a, NEW q, q = With(w, a), IsAnalyzer(a), a.finished = TRUE,
           a.sem_action = "sem_expr_result", a.value.value_type = "ID",
           DOMAIN w = Fields, w.sem_an_stack = p.sem_an_stack, w.sym_tab_stack = p.sym_tab_stack,
           w.static_var_decl = p.static_var_decl, w.il_override = p.il_override,
           w.last_loop_type = p.last_loop_type,
           p.step_found = FALSE => w.step_found \in BOOLEAN /\ (w.step_found = TRUE <=> id = "STEP")
    PROVE  Rewritten(Tail(s), Tail(o), q, id)
<1> DEFINE sym == Flip(s)
           own == Flip(o)
           n == Len(p.sem_an_stack)
           an == Flip(p.sem_an_stack)
<1>1. PICK m, lab, cur : Under(s, o, m) /\ Coupled(m, sym, own, lab, cur, n, an)
  BY PairedUnder
<1>2. /\ m \in Nat \ {0} /\ sym[m] = "NT_EXPRESSION"
      /\ IsSeq(Tail(s)) /\ IsSeq(Tail(o)) /\ Len(Tail(s)) = m - 1 /\ Len(Tail(o)) = m - 1
      /\ Agree(m - 1, sym, Flip(Tail(s))) /\ Agree(m - 1, own, Flip(Tail(o)))
  BY <1>1 DEF Under
<1>0. n = Height(p) /\ an = Frames(p)
  BY DEF Height, Frames
<1> HIDE DEF sym, own, n, an
<1>3. n \in Nat \ {0} /\ ~Over(an[n])
  BY <1>1, <1>2, ExpressionOnTop
<1>4. an[n].sem_action # "sem_expr_result"
  <2>1. Heard(n, an, n)
    BY <1>1, <1>3 DEF Coupled, Voiced
  <2> QED BY <1>3, <2>1 DEF Heard
<1>5. Fit(p) /\ Sums(n, an, Tables(p)) /\ FlagsKept(p, n, an) /\ StepSeen(p, n, an, "none")
  BY <1>0 DEF Kept
<1>6. Fit(w) /\ Height(w) = n /\ Frames(w) = an /\ Tables(w) = Tables(p)
  BY <1>0, <1>5, AlikeFits
<1>7. /\ Fit(q) /\ Height(q) = n + 1 /\ Agree(n, an, Frames(q)) /\ Frames(q)[n + 1] = a
      /\ Tables(q) = Tables(p) /\ Flags(q) = Flags(w)
  BY <1>6, AddedFits
<1>8. Sums(n + 1, Frames(q), Tables(q))
  <2>1. TablesHeld(a) = 0
    BY DEF TablesHeld, TablesOf, Has
  <2>2. Sums(n + 1, Frames(q), Tables(p) + TablesHeld(Frames(q)[n + 1]))
    BY <1>3, <1>5, <1>7, SumsOfMore
  <2>3. Tables(p) \in Nat
    BY <1>5, Lengths DEF Fit, Tables
  <2> QED BY <1>7, <2>1, <2>2, <2>3
<1>9. FlagsKept(q, n + 1, Frames(q))
  <2>1. FlagsOf(p, an[n]) /\ Frames(q)[n] = an[n]
    BY <1>3, <1>4, <1>5, <1>7 DEF FlagsKept, Agree
  <2>2. FlagsOf(q, an[n])
    BY <1>7, <2>1 DEF FlagsOf, Flags
  <2> QED BY <1>3, <1>7, <2>1, <2>2 DEF FlagsKept
<1>10. StepSeen(q, n + 1, Frames(q), id)
  <2>1. p.step_found = FALSE
    BY <1>4, <1>5 DEF StepSeen
  <2>2. q.step_found = w.step_found
    BY <1>7 DEF Flags
  <2> QED BY <1>3, <1>7, <2>1, <2>2 DEF StepSeen
<1>11. Kept(q, id)
  BY <1>7, <1>8, <1>9, <1>10 DEF Kept
<1>12. Joined(m - 1, Flip(Tail(s)), Flip(Tail(o)), n + 1, Frames(q))
  <2>1. Over(Frames(q)[n + 1])
    BY <1>7 DEF Over
  <2> QED BY <1>1, <1>2, <1>7, <2>1, ExpressionLeavesValue
<1>13. Paired(Tail(s), Tail(o), q.sem_an_stack)
  BY <1>2, <1>7, <1>12 DEF Paired, Height, Frames
<1> QED BY <1>11, <1>13 DEF Rewritten

LEMMA ExpressionKeeps ==
    ASSUME TInv, Expression
    PROVE  TInv' /\ EndsDefs(parser, parser', FALSE)
<1>1. /\ pc = "expression" /\ dtree_stack' = Tail(dtree_stack) /\ owners' = Tail(owners)
      /\ backlog_token' = TokenAfter /\ pc' = "get_token" /\ source' = source
      /\ parser' = sem_expr_result(Evaluate(SeeStep(parser)), ExpressionType)
  BY DEF Expression, ExpressionEnds, GoTo
<1>2. /\ Kept(parser, "none") /\ Paired(dtree_stack, owners, parser.sem_an_stack)
      /\ Head(dtree_stack) = "NT_EXPRESSION"
  BY <1>1 DEF TInv, Working, NextUp, StacksPaired, Top, NoToken
<1>3. DOMAIN parser = Fields
  BY <1>2 DEF Kept, Fit
<1> DEFINE p1 == SeeStep(parser)
           p2 == Evaluate(p1)
<1>4. /\ DOMAIN p1 = Fields /\ p1.sem_an_stack = parser.sem_an_stack
      /\ p1.sym_tab_stack = parser.sym_tab_stack /\ p1.static_var_decl = parser.static_var_decl
      /\ p1.il_override = parser.il_override /\ p1.last_loop_type = parser.last_loop_type
      /\ p1.step_found = (parser.step_found \/ TokenAfter.id = "STEP")
  BY <1>3 DEF SeeStep, Fields
<1> HIDE DEF p1
<1>5. Alike(p1, p2)
  BY <1>4, AlikeEvaluated
<1> HIDE DEF p2
<1>6. parser' = sem_expr_result(p2, ExpressionType) /\ DOMAIN p2 = Fields
  BY <1>1, <1>5 DEF p1, p2, Alike
<1>7. PICK w, a : Valued(p2, w, a) /\ parser' = With(w, a)
  <2>1. \A type : \E w, a : Valued(p2, w, a) /\ sem_expr_result(p2, type) = With(w, a)
    BY <1>6, ExpressionResult
  <2> QED BY <1>6, <2>1
<1>8. /\ DOMAIN w = Fields /\ w.sem_an_stack = parser.sem_an_stack
      /\ w.sym_tab_stack = parser.sym_tab_stack /\ w.static_var_decl = parser.static_var_decl
      /\ w.il_override = parser.il_override /\ w.last_loop_type = parser.last_loop_type
      /\ w.step_found = (parser.step_found \/ TokenAfter.id = "STEP")
  BY <1>4, <1>5, <1>7 DEF Valued, Alike, Flags
<1>9. parser.step_found = FALSE =>
         w.step_found \in BOOLEAN /\ (w.step_found = TRUE <=> TokenAfter.id = "STEP")
  BY <1>8
<1>10. Rewritten(dtree_stack', owners', parser', TokenAfter.id)
  BY <1>1, <1>2, <1>7, <1>8, <1>9, ValueIsLeft DEF Valued
<1>11. TokenAfter # NoToken
  BY TokensAreThere DEF TInv, TokenAfter
<1>12. Working'
  <2>1. Kept(parser', NextUp'.id) /\ Paired(dtree_stack', owners', parser'.sem_an_stack)
    BY <1>1, <1>10 DEF Rewritten, NextUp
  <2>2. IsSeq(dtree_stack') /\ IsSeq(owners') /\ Len(owners') = Len(dtree_stack')
    BY <2>1 DEF Paired
  <2> QED BY <1>1, <1>11, <2>1, <2>2 DEF Working, StacksPaired
<1>13. EndsDefs(parser, parser', FALSE)
  <2>1. Fit(w) /\ Height(w) = Height(parser) /\ Frames(w) = Frames(parser)
    BY <1>2, <1>8, AlikeFits DEF Kept
  <2>2. IsAnalyzer(a) /\ ~DefOver(a)
    BY <1>7 DEF Valued, DefOver
  <2>3. EndsDefs(w, parser', FALSE)
    BY <1>7, <2>1, <2>2, AddedDefs
  <2> QED BY <2>1, <2>3 DEF EndsDefs
<1> QED BY <1>1, <1>12, <1>13 DEF TInv, NothingLeft, Accepted

LEMMA BadExpressionKeeps ==
    ASSUME TInv, BadExpression
    PROVE  TInv'
<1>1. pc' = "done" /\ ret_code' # "SUCCESS" /\ source' = source
  BY DEF BadExpression, ExpressionFails, Fail
<1> QED BY <1>1, DoneKeeps
-----------------------------------------------------------------------------
(* A token is matched                                                      *)
LEMMA MatchedClosed ==
    ASSUME NEW m, NEW sym, NEW own, NEW lab, NEW cur, NEW n, NEW an,
           Coupled(m, sym, own, lab, cur, n, an), own[m] # 0, Over(an[own[m]]),
           NEW sym2, NEW own2, Agree(m - 1, sym, sym2), Agree(m - 1, own, own2)
    PROVE  /\ sym[m] = "IF" /\ own[m] = n /\ n > 0 /\ an[n].sem_action = "sem_condition"
           /\ Joined(m - 1, sym2, own2, n, an) /\ OwnerLives(m - 1, own2, n, an)
<1>1. sym[m] = "IF" /\ own[m] = n /\ Below(own, lab, m) = 0 /\ an[n].sem_action = "sem_condition"
  BY OwnerWaits
<1>2. OnTop(m, sym, own, lab, cur, n, an)
  BY TopHeight DEF Coupled
<1>3. m \in Nat /\ m > 1 /\ n \in Nat /\ n > 0
  BY <1>1, <1>2 DEF OnTop
<1>4. Joined(m - 1, sym2, own2, n, an)
  BY ConditionIsClosed
<1>5. PICK lab2, cur2 : Coupled(m - 1, sym2, own2, lab2, cur2, n, an)
  BY <1>4 DEF Joined
<1>6. own2[m - 1] = own[m - 1] /\ m - 1 \in 1 .. m
  BY <1>3 DEF Agree
<1>7. own[m - 1] # n
  <2>1. SUFFICES ASSUME own[m - 1] = n PROVE FALSE
    OBVIOUS
  <2>2. lab[m - 1] = 0
    BY <1>1, <1>3, <2>1 DEF Below
  <2>3. <<lab[m - 1], sym[m - 1], Below(own, lab, m - 1)>> \in Places(ActionAt(an, own[m - 1]))
    BY <1>6 DEF Coupled, Heights, Placed
  <2> QED BY <2>2, <2>3, PlacesNotZero
<1>8. own2[m - 1] \in 0 .. n
  BY <1>3, <1>5 DEF Coupled, Heights, Ordered
<1>9. own2[m - 1] # 0 => ~Over(an[own2[m - 1]])
  <2>1. SUFFICES ASSUME own2[m - 1] # 0, Over(an[own2[m - 1]]) PROVE FALSE
    OBVIOUS
  <2>2. own2[m - 1] = n
    BY <1>5, <2>1, OwnerWaits
  <2> QED BY <1>6, <1>7, <2>2
<1> QED BY <1>1, <1>3, <1>4, <1>8, <1>9 DEF OwnerLives

LEMMA MatchTokenKeeps ==
    ASSUME TInv, MatchToken
    PROVE  TInv'
<1>1. /\ pc = "rewrite" /\ Top \notin Nonterminals /\ Top = token.id /\ dtree_stack' = Tail(dtree_stack)
      /\ last_matched' = token.id /\ pc' = "semantics" /\ owner' = Head(owners) /\ owners' = Tail(owners)
      /\ UNCHANGED <<source, parser, token>>
  BY DEF MatchToken, Match, TokenMatches, GoTo
<1>2. /\ Kept(parser, token.id) /\ Paired(dtree_stack, owners, parser.sem_an_stack)
  BY <1>1 DEF TInv, Working, NextUp, StacksPaired
<1> DEFINE s == dtree_stack
           o == owners
           sym == Flip(s)
           own == Flip(o)
           n == Len(parser.sem_an_stack)
           an == Flip(parser.sem_an_stack)
<1>3. PICK m, lab, cur : Under(s, o, m) /\ Coupled(m, sym, own, lab, cur, n, an)
  BY <1>2, PairedUnder
<1>4. /\ m \in Nat \ {0} /\ sym[m] = token.id /\ own[m] = owner'
      /\ IsSeq(Tail(s)) /\ IsSeq(Tail(o)) /\ Len(Tail(s)) = m - 1 /\ Len(Tail(o)) = m - 1
      /\ Agree(m - 1, sym, Flip(Tail(s))) /\ Agree(m - 1, own, Flip(Tail(o)))
      /\ s # << >> /\ o # << >>
  BY <1>1, <1>3 DEF Under, Top
<1>5. n = Height(parser) /\ an = Frames(parser)
  BY DEF Height, Frames
<1>6. <<Head(s)>> \o Tail(s) = s /\ <<Head(o)>> \o Tail(o) = o
  BY <1>2, <1>4, PutTogether DEF Paired
<1>7. own[m] \in 0 .. n
  <2> HIDE DEF sym, own, n, an
  <2>1. OnTop(m, sym, own, lab, cur, n, an)
    BY <1>3, TopHeight DEF Coupled
  <2> QED BY <2>1 DEF OnTop
<1>8. OwnerReads' => StacksPaired'
  <2>1. <<last_matched'>> \o dtree_stack' = s /\ <<owner'>> \o owners' = o
    BY <1>1, <1>6 DEF Top
  <2> QED BY <1>1, <1>2, <2>1 DEF StacksPaired
<1>9. ~OwnerReads' => StacksPaired' /\ IFIsClosed'
  <2> SUFFICES ASSUME ~OwnerReads' PROVE StacksPaired' /\ IFIsClosed'
    OBVIOUS
  <2>1. own[m] # 0 /\ Over(an[own[m]])
    BY <1>1, <1>4, <1>5, <1>7 DEF OwnerReads
  <2>2. /\ sym[m] = "IF" /\ own[m] = n /\ n > 0 /\ an[n].sem_action = "sem_condition"
        /\ Joined(m - 1, Flip(Tail(s)), Flip(Tail(o)), n, an) /\ OwnerLives(m - 1, Flip(Tail(o)), n, an)
    <3> HIDE DEF sym, own, n, an
    <3> QED BY <1>3, <1>4, <2>1, MatchedClosed
  <2>3. Paired(Tail(s), Tail(o), parser.sem_an_stack)
    BY <1>4, <2>2 DEF Paired
  <2>4. StacksPaired'
    BY <1>1, <2>3 DEF StacksPaired
  <2>5. Closed(parser, Tail(s), Tail(o), owner', n, an)
    <3> HIDE DEF sym, own, n, an
    <3>1. ~Speaks(an[n]) /\ Over(an[n]) /\ n = owner' /\ n > 0 /\ Len(Tail(s)) = m - 1
      BY <1>4, <2>1, <2>2 DEF Speaks
    <3>2. n \in Nat
      BY <1>3 DEF Coupled, Heights, Ordered
    <3> QED BY <2>2, <3>1, <3>2 DEF Closed
  <2>6. IFIsClosed'
    BY <1>1, <1>4, <1>5, <2>2, <2>5 DEF IFIsClosed
  <2> QED BY <2>4, <2>6
<1>10. Working'
  <2>1. Kept(parser', NextUp'.id)
    BY <1>1, <1>2 DEF NextUp
  <2>2. token'.id = last_matched' /\ token'.id \notin Nonterminals
    BY <1>1
  <2>3. IsSeq(dtree_stack') /\ IsSeq(owners') /\ Len(owners') = Len(dtree_stack')
    BY <1>1, <1>4
  <2> QED BY <1>1, <1>8, <1>9, <2>1, <2>2, <2>3 DEF Working
<1> QED BY <1>1, <1>10 DEF TInv, NothingLeft, Accepted
-----------------------------------------------------------------------------
(* handle_finished_semantics                                               *)
LEMMA FlushedResult ==
    ASSUME NEW p, NEW id, Kept(p, id), NEW n, n = Height(p), NEW an, an = Frames(p), n > 0, Over(an[n]),
           NEW m, NEW sym, NEW own, NEW lab, NEW cur, Coupled(m, sym, own, lab, cur, n, an),
           OwnerLives(m, own, n, an), sym[m] = id, id \notin Nonterminals, PassDown(p).ret = "SUCCESS",
           NEW q, q = PassDown(p).parser
    PROVE  /\ Result(q, id, m, sym, own, n - 1) /\ OwnerLives(m, own, n - 1, Frames(q))
           /\ NoMoreDefs(n - 1, an, Frames(q))
<1>1. n \in Nat \ {0} /\ Me(p) = an[n] /\ Fit(p)
  BY TopFrame DEF Kept
<1>2. own[m] # n /\ own[m] \in 0 .. n - 1
  BY <1>1 DEF OwnerLives
<1>3. CASE PassDown(p) = Ok(WithoutTop(p)) /\ an[n].sem_action # "sem_expr_result"
  <2>1. q = WithoutTop(p)
    BY <1>3 DEF Ok
  <2>2. Result(q, id, m, sym, own, n - 1)
    BY <1>2, <1>3, <2>1, RemovedOnly
  <2>3. Agree(n - 1, an, Frames(q))
    BY <1>1, <2>1, PoppedFits
  <2>4. OwnerLives(m, own, n - 1, Frames(q))
    BY <1>1, <1>2, <2>3 DEF OwnerLives, Agree
  <2>5. NoMoreDefs(n - 1, an, Frames(q))
    BY <2>3 DEF Agree, NoMoreDefs
  <2> QED BY <2>2, <2>4, <2>5
<1>4. CASE Speaks(an[n]) /\ PassDown(p) = sem_action(WithoutTop(p), Me(p).value)
  <2>1. sem_action(WithoutTop(p), Me(p).value).ret = "SUCCESS"
        /\ q = sem_action(WithoutTop(p), Me(p).value).parser
    BY <1>4
  <2> QED BY <1>4, <2>1, ValueIsPassed
<1>5. CASE ~Speaks(an[n])
  <2>1. PassDown(p) = Ok(WithoutTop(p)) /\ an[n].sem_action # "sem_expr_result"
    BY <1>5, StatementIsRemoved DEF Speaks
  <2> QED BY <1>3, <2>1
<1>6. CASE Speaks(an[n])
  <2>1. n - 1 \in Nat \ {0}
    BY <1>6, SpeaksOnTop
  <2>2. WithoutTop(p).sem_an_stack # << >>
    <3>1. Fit(WithoutTop(p)) /\ Height(WithoutTop(p)) = n - 1
      BY <1>1, PoppedFits
    <3>2. n - 1 > 0
      BY <1>1, <2>1
    <3>3. Height(WithoutTop(p)) > 0
      BY <3>1, <3>2
    <3> QED BY <3>1, <3>3, TopFrame
  <2>3. CASE Me(p).value = NoValue
    <3>1. PassDown(p) = Ok(WithoutTop(p))
      BY <2>3 DEF PassDown
    <3>2. Heard(n, an, n)
      BY <1>1 DEF Coupled, Voiced
    <3>3. an[n].sem_action # "sem_expr_result"
      BY <1>1, <2>3, <3>2 DEF Heard, NoValue
    <3> QED BY <1>3, <3>1, <3>3
  <2>4. CASE Me(p).value # NoValue
    <3>1. PassDown(p) = sem_action(WithoutTop(p), Me(p).value)
      BY <2>2, <2>4 DEF PassDown
    <3> QED BY <1>4, <1>6, <3>1
  <2> QED BY <2>3, <2>4
<1> QED BY <1>5, <1>6

\* The condition whose last IF nobody reads, and what has finished below it
LEMMA ClosedFlushed ==
    ASSUME NEW p, NEW id, Kept(p, id), NEW n, n = Height(p), NEW an, an = Frames(p), n > 0, Over(an[n]),
           NEW s, NEW o, Paired(s, o, p.sem_an_stack), NEW d, Closed(p, s, o, d, n, an),
           NEW q, q = PassDown(p).parser
    PROVE  /\ PassDown(p) = Ok(WithoutTop(p))
           /\ Result(q, id, Len(s), Flip(s), Flip(o), n - 1)
           /\ Closed(q, s, o, d, n - 1, Frames(q)) /\ ~(d <= n - 1) /\ NoMoreDefs(n - 1, an, Frames(q))
<1> DEFINE m == Len(s)
           sym == Flip(s)
           own == Flip(o)
<1>0. n = Len(p.sem_an_stack) /\ an = Flip(p.sem_an_stack)
  BY DEF Height, Frames
<1>1. PICK lab, cur : Coupled(m, sym, own, lab, cur, n, an)
  BY <1>0 DEF Paired, Joined
<1>2. ~Speaks(an[n]) /\ OwnerLives(m, own, n, an) /\ n <= d
  BY DEF Closed
<1> HIDE DEF m, sym, own
<1>3. n \in Nat \ {0} /\ Fit(p)
  BY TopFrame DEF Kept
<1>4. PassDown(p) = Ok(WithoutTop(p))
  BY <1>1, <1>2, StatementIsRemoved
<1>5. q = WithoutTop(p)
  BY <1>4 DEF Ok
<1>6. own[m] # n /\ own[m] \in 0 .. n - 1 /\ an[n].sem_action # "sem_expr_result"
  BY <1>2, <1>3 DEF OwnerLives, Speaks
<1>7. Result(q, id, m, sym, own, n - 1)
  BY <1>1, <1>5, <1>6, RemovedOnly
<1>8. Agree(n - 1, an, Frames(q))
  BY <1>3, <1>5, PoppedFits
<1>9. OwnerLives(m, own, n - 1, Frames(q))
  BY <1>2, <1>3, <1>6, <1>8 DEF OwnerLives, Agree
<1>10. ASSUME n - 1 > 0
       PROVE  /\ ~Speaks(Frames(q)[n - 1])
              /\ ~Over(Frames(q)[n - 1]) =>
                    \E i : <<Frames(q)[n - 1].state, "other", i>> \in Rows(Frames(q)[n - 1].sem_action)
  <2>1. n - 1 \in 1 .. n /\ n - 1 \in 1 .. n - 1 /\ n - 1 # n
    BY <1>3, <1>10
  <2>2. Frames(q)[n - 1] = an[n - 1]
    BY <1>8, <2>1 DEF Agree
  <2>3. Heard(n, an, n - 1) /\ Standing(n, an, cur, n - 1)
    BY <1>1, <2>1 DEF Coupled, Voiced, Rowed
  <2>4. ~Speaks(an[n - 1])
    BY <2>1, <2>3 DEF Heard
  <2>5. AboveAt(n, an, n - 1) = "other"
    <3>1. (n - 1) + 1 = n
      BY <1>3
    <3> QED BY <1>2, <2>1, <3>1 DEF AboveAt, Speaks
  <2>6. ~Over(an[n - 1]) => <<an[n - 1].state, "other", cur[n - 1]>> \in Rows(an[n - 1].sem_action)
    BY <2>3, <2>5 DEF Standing
  <2> QED BY <2>2, <2>4, <2>6
<1>11. n - 1 <= d /\ n - 1 # d /\ ~(d <= n - 1)
  <2>1. d \in Nat
    BY DEF Closed
  <2> QED BY <1>2, <1>3, <2>1
<1>12. NoMoreDefs(n - 1, an, Frames(q))
  BY <1>8 DEF Agree, NoMoreDefs
<1> QED BY <1>4, <1>7, <1>9, <1>10, <1>11, <1>12 DEF Closed, m, sym, own
-----------------------------------------------------------------------------
\* The steps of handle_semantics in the states of the program
LEMMA Rounds ==
    /\ PassedDown = PassDown(parser)
    /\ FinishedOnTop <=> parser.sem_an_stack # << >> /\ Me(parser).finished
  BY DEF PassedDown, PassDown, WithoutTop, Popped, FinishedOnTop

LEMMA FinishedIsOver ==
    ASSUME Fit(parser)
    PROVE  FinishedOnTop <=> Height(parser) > 0 /\ Over(Frames(parser)[Height(parser)])
<1>1. CASE Height(parser) > 0
  BY <1>1, TopFrame DEF FinishedOnTop
<1>2. CASE ~(Height(parser) > 0)
  <2>1. Height(parser) \in Nat /\ (parser.sem_an_stack = << >> <=> Height(parser) = 0)
    BY Lengths DEF Fit, Height
  <2> QED BY <1>2, <2>1 DEF FinishedOnTop
<1> QED BY <1>1, <1>2

\* The stacks with the token that was matched
LEMMA WithMatched ==
    ASSUME IsSeq(dtree_stack), IsSeq(owners), Len(owners) = Len(dtree_stack),
           Paired(<<last_matched>> \o dtree_stack, <<owner>> \o owners, parser.sem_an_stack),
           NEW sym, sym = Flip(<<last_matched>> \o dtree_stack), NEW own, own = Flip(<<owner>> \o owners),
           NEW m, m = Len(dtree_stack) + 1
    PROVE  /\ m \in Nat \ {0} /\ m - 1 = Len(dtree_stack) /\ sym[m] = last_matched /\ own[m] = owner
           /\ Agree(m - 1, sym, Flip(dtree_stack)) /\ Agree(m - 1, own, Flip(owners))
           /\ Joined(m, sym, own, Height(parser), Frames(parser))
<1>1. Len(dtree_stack) \in Nat
  BY Lengths
<1>2. /\ Len(<<last_matched>> \o dtree_stack) = m
      /\ sym[m] = last_matched /\ own[m] = owner
      /\ Agree(Len(dtree_stack), sym, Flip(dtree_stack)) /\ Agree(Len(dtree_stack), own, Flip(owners))
  BY PutBack
<1> QED BY <1>1, <1>2 DEF Paired, Height, Frames

\* A result as a state of the stacks
LEMMA PairedAgain ==
    ASSUME NEW s, IsSeq(s), NEW o, IsSeq(o), Len(o) = Len(s), NEW q, NEW id, NEW n,
           Result(q, id, Len(s), Flip(s), Flip(o), n)
    PROVE  Kept(q, id) /\ Paired(s, o, q.sem_an_stack) /\ ~ValueOnTop(q)
  BY DEF Result, Paired, Height, Frames, ValueOnTop

LEMMA FlushFinishedKeeps ==
    ASSUME TInv, FlushFinished
    PROVE  TInv' /\ EndsDefs(parser, parser', FALSE) /\ Height(parser') = Height(parser) - 1
<1>1. /\ pc = "semantics" /\ FinishedOnTop /\ PassDown(parser).ret = "SUCCESS"
      /\ parser' = PassDown(parser).parser /\ UNCHANGED <<vars, source, owners, owner>>
  BY Rounds DEF FlushFinished
<1>2. Working
  BY <1>1 DEF TInv
<1>3. UNCHANGED <<pc, token, dtree_stack, owners, owner, last_matched, source, backlog_token>>
  BY <1>1 DEF vars
<1>4. /\ Kept(parser, token.id) /\ StacksPaired /\ IsSeq(dtree_stack) /\ IsSeq(owners)
      /\ Len(owners) = Len(dtree_stack) /\ token.id = last_matched /\ token.id \notin Nonterminals
      /\ (~OwnerReads => IFIsClosed)
  BY <1>1, <1>2 DEF Working, NextUp
<1> DEFINE n == Height(parser)
           an == Frames(parser)
           q == PassDown(parser).parser
<1>5. Fit(parser) /\ n > 0 /\ Over(an[n])
  BY <1>1, <1>4, FinishedIsOver DEF Kept
<1>6. n \in Nat
  BY <1>5, Lengths DEF Fit, Height
<1>7. CASE OwnerReads
  <2> DEFINE sym == Flip(<<last_matched>> \o dtree_stack)
             own == Flip(<<owner>> \o owners)
             m == Len(dtree_stack) + 1
  <2>1. Paired(<<last_matched>> \o dtree_stack, <<owner>> \o owners, parser.sem_an_stack)
    BY <1>1, <1>4, <1>7 DEF StacksPaired
  <2>2. m \in Nat \ {0} /\ sym[m] = last_matched /\ own[m] = owner /\ Joined(m, sym, own, n, an)
    BY <1>4, <2>1, WithMatched
  <2>3. PICK lab, cur : Coupled(m, sym, own, lab, cur, n, an)
    BY <2>2 DEF Joined
  <2>3a. Len(<<last_matched>> \o dtree_stack) = m /\ IsSeq(<<last_matched>> \o dtree_stack)
         /\ IsSeq(<<owner>> \o owners) /\ Len(<<owner>> \o owners) = m
    BY <1>4, PutBack
  <2> HIDE DEF sym, own, m, n, an, q
  <2>4. OwnerLives(m, own, n, an)
    BY <1>7, <2>2 DEF OwnerReads, OwnerLives, n, an
  <2>5. Result(q, token.id, m, sym, own, n - 1) /\ OwnerLives(m, own, n - 1, Frames(q))
        /\ NoMoreDefs(n - 1, an, Frames(q))
    BY <1>1, <1>4, <1>5, <2>2, <2>3, <2>4, FlushedResult DEF n, an, q
  <2>6. Kept(q, token.id)
        /\ Paired(<<last_matched>> \o dtree_stack, <<owner>> \o owners, q.sem_an_stack)
    BY <2>3a, <2>5, PairedAgain DEF sym, own
  <2>7. OwnerReads'
    <3>1. Height(q) = n - 1
      BY <2>5 DEF Result
    <3>2. owner \in 0 .. Height(q) /\ (owner = 0 \/ ~Over(Frames(q)[owner]))
      BY <2>2, <2>5, <3>1 DEF OwnerLives
    <3> QED BY <1>1, <1>3, <3>2 DEF OwnerReads, q
  <2>8. StacksPaired' /\ Kept(parser', NextUp'.id)
    BY <1>1, <1>3, <2>6, <2>7 DEF StacksPaired, NextUp, q
  <2>9. Working'
    BY <1>1, <1>3, <1>4, <2>7, <2>8 DEF Working
  <2>10. Height(q) = n - 1 /\ EndsDefs(parser, q, FALSE)
    <3>1. Height(q) = n - 1 /\ n \in Nat
      BY <1>6, <2>5 DEF Result, n
    <3> QED BY <2>5, <3>1 DEF EndsDefs, NoMoreDefs, n, an
  <2> QED BY <1>1, <1>3, <2>9, <2>10 DEF TInv, NothingLeft, Accepted, n, q
<1>8. CASE ~OwnerReads
  <2>1. Paired(dtree_stack, owners, parser.sem_an_stack) /\ IFIsClosed
    BY <1>1, <1>4, <1>8 DEF StacksPaired
  <2>2. Closed(parser, dtree_stack, owners, owner, n, an) /\ token.id = "IF"
    BY <2>1 DEF IFIsClosed
  <2> HIDE DEF n, an, q
  <2>3. /\ Result(q, token.id, Len(dtree_stack), Flip(dtree_stack), Flip(owners), n - 1)
        /\ Closed(q, dtree_stack, owners, owner, n - 1, Frames(q)) /\ ~(owner <= n - 1)
        /\ NoMoreDefs(n - 1, an, Frames(q))
    BY <1>4, <1>5, <2>1, <2>2, ClosedFlushed DEF n, an, q
  <2>4. Kept(q, token.id) /\ Paired(dtree_stack, owners, q.sem_an_stack) /\ Height(q) = n - 1
    BY <1>4, <2>3, PairedAgain DEF Result
  <2>5. ~OwnerReads'
    <3>1. n \in Nat
      BY <1>6 DEF n
    <3>2. owner \notin 0 .. Height(q)
      BY <2>3, <2>4, <3>1
    <3> QED BY <1>1, <1>3, <3>2 DEF OwnerReads, q
  <2>6. IFIsClosed' /\ StacksPaired' /\ Kept(parser', NextUp'.id)
    <3>1. parser' = q
      BY <1>1 DEF q
    <3>2. Closed(parser', dtree_stack', owners', owner', Height(parser'), Frames(parser'))
      <4>1. Closed(parser', dtree_stack, owners, owner, Height(parser'), Frames(parser'))
        BY <2>3, <2>4, <3>1 DEF Closed
      <4> QED BY <1>3, <4>1
    <3> QED BY <1>1, <1>3, <2>2, <2>4, <2>5, <3>1, <3>2 DEF IFIsClosed, StacksPaired, NextUp
  <2>7. Working'
    BY <1>1, <1>3, <1>4, <2>5, <2>6 DEF Working
  <2>8. Height(q) = n - 1 /\ EndsDefs(parser, q, FALSE)
    <3>1. n \in Nat
      BY <1>6 DEF n
    <3> QED BY <2>3, <2>4, <3>1 DEF EndsDefs, NoMoreDefs, n, an
  <2> QED BY <1>1, <1>3, <2>7, <2>8 DEF TInv, NothingLeft, Accepted, n, q
<1> QED BY <1>7, <1>8
-----------------------------------------------------------------------------
\* Where the IF behind END is open nobody reads it.
LEMMA ClosedIgnores ==
    ASSUME Working, pc = "semantics", ~FinishedOnTop, ~OwnerReads
    PROVE  TokenPassed = Ok(parser) /\ token.id = "IF" /\ ~ValueOnTop(parser)
<1> DEFINE n == Height(parser)
           an == Frames(parser)
<1>1. Kept(parser, token.id) /\ IFIsClosed
  BY DEF Working, NextUp
<1>2. Fit(parser) /\ token.id = "IF" /\ Closed(parser, dtree_stack, owners, owner, n, an)
  BY <1>1 DEF Kept, IFIsClosed
<1>3. n > 0 => ~Over(an[n])
  BY <1>2, FinishedIsOver
<1>4. /\ owner \in Nat /\ n <= owner /\ (n = owner => n > 0 /\ Over(an[n]))
      /\ n > 0 => ~Speaks(an[n])
      /\ n > 0 /\ n < owner /\ ~Over(an[n]) => \E i : <<an[n].state, "other", i>> \in Rows(an[n].sem_action)
  BY <1>2 DEF Closed
<1>5. CASE n > 0
  <2>1. Busy(parser) /\ n \in Nat \ {0} /\ Me(parser) = an[n] /\ parser.sem_an_stack # << >>
    BY <1>2, <1>5, TopFrame
  <2>2. n < owner
    BY <1>3, <1>4, <1>5, <2>1
  <2>3. PICK i : <<an[n].state, "other", i>> \in Rows(an[n].sem_action)
    BY <1>3, <1>4, <1>5, <2>2
  <2>4. ~IsToken(TokenValue(token), BlockTokens)
    BY <1>2, TokenIsValue DEF IsToken, BlockTokens
  <2>5. sem_action(parser, TokenValue(token)) = Ok(parser)
    BY <2>1, <2>3, <2>4, OpenIgnores
  <2>6. an[n].sem_action # "sem_expr_result"
    BY <1>4, <1>5 DEF Speaks
  <2> QED BY <1>2, <2>1, <2>5, <2>6 DEF TokenPassed, ValueOnTop
<1>6. CASE ~(n > 0)
  <2>1. n \in Nat /\ (parser.sem_an_stack = << >> <=> n = 0)
    BY <1>2, Lengths DEF Fit, Height
  <2> QED BY <1>2, <1>6, <2>1 DEF TokenPassed, ValueOnTop
<1> QED BY <1>5, <1>6

\* The two stacks where the token is passed to the analyzer on the top
LEMMA AtTheToken ==
    ASSUME Working, pc = "semantics", ~FinishedOnTop, OwnerReads
    PROVE  \E m, sym, own, lab, cur :
             /\ Coupled(m, sym, own, lab, cur, Height(parser), Frames(parser))
             /\ m - 1 = Len(dtree_stack) /\ sym[m] = token.id /\ own[m] = owner
             /\ Agree(m - 1, sym, Flip(dtree_stack)) /\ Agree(m - 1, own, Flip(owners))
             /\ Kept(parser, token.id) /\ token.id \notin Nonterminals
             /\ Height(parser) > 0 => ~Over(Frames(parser)[Height(parser)])
<1>1. /\ Kept(parser, token.id) /\ StacksPaired /\ IsSeq(dtree_stack) /\ IsSeq(owners)
      /\ Len(owners) = Len(dtree_stack) /\ token.id = last_matched /\ token.id \notin Nonterminals
  BY DEF Working, NextUp
<1>2. Paired(<<last_matched>> \o dtree_stack, <<owner>> \o owners, parser.sem_an_stack)
  BY <1>1 DEF StacksPaired
<1> DEFINE sym == Flip(<<last_matched>> \o dtree_stack)
           own == Flip(<<owner>> \o owners)
           m == Len(dtree_stack) + 1
<1>3. /\ m - 1 = Len(dtree_stack) /\ sym[m] = last_matched /\ own[m] = owner
      /\ Agree(m - 1, sym, Flip(dtree_stack)) /\ Agree(m - 1, own, Flip(owners))
      /\ Joined(m, sym, own, Height(parser), Frames(parser))
  BY <1>1, <1>2, WithMatched
<1>4. Height(parser) > 0 => ~Over(Frames(parser)[Height(parser)])
  BY <1>1, FinishedIsOver DEF Kept
<1> HIDE DEF m, sym, own
<1>5. PICK lab, cur : Coupled(m, sym, own, lab, cur, Height(parser), Frames(parser))
  BY <1>3 DEF Joined
<1> QED BY <1>1, <1>3, <1>4, <1>5

LEMMA TokenIsPassed ==
    ASSUME Working, pc = "semantics", ~FinishedOnTop, OwnerReads, TokenPassed.ret = "SUCCESS",
           token.id # "EOF", NEW id2
    PROVE  /\ Result(TokenPassed.parser, id2, Len(dtree_stack), Flip(dtree_stack), Flip(owners), Height(parser))
           /\ EndsDefs(parser, TokenPassed.parser, EndOnTop)
<1> DEFINE n == Height(parser)
           an == Frames(parser)
           sym2 == Flip(dtree_stack)
           own2 == Flip(owners)
<1>1. PICK m, sym, own, lab, cur :
             /\ Coupled(m, sym, own, lab, cur, n, an)
             /\ m - 1 = Len(dtree_stack) /\ sym[m] = token.id /\ own[m] = owner
             /\ Agree(m - 1, sym, sym2) /\ Agree(m - 1, own, own2)
             /\ Kept(parser, token.id) /\ token.id \notin Nonterminals
             /\ n > 0 => ~Over(an[n])
  BY AtTheToken
<1>2. m \in Nat /\ n \in Nat /\ m > 1
  <2>1. Heights(m, sym, own, lab, cur, n, an)
    BY <1>1 DEF Coupled
  <2>2. m \in Nat \ {0} /\ n \in Nat
    BY <2>1 DEF Heights, Ordered
  <2>3. m # 1
    BY <1>1, <2>1, BottomIsEOF
  <2> QED BY <2>2, <2>3
<1>3. IsSeq(parser.sem_an_stack)
  BY <1>1 DEF Kept, Fit
<1>4. parser.sem_an_stack = << >> <=> n = 0
  BY <1>3, Lengths DEF Height
<1> DEFINE q == TokenPassed.parser
<1>5. CASE n = 0
  <2>1. q = parser
    BY <1>4, <1>5 DEF TokenPassed, Ok
  <2>2. n = Height(parser) /\ an = Frames(parser)
    OBVIOUS
  <2> HIDE DEF n, an, sym2, own2, q
  <2>3. Result(parser, id2, m - 1, sym2, own2, n)
    BY <1>1, <1>2, <1>5, <2>2, TokenIsLost
  <2>4. Result(q, id2, Len(dtree_stack), sym2, own2, n)
    BY <1>1, <2>1, <2>3
  <2>5. EndsDefs(parser, q, EndOnTop)
    BY <2>1 DEF EndsDefs
  <2> QED BY <2>4, <2>5 DEF n, sym2, own2, q
<1>6. CASE n # 0
  <2>1. n > 0 /\ ~Over(an[n]) /\ TokenPassed = sem_action(parser, TokenValue(token))
    BY <1>1, <1>2, <1>4, <1>6 DEF TokenPassed
  <2>2. sem_action(parser, TokenValue(token)).ret = "SUCCESS"
        /\ q = sem_action(parser, TokenValue(token)).parser
    BY <2>1
  <2>3. n = Height(parser) /\ an = Frames(parser)
    OBVIOUS
  <2> HIDE DEF n, an, sym2, own2, q
  <2>4. /\ Result(q, id2, m - 1, sym2, own2, n) /\ NoMoreDefs(n - 1, an, Frames(q))
        /\ DefOver(Frames(q)[n]) => DefOver(an[n]) \/ sym[m - 1] = "EOL"
    <3>1. CASE own[m] = n
      BY <1>1, <2>1, <2>2, <2>3, <3>1, TokenIsRead
    <3>2. CASE own[m] # n
      <4>1. Result(q, id2, m - 1, sym2, own2, n) /\ NoMoreDefs(n, an, Frames(q))
        BY <1>1, <1>2, <2>1, <2>2, <2>3, <3>2, LineIsEnded
      <4> QED BY <1>2, <1>6, <4>1 DEF NoMoreDefs
    <3> QED BY <3>1, <3>2
  <2>5. Result(q, id2, Len(dtree_stack), sym2, own2, n)
    BY <1>1, <2>4
  <2>6. Height(q) = n
    BY <2>4 DEF Result
  <2>7. sym[m - 1] = "EOL" => EndOnTop
    <3>1. IsSeq(dtree_stack) /\ Len(dtree_stack) > 0 /\ m - 1 \in 1 .. m - 1
      BY <1>1, <1>2 DEF Working
    <3>2. sym2[m - 1] = Head(dtree_stack)
      BY <1>1, <3>1, FlipEnds DEF sym2
    <3> QED BY <1>1, <3>1, <3>2 DEF Agree, EndOnTop
  <2>8. EndsDefs(parser, q, EndOnTop)
    <3>1. ASSUME NEW d \in 1 .. n, DefOver(Frames(q)[d])
          PROVE  DefOver(an[d]) \/ (d = n /\ EndOnTop)
      <4>1. d = n \/ d \in 1 .. n - 1
        BY <1>2
      <4> QED BY <2>4, <2>7, <3>1, <4>1 DEF NoMoreDefs
    <3> QED BY <2>3, <2>6, <3>1 DEF EndsDefs
  <2> QED BY <2>5, <2>8 DEF n, sym2, own2, q
<1> QED BY <1>5, <1>6

\* The next token is asked for.
LEMMA AsksForToken ==
    ASSUME Working, SemanticsDone, token.id # "EOF", owners' = owners, Kept(parser', backlog_token.id),
           Paired(dtree_stack, owners, parser'.sem_an_stack), ~ValueOnTop(parser')
    PROVE  Working'
<1>1. pc' = "get_token" /\ UNCHANGED <<dtree_stack, token, backlog_token>>
  BY DEF SemanticsDone, GoTo
<1>2. IsSeq(dtree_stack) /\ IsSeq(owners) /\ Len(owners) = Len(dtree_stack)
  BY DEF Working
<1>3. StacksPaired' /\ Kept(parser', NextUp'.id)
  BY <1>1 DEF StacksPaired, NextUp
<1> QED BY <1>1, <1>2, <1>3 DEF Working

LEMMA PassTokenKeeps ==
    ASSUME TInv, PassToken
    PROVE  TInv' /\ (pc' # "done" => EndsDefs(parser, parser', EndOnTop))
<1>1. /\ pc = "semantics" /\ ~FinishedOnTop /\ TokenPassed.ret = "SUCCESS" /\ SemanticsDone
      /\ parser' = TokenPassed.parser /\ UNCHANGED <<source, owners, owner>>
  BY DEF PassToken
<1>2. Working /\ source \in Programs
  BY <1>1 DEF TInv
<1>3. IsSeq(dtree_stack) /\ IsSeq(owners) /\ Len(owners) = Len(dtree_stack)
  BY <1>2 DEF Working
<1>4. CASE ~OwnerReads
  <2>1. TokenPassed = Ok(parser) /\ token.id = "IF" /\ ~ValueOnTop(parser)
    BY <1>1, <1>2, <1>4, ClosedIgnores
  <2>2. parser' = parser
    BY <1>1, <2>1 DEF Ok
  <2>3. Kept(parser, token.id) /\ Paired(dtree_stack, owners, parser.sem_an_stack)
    BY <1>1, <1>2, <1>4 DEF Working, NextUp, StacksPaired
  <2>4. Kept(parser, backlog_token.id)
    BY <2>1, <2>3, AnyTokenMayCome DEF ValueOnTop
  <2>5. Working'
    BY <1>1, <1>2, <2>1, <2>2, <2>3, <2>4, AsksForToken
  <2>6. pc' = "get_token"
    BY <1>1, <2>1 DEF SemanticsDone, GoTo
  <2>7. EndsDefs(parser, parser', EndOnTop)
    BY <2>2 DEF EndsDefs
  <2> QED BY <1>1, <1>2, <2>5, <2>6, <2>7 DEF TInv, NothingLeft, Accepted
<1>5. CASE OwnerReads /\ token.id # "EOF"
  <2> DEFINE q == TokenPassed.parser
  <2>1. Result(q, backlog_token.id, Len(dtree_stack), Flip(dtree_stack), Flip(owners), Height(parser))
        /\ EndsDefs(parser, q, EndOnTop)
    BY <1>1, <1>2, <1>5, TokenIsPassed
  <2> HIDE DEF q
  <2>2. Kept(q, backlog_token.id) /\ Paired(dtree_stack, owners, q.sem_an_stack)
        /\ ~ValueOnTop(q)
    BY <1>3, <2>1, PairedAgain
  <2>3. parser' = q
    BY <1>1 DEF q
  <2>4. Working'
    BY <1>1, <1>2, <1>5, <2>2, <2>3, AsksForToken
  <2>5. pc' = "get_token"
    BY <1>1, <1>5 DEF SemanticsDone, GoTo
  <2> QED BY <1>1, <1>2, <2>1, <2>3, <2>4, <2>5 DEF TInv, NothingLeft, Accepted
<1>6. CASE OwnerReads /\ token.id = "EOF"
  <2>1. parser.sem_an_stack = << >> /\ parser.sym_tab_stack = << >>
    BY <1>1, <1>2, <1>6, AtTheToken, NothingAtTheEnd
  <2>2. parser' = parser
    BY <1>1, <2>1 DEF TokenPassed, Ok
  <2>3. pc' = "done"
    BY <1>1, <1>6 DEF SemanticsDone, GoTo
  <2> QED BY <1>1, <1>2, <2>1, <2>2, <2>3 DEF TInv, NothingLeft, Stack
<1> QED BY <1>4, <1>5, <1>6

LEMMA SemanticsFailKeeps ==
    ASSUME TInv, FlushFails \/ TokenRefused
    PROVE  TInv'
<1>1. PICK code : code # "SUCCESS" /\ SemanticsFail(code) /\ UNCHANGED translation
  BY DEF FlushFails, TokenRefused
<1>2. pc' = "done" /\ ret_code' # "SUCCESS" /\ source' = source
  BY <1>1 DEF SemanticsFail, Fail, translation
<1> QED BY <1>2, DoneKeeps

LEMMA StepKeeps == TInv /\ [TNext]_allvars => TInv'
<1>1. CASE TInv /\ UNCHANGED allvars
  <2>1. /\ UNCHANGED <<pc, ret_code, token, backlog_token, dtree_stack, last_matched, source, parser, owners,
                       owner>>
    BY <1>1 DEF allvars, vars, translation, history
  <2>2. Top' = Top /\ NextUp' = NextUp /\ OwnerReads' = OwnerReads
    BY <2>1 DEF Top, NextUp, OwnerReads
  <2>3. StacksPaired' = StacksPaired /\ IFIsClosed' = IFIsClosed
    BY <2>1, <2>2 DEF StacksPaired, IFIsClosed
  <2>4. NothingLeft' = NothingLeft
    BY <2>1 DEF NothingLeft, Accepted, Stack
  <2>5. Working => Working'
    BY <2>1, <2>2, <2>3 DEF Working
  <2> QED BY <1>1, <2>1, <2>4, <2>5 DEF TInv
<1>2. CASE TInv /\ TNext
  BY <1>2, GetTokenKeeps, RefuseKeeps, GoToExpressionKeeps, ApplyRuleKeeps, MatchTokenKeeps, ExpressionKeeps,
     BadExpressionKeeps, FlushFinishedKeeps, PassTokenKeeps, SemanticsFailKeeps DEF TNext
<1> QED BY <1>1, <1>2

LEMMA TInvariant == TSpec => []TInv
  BY InitKeeps, StepKeeps, PTL DEF TSpec
-----------------------------------------------------------------------------
\* The analyzers below the top, from either end of the stack
LEMMA DepthOfFrame ==
    ASSUME Fit(parser), NEW k \in DOMAIN Stack
    PROVE  Depth(k) \in 1 .. Height(parser) /\ Frames(parser)[Depth(k)] = Stack[k]
           /\ k \in Nat /\ Height(parser) \in Nat
<1>1. Len(Stack) \in Nat /\ DOMAIN Stack = 1 .. Len(Stack)
  <2>1. IsSeq(Stack)
    BY DEF Fit, Stack
  <2> QED BY <2>1, LenProperties DEF IsSeq
<1>2. Depth(k) \in 1 .. Len(Stack) /\ (Len(Stack) + 1) - Depth(k) = k
  BY <1>1 DEF Depth
<1>3. Flip(Stack)[Depth(k)] = Stack[(Len(Stack) + 1) - Depth(k)]
  BY <1>2 DEF Flip
<1> QED BY <1>1, <1>2, <1>3 DEF Height, Frames, Stack

\* A token some analyzer acts on has come to its statement.
LEMMA ReachesStatement ==
    ASSUME Working, pc = "semantics", ~FinishedOnTop, TokenPassed.parser # parser
    PROVE  ReachedByItsStatement
<1> DEFINE n == Height(parser)
           an == Frames(parser)
<1>1. OwnerReads
  <2>1. TokenPassed = Ok(parser) => TokenPassed.parser = parser
    BY DEF Ok
  <2> QED BY <2>1, ClosedIgnores
<1>2. PICK m, sym, own, lab, cur :
             /\ Coupled(m, sym, own, lab, cur, n, an) /\ sym[m] = token.id /\ own[m] = owner
             /\ Kept(parser, token.id) /\ (n > 0 => ~Over(an[n]))
  BY <1>1, AtTheToken
<1>3. Fit(parser) /\ n = Len(Stack)
  BY <1>2 DEF Kept, Height, Stack
<1>4. n \in Nat /\ owner \in 0 .. n
  <2>1. n \in Nat
    BY <1>2 DEF Coupled, Heights, Ordered
  <2> QED BY <1>1, <2>1 DEF OwnerReads
<1>5. CASE owner = n
  BY <1>3, <1>5 DEF ReachedByItsStatement
<1>6. CASE owner # n
  <2>1. n > 0 /\ own[m] # n /\ ~Over(an[n])
    BY <1>2, <1>4, <1>6
  <2>2. EndOfLine(m, sym, own, cur, n, an)
    BY <1>2, <2>1, OnlyTheEndOfItsLine
  <2>3. token.id = "EOL" /\ \A d \in owner + 1 .. n - 1 : Over(an[d])
    BY <1>2, <2>2 DEF EndOfLine
  <2>4. ASSUME NEW k \in DOMAIN Stack, k > 1, Depth(k) > owner
        PROVE  Stack[k].finished
    <3>1. Depth(k) \in 1 .. n /\ an[Depth(k)] = Stack[k] /\ k \in Nat
      BY <1>3, DepthOfFrame
    <3>2. Depth(k) = n + 1 - k
      BY <1>3 DEF Depth
    <3>3. Depth(k) \in owner + 1 .. n - 1
      BY <1>4, <2>4, <3>1, <3>2
    <3>4. Over(Stack[k])
      BY <2>3, <3>1, <3>3
    <3> QED BY <3>4 DEF Over
  <2>5. Len(Stack) > owner
    BY <1>3, <1>4, <1>6
  <2> QED BY <2>3, <2>4, <2>5 DEF ReachedByItsStatement
<1> QED BY <1>5, <1>6

LEMMA StepReaches ==
    ASSUME TInv, [TNext]_allvars, pc = "semantics", ~FinishedOnTop, parser' # parser
    PROVE  ReachedByItsStatement
<1>1. Working
  BY DEF TInv
<1>2. parser' = TokenPassed.parser
  <2>1. CASE PassToken
    BY <2>1 DEF PassToken
  <2>2. CASE ~PassToken
    BY <2>2 DEF allvars, translation, TNext, GetToken, TakeBacklog, ReadToken, Refuse, GoToExpression,
                ApplyRule, Rewrite, MatchToken, Match, Expression, BadExpression, FlushFinished, FlushFails,
                TokenRefused
  <2> QED BY <2>1, <2>2
<1> QED BY <1>1, <1>2, ReachesStatement

(* For every set of programs: a token is acted on by the analyzer of the   *)
(* rule it comes from, or, where it ends a line, by the statement whose    *)
(* line that is, with finished analyzers between the two (handle_semantics *)
(* passes it to whatever is on the top).                                   *)
THEOREM TokensReachTheirStatements == TSpec => TokensReachTheirStatement
<1>1. TInv /\ [TNext]_allvars =>
         [pc = "semantics" /\ ~FinishedOnTop /\ parser' # parser => ReachedByItsStatement]_allvars
  BY StepReaches
<1>2. TSpec => [][TNext]_allvars
  BY PTL DEF TSpec
<1> QED BY <1>1, <1>2, TInvariant, PTL DEF TokensReachTheirStatement

\* An analyzer that says nothing is removed and nothing else.
LEMMA SaysNothing ==
    ASSUME Working, pc = "semantics", FinishedOnTop,
           Me(parser).sem_action \notin {"sem_expr_result", "sem_param_decl"}
    PROVE  PassedDown = Ok(Popped)
<1> DEFINE n == Height(parser)
           an == Frames(parser)
<1>1. /\ Kept(parser, token.id) /\ StacksPaired /\ IsSeq(dtree_stack) /\ IsSeq(owners)
      /\ Len(owners) = Len(dtree_stack)
  BY DEF Working, NextUp
<1>2. Fit(parser) /\ n > 0 /\ Me(parser) = an[n]
  <2>1. Fit(parser) /\ n > 0
    BY <1>1, FinishedIsOver DEF Kept
  <2> QED BY <2>1, TopFrame
<1>3. \E m, sym, own : Joined(m, sym, own, n, an)
  <2>1. CASE OwnerReads
    BY <1>1, <2>1, WithMatched DEF StacksPaired
  <2>2. CASE ~OwnerReads
    BY <1>1, <2>2 DEF StacksPaired, Paired, Height, Frames
  <2> QED BY <2>1, <2>2
<1>4. PICK m, sym, own, lab, cur : Coupled(m, sym, own, lab, cur, n, an)
  BY <1>3 DEF Joined
<1>5. ~Speaks(an[n])
  BY <1>2 DEF Speaks
<1>6. PassDown(parser) = Ok(WithoutTop(parser))
  BY <1>1, <1>2, <1>4, <1>5, StatementIsRemoved
<1> QED BY <1>6, Rounds DEF WithoutTop, Popped

LEMMA StepLeavesParents ==
    ASSUME TInv, TNext, pc = "semantics", FinishedOnTop
    PROVE  Me(parser).sem_action \in {"sem_expr_result", "sem_param_decl"} \/ parser' = Popped
<1>1. Working
  BY DEF TInv
<1>2. FlushFinished \/ FlushFails
  BY DEF TNext, GetToken, TakeBacklog, ReadToken, Refuse, NoRule, Mismatch, GoToExpression, CallExpression,
         ApplyRule, Rewrite, MatchToken, Match, Expression, BadExpression, PassToken, TokenRefused
<1>3. SUFFICES ASSUME Me(parser).sem_action \notin {"sem_expr_result", "sem_param_decl"}
               PROVE  parser' = Popped
  OBVIOUS
<1>4. PassedDown.ret = "SUCCESS" /\ PassedDown.parser = Popped
  BY <1>1, <1>3, SaysNothing DEF Ok
<1> QED BY <1>2, <1>4 DEF FlushFinished, FlushFails

(* For every set of programs: of the analyzers that handle_finished_semantics *)
(* removes only an expression and a parameter say anything to the one below. *)
THEOREM StatementsSayNothing == TSpec => StatementsLeaveParentsAlone
<1>1. TInv /\ [TNext]_allvars =>
         [pc = "semantics" /\ FinishedOnTop =>
             \/ Me(parser).sem_action \in {"sem_expr_result", "sem_param_decl"}
             \/ parser' = Popped]_allvars
  BY StepLeavesParents
<1>2. TSpec => [][TNext]_allvars
  BY PTL DEF TSpec
<1> QED BY <1>1, <1>2, TInvariant, PTL DEF StatementsLeaveParentsAlone

\* Only declarations and jumps have flags, and none is unfinished there.
LEMMA NoFlagsAtStart == TInv => NoFlagsLeft
<1> SUFFICES ASSUME TInv, pc = "rewrite", Top = "NT_INNER_STMT"
             PROVE  /\ ~parser.static_var_decl /\ ~parser.step_found /\ parser.last_loop_type = "none"
                    /\ parser.il_override = "none"
  BY DEF NoFlagsLeft, AtStatement
<1>1. Kept(parser, token.id) /\ Paired(dtree_stack, owners, parser.sem_an_stack)
  BY DEF TInv, Working, NextUp, StacksPaired
<1>2. PICK m, lab, cur : /\ Under(dtree_stack, owners, m)
                         /\ Coupled(m, Flip(dtree_stack), Flip(owners), lab, cur,
                                    Len(parser.sem_an_stack), Flip(parser.sem_an_stack))
  BY <1>1, PairedUnder
<1> DEFINE n == Height(parser)
           an == Frames(parser)
           sym == Flip(dtree_stack)
           own == Flip(owners)
<1>3. Coupled(m, sym, own, lab, cur, n, an) /\ sym[m] = "NT_INNER_STMT" /\ n = Height(parser)
      /\ an = Frames(parser)
  BY <1>2 DEF Height, Frames, Under, Top
<1> HIDE DEF n, an, sym, own
<1>4. /\ n > 0 => ~Speaks(an[n])
      /\ n > 0 /\ an[n].sem_action \in {"sem_var_decl", "sem_exit", "sem_continue"} => Over(an[n])
  BY <1>3, StarterOnTop DEF Starters, Statements
<1>5. FlagsKept(parser, n, an) /\ StepSeen(parser, n, an, token.id) /\ n \in Nat
  <2>1. n \in Nat
    BY <1>3 DEF Coupled, Heights, Ordered
  <2> QED BY <1>1, <1>3, <2>1 DEF Kept
<1>6. CASE n = 0
  BY <1>5, <1>6 DEF FlagsKept, NoFlags, StepSeen
<1>7. CASE n > 0
  <2>1. an[n].sem_action # "sem_expr_result" /\ (Over(an[n]) => an[n].finished = TRUE)
    BY <1>4, <1>7 DEF Speaks, Over
  <2>2. FlagsOf(parser, an[n]) /\ parser.step_found = FALSE
    BY <1>5, <1>7, <2>1 DEF FlagsKept, StepSeen
  <2>3. ~(an[n].sem_action \in {"sem_var_decl", "sem_exit", "sem_continue"} /\ ~an[n].finished)
    BY <1>4, <1>7, <2>1
  <2> QED BY <2>2, <2>3 DEF FlagsOf
<1> QED BY <1>5, <1>6, <1>7

(* For every set of programs: an accepted program leaves no analyzer and   *)
(* no table behind.                                                        *)
THEOREM AcceptedLeavesNothing == TSpec => []NothingLeft
<1>1. TInv => NothingLeft
  BY DEF TInv
<1> QED BY <1>1, TInvariant, PTL

(* For every set of programs: no statement starts under a flag that an     *)
(* earlier one has set.                                                    *)
THEOREM FlagsAreReset == TSpec => []NoFlagsLeft
  BY NoFlagsAtStart, TInvariant, PTL
-----------------------------------------------------------------------------
(* The blocks that the symbols on the stack still close.  sym and c count  *)
(* the stack from the bottom.                                              *)
LEMMA NestsPlain ==
    ASSUME NEW m \in Nat, NEW sym, NEW b, NEW blocks, Nests(m, sym, b, blocks),
           NEW sym2, Agree(m, sym, sym2), NEW len \in Nat,
           \A h \in m + 1 .. m + len : sym2[h] \notin Closers
    PROVE  Nests(m + len, sym2, b, blocks)
<1> PICK c : Counts(m, sym, b, c) /\ ClosesBlocks(m, sym, blocks, c)
  BY DEF Nests
<1> DEFINE c2 == [h \in 0 .. m + len |-> IF h <= m THEN c[h] ELSE b]
<1>1. \A h \in 0 .. m + len : c2[h] = IF h <= m THEN c[h] ELSE b
  OBVIOUS
<1> HIDE DEF c2
<1>2. b \in Nat /\ c[0] = 0 /\ c[m] = b /\ \A h \in 0 .. m : c[h] \in Nat /\ c[h] <= b
  BY DEF Counts
<1>3. c2[0] = 0 /\ c2[m + len] = b /\ \A h \in 0 .. m + len : c2[h] \in Nat
  BY <1>1, <1>2
<1>4. ASSUME NEW g \in 0 .. m + len, NEW h \in 0 .. m + len, g <= h
      PROVE  c2[g] <= c2[h]
  <2>1. CASE h <= m
    <3>1. g \in 0 .. m /\ h \in 0 .. m
      BY <1>4, <2>1
    <3> QED BY <1>1, <1>4, <2>1, <3>1 DEF Counts
  <2>2. CASE ~(h <= m)
    <3>1. c2[h] = b
      BY <1>1, <2>2
    <3>2. c2[g] <= b
      <4>1. CASE g <= m
        <5>1. g \in 0 .. m
          BY <4>1
        <5> QED BY <1>1, <1>2, <4>1, <5>1
      <4>2. CASE ~(g <= m)
        BY <1>1, <1>2, <4>2
      <4> QED BY <4>1, <4>2
    <3> QED BY <3>1, <3>2
  <2> QED BY <2>1, <2>2
<1>5. ASSUME NEW h \in 1 .. m + len
      PROVE  c2[h] = c2[h - 1] + CloserAt(sym2, h)
  <2>1. h \in 0 .. m + len /\ h - 1 \in 0 .. m + len
    OBVIOUS
  <2>2. CASE h <= m
    <3>1. h \in 1 .. m /\ h - 1 <= m
      BY <2>2
    <3>2. c[h] = c[h - 1] + CloserAt(sym, h) /\ sym2[h] = sym[h]
      BY <3>1 DEF Counts, Agree
    <3> QED BY <1>1, <2>1, <2>2, <3>1, <3>2 DEF CloserAt
  <2>3. CASE ~(h <= m)
    <3>1. h \in m + 1 .. m + len /\ CloserAt(sym2, h) = 0
      BY <2>3 DEF CloserAt
    <3>2. c2[h] = b /\ c2[h - 1] = b
      <4>1. CASE h - 1 <= m
        <5>1. h - 1 = m
          BY <2>3, <4>1
        <5> QED BY <1>1, <1>2, <2>1, <2>3, <5>1
      <4>2. CASE ~(h - 1 <= m)
        BY <1>1, <2>1, <2>3, <4>2
      <4> QED BY <4>1, <4>2
    <3> QED BY <1>2, <3>1, <3>2
  <2> QED BY <2>2, <2>3
<1>6. Counts(m + len, sym2, b, c2)
  BY <1>2, <1>3, <1>4, <1>5 DEF Counts
<1>7. ASSUME NEW h \in 1 .. m + len, sym2[h] \in Closers
      PROVE  blocks[c2[h]] = ClosedAt(sym2, h) /\ (sym2[h] = "END" => h > 1)
  <2>1. h \in 1 .. m /\ h <= m /\ h \in 0 .. m + len
    BY <1>7
  <2>2. c2[h] = c[h] /\ sym2[h] = sym[h]
    BY <1>1, <2>1 DEF Agree
  <2>3. blocks[c[h]] = ClosedAt(sym, h) /\ (sym[h] = "END" => h > 1)
    BY <1>7, <2>1, <2>2 DEF ClosesBlocks
  <2>4. sym[h] = "END" => sym2[h - 1] = sym[h - 1]
    <3> SUFFICES ASSUME sym[h] = "END" PROVE sym2[h - 1] = sym[h - 1]
      OBVIOUS
    <3>1. h - 1 \in 1 .. m
      BY <2>1, <2>3
    <3> QED BY <3>1 DEF Agree
  <2> QED BY <2>2, <2>3, <2>4 DEF ClosedAt
<1>8. ClosesBlocks(m + len, sym2, blocks, c2)
  BY <1>7 DEF ClosesBlocks
<1> QED BY <1>6, <1>8 DEF Nests

\* One more block
LEMMA NestsOpen ==
    ASSUME NEW m \in Nat, NEW sym, NEW b, NEW blocks, Nests(m, sym, b, blocks),
           NEW sym2, Agree(m, sym, sym2), sym2[m + 1] \in Closers, sym2[m + 1] = "END" => m > 0,
           NEW blocks2, Agree(b, blocks, blocks2), blocks2[b + 1] = ClosedAt(sym2, m + 1)
    PROVE  Nests(m + 1, sym2, b + 1, blocks2)
<1> PICK c : Counts(m, sym, b, c) /\ ClosesBlocks(m, sym, blocks, c)
  BY DEF Nests
<1> DEFINE c2 == [h \in 0 .. m + 1 |-> IF h <= m THEN c[h] ELSE b + 1]
<1>1. \A h \in 0 .. m + 1 : c2[h] = IF h <= m THEN c[h] ELSE b + 1
  OBVIOUS
<1> HIDE DEF c2
<1>2. b \in Nat /\ c[0] = 0 /\ c[m] = b /\ \A h \in 0 .. m : c[h] \in Nat /\ c[h] <= b
  BY DEF Counts
<1>3. c2[0] = 0 /\ c2[m + 1] = b + 1 /\ \A h \in 0 .. m + 1 : c2[h] \in Nat
  BY <1>1, <1>2
<1>4. ASSUME NEW g \in 0 .. m + 1, NEW h \in 0 .. m + 1, g <= h
      PROVE  c2[g] <= c2[h]
  <2>1. CASE h <= m
    <3>1. g \in 0 .. m /\ h \in 0 .. m
      BY <1>4, <2>1
    <3> QED BY <1>1, <1>4, <2>1, <3>1 DEF Counts
  <2>2. CASE ~(h <= m)
    <3>1. c2[h] = b + 1
      BY <1>1, <2>2
    <3>2. c2[g] <= b + 1
      <4>1. CASE g <= m
        <5>1. g \in 0 .. m
          BY <4>1
        <5> QED BY <1>1, <1>2, <4>1, <5>1
      <4>2. CASE ~(g <= m)
        BY <1>1, <1>2, <4>2
      <4> QED BY <4>1, <4>2
    <3> QED BY <3>1, <3>2
  <2> QED BY <2>1, <2>2
<1>5. ASSUME NEW h \in 1 .. m + 1
      PROVE  c2[h] = c2[h - 1] + CloserAt(sym2, h)
  <2>1. h \in 0 .. m + 1 /\ h - 1 \in 0 .. m + 1 /\ h - 1 <= m
    OBVIOUS
  <2>2. CASE h <= m
    <3>1. h \in 1 .. m
      BY <2>2
    <3>2. c[h] = c[h - 1] + CloserAt(sym, h) /\ sym2[h] = sym[h]
      BY <3>1 DEF Counts, Agree
    <3> QED BY <1>1, <2>1, <2>2, <3>2 DEF CloserAt
  <2>3. CASE ~(h <= m)
    <3>1. h = m + 1 /\ h - 1 = m /\ CloserAt(sym2, h) = 1
      BY <2>3 DEF CloserAt
    <3>2. c2[h] = b + 1 /\ c2[h - 1] = b
      BY <1>1, <1>2, <2>1, <2>3, <3>1
    <3> QED BY <3>1, <3>2
  <2> QED BY <2>2, <2>3
<1>6. Counts(m + 1, sym2, b + 1, c2)
  BY <1>2, <1>3, <1>4, <1>5 DEF Counts
<1>7. ASSUME NEW h \in 1 .. m + 1, sym2[h] \in Closers
      PROVE  blocks2[c2[h]] = ClosedAt(sym2, h) /\ (sym2[h] = "END" => h > 1)
  <2>1. CASE h <= m
    <3>1. h \in 1 .. m /\ h \in 0 .. m + 1 /\ h \in 0 .. m /\ h - 1 \in 0 .. m
      BY <2>1
    <3>2. c2[h] = c[h] /\ sym2[h] = sym[h]
      BY <1>1, <2>1, <3>1 DEF Agree
    <3>3. blocks[c[h]] = ClosedAt(sym, h) /\ (sym[h] = "END" => h > 1)
      BY <1>7, <3>1, <3>2 DEF ClosesBlocks
    <3>4. sym[h] = "END" => sym2[h - 1] = sym[h - 1]
      <4> SUFFICES ASSUME sym[h] = "END" PROVE sym2[h - 1] = sym[h - 1]
        OBVIOUS
      <4>1. h - 1 \in 1 .. m
        BY <3>1, <3>3
      <4> QED BY <4>1 DEF Agree
    <3>5. c[h] \in 1 .. b
      <4>1. c[h] = c[h - 1] + 1
        BY <1>7, <3>1, <3>2 DEF Counts, CloserAt
      <4> QED BY <1>2, <3>1, <4>1
    <3> QED BY <3>2, <3>3, <3>4, <3>5 DEF ClosedAt, Agree
  <2>2. CASE ~(h <= m)
    <3>1. h = m + 1
      BY <2>2
    <3> QED BY <1>3, <3>1
  <2> QED BY <2>1, <2>2
<1>8. ClosesBlocks(m + 1, sym2, blocks2, c2)
  BY <1>7 DEF ClosesBlocks
<1> QED BY <1>6, <1>8 DEF Nests

LEMMA NestsLess ==
    ASSUME NEW m \in Nat \ {0}, NEW sym, NEW b, NEW blocks, Nests(m, sym, b, blocks),
           NEW sym2, Agree(m - 1, sym, sym2), NEW blocks2, Agree(b - CloserAt(sym, m), blocks, blocks2)
    PROVE  /\ b \in Nat /\ b - CloserAt(sym, m) \in Nat
           /\ Nests(m - 1, sym2, b - CloserAt(sym, m), blocks2)
           /\ sym[m] \in Closers => blocks[b] = ClosedAt(sym, m) /\ (sym[m] = "END" => m > 1)
<1> PICK c : Counts(m, sym, b, c) /\ ClosesBlocks(m, sym, blocks, c)
  BY DEF Nests
<1> DEFINE b2 == b - CloserAt(sym, m)
<1>1. CloserAt(sym, m) \in {0, 1} /\ m \in 1 .. m /\ m \in 0 .. m /\ m - 1 \in 0 .. m /\ m - 1 \in Nat
  BY DEF CloserAt
<1>2. b \in Nat /\ c[m] = b /\ c[m] = c[m - 1] + CloserAt(sym, m) /\ c[m - 1] \in Nat
  BY <1>1 DEF Counts
<1>3. b2 \in Nat /\ c[m - 1] = b2
  BY <1>1, <1>2
<1>4. sym[m] \in Closers => blocks[b] = ClosedAt(sym, m) /\ (sym[m] = "END" => m > 1)
  BY <1>1, <1>2 DEF ClosesBlocks
<1> HIDE DEF b2
<1>5. \A h \in 0 .. m - 1 : h \in 0 .. m /\ c[h] \in Nat /\ c[h] <= b2
  BY <1>1, <1>3 DEF Counts
<1>6. Counts(m - 1, sym2, b2, c)
  <2>1. \A h \in 1 .. m - 1 : CloserAt(sym2, h) = CloserAt(sym, h) /\ h \in 1 .. m
    BY DEF Agree, CloserAt
  <2>2. \A h \in 1 .. m - 1 : c[h] = c[h - 1] + CloserAt(sym2, h)
    BY <2>1 DEF Counts
  <2>3. \A g, h \in 0 .. m - 1 : g <= h => c[g] <= c[h]
    BY <1>5 DEF Counts
  <2>4. c[0] = 0
    BY DEF Counts
  <2> QED BY <1>3, <1>5, <2>2, <2>3, <2>4 DEF Counts
<1>7. ASSUME NEW h \in 1 .. m - 1, sym2[h] \in Closers
      PROVE  blocks2[c[h]] = ClosedAt(sym2, h) /\ (sym2[h] = "END" => h > 1)
  <2>1. h \in 1 .. m /\ h \in 0 .. m - 1 /\ h - 1 \in 0 .. m - 1 /\ sym2[h] = sym[h]
    BY DEF Agree
  <2>2. blocks[c[h]] = ClosedAt(sym, h) /\ (sym[h] = "END" => h > 1)
    BY <1>7, <2>1 DEF ClosesBlocks
  <2>3. c[h] \in 1 .. b2
    <3>1. c[h] = c[h - 1] + 1
      BY <1>7, <2>1 DEF Counts, CloserAt
    <3> QED BY <1>3, <1>5, <2>1, <3>1
  <2>4. sym[h] = "END" => sym2[h - 1] = sym[h - 1]
    <3> SUFFICES ASSUME sym[h] = "END" PROVE sym2[h - 1] = sym[h - 1]
      OBVIOUS
    <3>1. h - 1 \in 1 .. m - 1
      BY <2>1, <2>2
    <3> QED BY <3>1 DEF Agree
  <2>5. blocks2[c[h]] = blocks[c[h]]
    BY <2>3 DEF Agree, b2
  <2> QED BY <2>1, <2>2, <2>4, <2>5 DEF ClosedAt
<1>8. ClosesBlocks(m - 1, sym2, blocks2, c)
  BY <1>7 DEF ClosesBlocks
<1>9. Nests(m - 1, sym2, b2, blocks2)
  BY <1>6, <1>8 DEF Nests
<1> QED BY <1>2, <1>3, <1>4, <1>9 DEF b2
-----------------------------------------------------------------------------
\* A rule puts its symbols on the stack; one of them may close a block.
ClosedIn(p, k) == IF p[k] = "END" THEN p[k + 1] ELSE IF p[k] = "NEXT" THEN "FOR" ELSE "DO"
ClosesNothing(p) == \A k \in 1 .. Len(p) : p[k] \notin Closers
ClosesOnce(p, word) ==
    \E k \in 1 .. Len(p) :
        /\ p[k] \in Closers /\ \A i \in 1 .. Len(p) : i # k => p[i] \notin Closers
        /\ ClosedIn(p, k) = word /\ (p[k] = "END" => k < Len(p))

LEMMA NestedPop ==
    ASSUME NEW s, NEW t, Nested(s, t), Len(s) > 0, Head(s) \notin Closers
    PROVE  Nested(Tail(s), t)
<1> DEFINE m == Len(s)
           sym == Flip(s)
           b == Len(t)
<1>1. IsSeq(s) /\ IsSeq(t) /\ Nests(m, sym, b, Flip(t))
  BY DEF Nested
<1>2. m \in Nat \ {0} /\ sym[m] = Head(s)
  BY <1>1, FlipEnds
<1>3. IsSeq(Tail(s)) /\ Len(Tail(s)) = m - 1 /\ Agree(m - 1, sym, Flip(Tail(s)))
  BY <1>1, FlipTail
<1>4. CloserAt(sym, m) = 0 /\ b \in Nat /\ b - 0 = b
  <2>1. b \in Nat
    BY <1>1 DEF Nests, Counts
  <2> QED BY <1>2, <2>1 DEF CloserAt
<1>5. Agree(b, Flip(t), Flip(t))
  BY DEF Agree
<1> HIDE DEF m, sym, b
<1>6. Nests(m - 1, Flip(Tail(s)), b - CloserAt(sym, m), Flip(t))
  BY <1>1, <1>2, <1>3, <1>4, <1>5, NestsLess
<1> QED BY <1>1, <1>3, <1>4, <1>6 DEF Nested, b

LEMMA NestedClose ==
    ASSUME NEW s, NEW t, Nested(s, t), Len(s) > 0, Head(s) \in Closers
    PROVE  /\ Len(t) > 0 /\ Nested(Tail(s), Tail(t))
           /\ Head(t) = ClosedIn(s, 1) /\ (Head(s) = "END" => Len(s) > 1)
<1> DEFINE m == Len(s)
           sym == Flip(s)
           b == Len(t)
<1>1. IsSeq(s) /\ IsSeq(t) /\ Nests(m, sym, b, Flip(t))
  BY DEF Nested
<1>2. m \in Nat \ {0} /\ sym[m] = Head(s) /\ Head(s) = s[1]
      /\ \A k \in 1 .. m : sym[(m + 1) - k] = s[k]
  BY <1>1, FlipEnds
<1>3. IsSeq(Tail(s)) /\ Len(Tail(s)) = m - 1 /\ Agree(m - 1, sym, Flip(Tail(s)))
  BY <1>1, FlipTail
<1>4. CloserAt(sym, m) = 1
  BY <1>2 DEF CloserAt
<1> HIDE DEF m, sym
<1>5. /\ b \in Nat /\ b - 1 \in Nat
      /\ sym[m] \in Closers => Flip(t)[b] = ClosedAt(sym, m) /\ (sym[m] = "END" => m > 1)
  <2>1. b \in Nat /\ Agree(b - CloserAt(sym, m), Flip(t), Flip(t)) /\ Agree(m - 1, sym, sym)
    BY <1>1 DEF Nests, Counts, Agree
  <2> QED BY <1>1, <1>2, <1>4, <2>1, NestsLess
<1>6. Len(t) > 0 /\ b = Len(t)
  BY <1>5
<1>7. IsSeq(Tail(t)) /\ Len(Tail(t)) = b - 1 /\ Agree(b - 1, Flip(t), Flip(Tail(t)))
  BY <1>1, <1>6, FlipTail
<1>8. Flip(t)[b] = t[1] /\ Head(t) = t[1]
  BY <1>1, <1>6, FlipEnds
<1> HIDE DEF b
<1>9. Nests(m - 1, Flip(Tail(s)), b - 1, Flip(Tail(t)))
  BY <1>1, <1>2, <1>3, <1>4, <1>7, NestsLess
<1>10. ClosedAt(sym, m) = ClosedIn(s, 1)
  <2>1. CASE s[1] = "END"
    <3>1. 2 \in 1 .. m /\ (m + 1) - 2 = m - 1 /\ 1 + 1 = 2
      BY <1>2, <1>5, <2>1
    <3>2. sym[m - 1] = s[2]
      BY <1>2, <3>1
    <3> QED BY <1>2, <2>1, <3>1, <3>2 DEF ClosedAt, ClosedIn
  <2>2. CASE s[1] # "END"
    BY <1>2, <2>2 DEF ClosedAt, ClosedIn
  <2> QED BY <2>1, <2>2
<1>11. Nested(Tail(s), Tail(t))
  BY <1>3, <1>7, <1>9 DEF Nested
<1> QED BY <1>2, <1>5, <1>6, <1>8, <1>10, <1>11 DEF m

LEMMA NestedPut ==
    ASSUME NEW s, NEW t, Nested(s, t), NEW p, IsSeq(p), ClosesNothing(p)
    PROVE  Nested(p \o s, t)
<1> DEFINE m == Len(s)
           len == Len(p)
           sym2 == Flip(p \o s)
<1>1. IsSeq(s) /\ IsSeq(t) /\ Nests(m, Flip(s), Len(t), Flip(t))
  BY DEF Nested
<1>2. m \in Nat /\ len \in Nat
  BY <1>1, LenProperties DEF IsSeq
<1>3. /\ IsSeq(p \o s) /\ Len(p \o s) = m + len /\ Agree(m, Flip(s), sym2)
      /\ \A h \in m + 1 .. m + len : sym2[h] = p[(m + len + 1) - h]
  BY <1>1, FlipPush
<1> HIDE DEF m, sym2
<1>4. \A h \in m + 1 .. m + len : sym2[h] \notin Closers
  <2>1. \A h \in m + 1 .. m + len : (m + len + 1) - h \in 1 .. len
    BY <1>2
  <2> QED BY <1>3, <2>1 DEF ClosesNothing
<1> HIDE DEF len
<1>5. Nests(m + len, sym2, Len(t), Flip(t))
  BY <1>1, <1>2, <1>3, <1>4, NestsPlain
<1> QED BY <1>1, <1>3, <1>5 DEF Nested, sym2

LEMMA NestedOpen ==
    ASSUME NEW s, NEW t, Nested(s, t), NEW p, IsSeq(p), NEW word, ClosesOnce(p, word)
    PROVE  Nested(p \o s, <<word>> \o t)
<1> DEFINE m == Len(s)
           len == Len(p)
           sym2 == Flip(p \o s)
           b == Len(t)
           blocks2 == Flip(<<word>> \o t)
<1>1. IsSeq(s) /\ IsSeq(t) /\ Nests(m, Flip(s), b, Flip(t))
  BY DEF Nested
<1>2. m \in Nat /\ len \in Nat /\ b \in Nat
  BY <1>1, LenProperties DEF IsSeq
<1>3. /\ IsSeq(p \o s) /\ Len(p \o s) = m + len /\ Agree(m, Flip(s), sym2)
      /\ \A h \in m + 1 .. m + len : sym2[h] = p[(m + len + 1) - h]
  BY <1>1, FlipPush
<1>4. IsSeq(<<word>>) /\ Len(<<word>>) = 1 /\ <<word>>[1] = word
  <2>1. <<word>> \in Seq({word})
    OBVIOUS
  <2> QED BY <2>1 DEF IsSeq
<1>5. /\ IsSeq(<<word>> \o t) /\ Len(<<word>> \o t) = b + 1 /\ Agree(b, Flip(t), blocks2)
      /\ blocks2[b + 1] = word
  <2>1. /\ IsSeq(<<word>> \o t) /\ Len(<<word>> \o t) = b + Len(<<word>>) /\ Agree(b, Flip(t), blocks2)
        /\ \A h \in b + 1 .. b + Len(<<word>>) : blocks2[h] = <<word>>[(b + Len(<<word>>) + 1) - h]
    BY <1>1, <1>4, FlipPush
  <2>2. b + 1 \in b + 1 .. b + Len(<<word>>) /\ (b + Len(<<word>>) + 1) - (b + 1) = 1
    BY <1>2, <1>4
  <2> QED BY <1>4, <2>1, <2>2
<1>6. PICK k \in 1 .. Len(p) :
        /\ p[k] \in Closers /\ \A i \in 1 .. Len(p) : i # k => p[i] \notin Closers
        /\ ClosedIn(p, k) = word /\ (p[k] = "END" => k < Len(p))
  BY DEF ClosesOnce
<1> DEFINE r == len - k
<1>7. k \in 1 .. len /\ k \in Nat /\ k - 1 \in Nat /\ r \in Nat /\ m + r \in Nat /\ m + r + 1 \in Nat
      /\ m + r + 1 + (k - 1) = m + len /\ (m + len + 1) - (m + r + 1) = k
  BY <1>2
<1> HIDE DEF m, sym2, b, blocks2
<1>8. \A h \in m + 1 .. m + len : (m + len + 1) - h \in 1 .. Len(p)
  BY <1>2
<1> HIDE DEF len
<1>9. \A h \in m + 1 .. m + len : h # m + r + 1 => sym2[h] \notin Closers
  <2>1. \A h \in m + 1 .. m + len : h # m + r + 1 => (m + len + 1) - h # k
    BY <1>2, <1>7
  <2> QED BY <1>3, <1>6, <1>8, <2>1
<1>10. m + r + 1 \in m + 1 .. m + len /\ sym2[m + r + 1] = p[k]
  BY <1>2, <1>3, <1>7
<1> HIDE DEF r
<1>11. Nests(m + r, sym2, b, Flip(t))
  <2>1. \A h \in m + 1 .. m + r : h \in m + 1 .. m + len /\ h # m + r + 1
    BY <1>2, <1>7
  <2> QED BY <1>1, <1>2, <1>3, <1>7, <1>9, <2>1, NestsPlain
<1>12. Nests(m + r + 1, sym2, b + 1, blocks2)
  <2>1. Agree(m + r, sym2, sym2)
    BY DEF Agree
  <2>2. sym2[m + r + 1] = "END" => m + r > 0 /\ sym2[m + r] = p[k + 1]
    <3> SUFFICES ASSUME sym2[m + r + 1] = "END" PROVE m + r > 0 /\ sym2[m + r] = p[k + 1]
      OBVIOUS
    <3>1. k < Len(p) /\ k < len
      BY <1>6, <1>10 DEF len
    <3>2. m + r > 0 /\ m + r \in m + 1 .. m + len /\ (m + len + 1) - (m + r) = k + 1
      BY <1>2, <1>7, <3>1 DEF r
    <3> QED BY <1>3, <3>2
  <2>3. (m + r + 1) - 1 = m + r
    BY <1>7
  <2>4. ClosedAt(sym2, m + r + 1) = word
    <3>1. sym2[m + r + 1] = "END" => ClosedAt(sym2, m + r + 1) = p[k + 1]
      <4>1. \A h : sym2[h] = "END" => ClosedAt(sym2, h) = sym2[h - 1]
        BY DEF ClosedAt
      <4> QED BY <2>2, <2>3, <4>1
    <3>2. sym2[m + r + 1] # "END" =>
            ClosedAt(sym2, m + r + 1) = IF sym2[m + r + 1] = "NEXT" THEN "FOR" ELSE "DO"
      BY DEF ClosedAt
    <3>3. ClosedIn(p, k) = word
      BY <1>6
    <3> QED BY <1>10, <3>1, <3>2, <3>3 DEF ClosedIn
  <2> QED BY <1>5, <1>6, <1>7, <1>10, <1>11, <2>1, <2>2, <2>4, NestsOpen
<1>13. Nests(m + len, sym2, b + 1, blocks2)
  <2>1. Agree(m + r + 1, sym2, sym2)
    BY DEF Agree
  <2>2. \A h \in m + r + 1 + 1 .. m + r + 1 + (k - 1) : h \in m + 1 .. m + len /\ h # m + r + 1
    BY <1>2, <1>7
  <2>3. Nests(m + r + 1 + (k - 1), sym2, b + 1, blocks2)
    BY <1>7, <1>9, <1>12, <2>1, <2>2, NestsPlain
  <2> QED BY <1>7, <2>3
<1> QED BY <1>3, <1>5, <1>13 DEF Nested, sym2, b, blocks2
-----------------------------------------------------------------------------
(* What the rules of the grammar say of the words that open and close      *)
(* blocks                                                                  *)
\* The three kinds of rules
RulePlain(nt, p) ==
    /\ nt \notin Closers /\ ClosesNothing(p)
    /\ p # << >> /\ p[1] \in BlockKeywords => nt = "NT_LOOP_TYPE"
RuleOpens(nt, p) ==
    /\ nt \in Starting /\ p # << >> /\ p[1] \in BlockKeywords /\ ClosesOnce(p, p[1])
    /\ p[1] = "FUNCTION" => nt = "NT_FUNC_DEF"
RuleTests(nt, p) ==
    nt = "NT_DO_STMT_END" /\ p # << >> /\ p[1] \notin BlockKeywords /\ ClosesOnce(p, "DO")
\* The symbols of a rule next to each other and to those around
Runs(p) == \A k \in 1 .. Len(p) - 1 : MayPrecede(p[k], p[k + 1])
RuleGoesOn(nt, p) == nt = "NT_GLOBAL_STMT" /\ Len(p) > 0 => p[Len(p)] = "NT_GLOBAL_STMT"
RuleJoins(nt, p) ==
    /\ p # << >> => /\ p[1] # "NT_LOOP_TYPE"
                    /\ p[1] \in Starting \cup EndedByWord => nt \in Starting
                    /\ p[1] \in {"DO", "FOR"} => nt \in Starting \cup {"NT_LOOP_TYPE"}
    /\ nt \notin BlockKeywords \cup JumpWords \cup {"EOL", "END", "DECLARE"}

LEMMA RulesJoin == \A r \in grammar_rules : RuleJoins(r.for_nt, r.production)
<1> USE DEF Rule, RuleJoins, Starting, EndedByWord, JumpWords, BlockKeywords
<1>1. \A r \in ProgramRules : RuleJoins(r.for_nt, r.production)
  BY SMTT(60) DEF ProgramRules
<1>2. \A r \in StatementRules : RuleJoins(r.for_nt, r.production)
  BY SMTT(60) DEF StatementRules
<1>3. \A r \in DeclarationRules : RuleJoins(r.for_nt, r.production)
  BY SMTT(60) DEF DeclarationRules, Tokens, Types
<1>4. \A r \in SimpleRules : RuleJoins(r.for_nt, r.production)
  BY SMTT(60) DEF SimpleRules, Tokens, AssignOperators
<1>5. \A r \in ConditionRules : RuleJoins(r.for_nt, r.production)
  BY SMTT(60) DEF ConditionRules
<1>6. \A r \in LoopRules : RuleJoins(r.for_nt, r.production)
  BY SMTT(60) DEF LoopRules, Tokens
<1> QED BY <1>1, <1>2, <1>3, <1>4, <1>5, <1>6 DEF grammar_rules

LEMMA RulesRun == \A r \in grammar_rules : Runs(r.production)
<1> USE DEF Rule, Runs, MayPrecede, Starting, EndedByWord, JumpWords
<1>1. \A r \in ProgramRules : Runs(r.production)
  BY SMTT(60) DEF ProgramRules
<1>2. \A r \in StatementRules : Runs(r.production)
  BY SMTT(60) DEF StatementRules
<1>3. \A r \in DeclarationRules : Runs(r.production)
  BY SMTT(60) DEF DeclarationRules, Tokens, Types
<1>4. \A r \in SimpleRules : Runs(r.production)
  BY SMTT(60) DEF SimpleRules, Tokens, AssignOperators
<1>5. \A r \in ConditionRules : Runs(r.production)
  BY SMTT(60) DEF ConditionRules
<1>6. \A r \in LoopRules : Runs(r.production)
  BY SMTT(60) DEF LoopRules, Tokens
<1> QED BY <1>1, <1>2, <1>3, <1>4, <1>5, <1>6 DEF grammar_rules

LEMMA GlobalsGoOn == \A r \in grammar_rules : RuleGoesOn(r.for_nt, r.production)
<1> DEFINE Other(r) == r.for_nt # "NT_GLOBAL_STMT"
<1>1. \A r \in ProgramRules : RuleGoesOn(r.for_nt, r.production)
  BY SMTT(60) DEF ProgramRules, Rule, RuleGoesOn
<1>2. \A r \in StatementRules : Other(r)
  BY SMTT(60) DEF StatementRules, Rule
<1>3. \A r \in DeclarationRules : Other(r)
  BY SMTT(60) DEF DeclarationRules, Rule, Tokens, Types
<1>4. \A r \in SimpleRules : Other(r)
  BY SMTT(60) DEF SimpleRules, Rule, Tokens, AssignOperators
<1>5. \A r \in ConditionRules : Other(r)
  BY SMTT(60) DEF ConditionRules, Rule
<1>6. \A r \in LoopRules : Other(r)
  BY SMTT(60) DEF LoopRules, Rule, Tokens
<1> QED BY <1>1, <1>2, <1>3, <1>4, <1>5, <1>6 DEF grammar_rules, RuleGoesOn

Openers == {"NT_SCOPE_STMT", "NT_IF_STMT", "NT_FUNC_DEF", "NT_DO_STMT", "NT_FOR_STMT"}
LEMMA OthersArePlain ==
    \A r \in grammar_rules :
        r.for_nt \notin Openers \cup {"NT_DO_STMT_END"} => RulePlain(r.for_nt, r.production)
<1> USE DEF Rule, RulePlain, ClosesNothing, Closers, BlockKeywords, Openers
<1> DEFINE Fine(r) == r.for_nt \notin Openers \cup {"NT_DO_STMT_END"} => RulePlain(r.for_nt, r.production)
<1>1. \A r \in ProgramRules : Fine(r)
  BY SMTT(60) DEF ProgramRules
<1>2. \A r \in StatementRules : Fine(r)
  BY SMTT(60) DEF StatementRules
<1>3. \A r \in DeclarationRules : Fine(r)
  BY SMTT(60) DEF DeclarationRules, Tokens, Types
<1>4. \A r \in SimpleRules : Fine(r)
  BY SMTT(60) DEF SimpleRules, Tokens, AssignOperators
<1>5. \A r \in ConditionRules : Fine(r)
  BY SMTT(60) DEF ConditionRules
<1>6. \A r \in LoopRules : Fine(r)
  BY SMTT(60) DEF LoopRules, Tokens
<1> QED BY <1>1, <1>2, <1>3, <1>4, <1>5, <1>6 DEF grammar_rules

LEMMA OpenersOpen ==
    \A r \in grammar_rules : r.for_nt \in Openers => RuleOpens(r.for_nt, r.production)
<1> DEFINE Scope == <<"SCOPE", "EOL", "NT_STMT_SEQ", "END", "SCOPE">>
           If == <<"IF", "NT_EXPRESSION", "THEN", "EOL", "NT_STMT_SEQ", "NT_IF_STMT_ELSEIF",
                   "NT_IF_STMT_ELSE", "END", "IF">>
           Func == <<"FUNCTION", "IDENTIFIER", "LPAR", "NT_PARAMS", "RPAR", "AS", "NT_TYPE", "EOL",
                     "NT_STMT_SEQ", "END", "FUNCTION">>
           Do == <<"DO", "NT_DO_STMT_END">>
           For == <<"FOR", "IDENTIFIER", "NT_TYPE_OPT", "EQUAL", "NT_EXPRESSION", "TO", "NT_EXPRESSION",
                    "NT_STEP_OPT", "EOL", "NT_STMT_SEQ", "NEXT", "NT_ID_OPT">>
           One(nt, p) ==
              \/ nt = "NT_SCOPE_STMT" /\ p = Scope
              \/ nt = "NT_IF_STMT" /\ p = If
              \/ nt = "NT_FUNC_DEF" /\ p = Func
              \/ nt = "NT_DO_STMT" /\ p = Do
              \/ nt = "NT_FOR_STMT" /\ p = For
           Fine(r) == r.for_nt \in Openers => One(r.for_nt, r.production)
<1>1. \A r \in ProgramRules : Fine(r)
  BY SMTT(60) DEF ProgramRules, Rule, Openers
<1>2. \A r \in StatementRules : Fine(r)
  BY SMTT(60) DEF StatementRules, Rule, Openers
<1>3. \A r \in DeclarationRules : Fine(r)
  <2>1. \A r \in DeclarationRules : r.for_nt \in Openers => r.for_nt = "NT_FUNC_DEF"
    BY SMTT(60) DEF DeclarationRules, Tokens, Types, Rule, Openers
  <2>2. \A r \in DeclarationRules : r.for_nt = "NT_FUNC_DEF" => r.production = Func
    BY SMTT(60) DEF DeclarationRules, Tokens, Types, Rule
  <2> QED BY <2>1, <2>2
<1>4. \A r \in SimpleRules : Fine(r)
  <2>1. \A r \in SimpleRules : r.for_nt \in Openers => r.for_nt = "NT_SCOPE_STMT"
    BY SMTT(60) DEF SimpleRules, Tokens, AssignOperators, Rule, Openers
  <2>2. \A r \in SimpleRules : r.for_nt = "NT_SCOPE_STMT" => r.production = Scope
    BY SMTT(60) DEF SimpleRules, Tokens, AssignOperators, Rule
  <2> QED BY <2>1, <2>2
<1>5. \A r \in ConditionRules : Fine(r)
  BY SMTT(60) DEF ConditionRules, Rule, Openers
<1>6. \A r \in LoopRules : Fine(r)
  BY SMTT(60) DEF LoopRules, Tokens, Rule, Openers
<1>7. ClosesOnce(Scope, Scope[1])
  <2>1. Len(Scope) = 5 /\ 4 \in 1 .. 5 /\ ClosedIn(Scope, 4) = Scope[1]
    BY DEF ClosedIn
  <2>2. Scope[4] \in Closers /\ \A i \in 1 .. 5 : i # 4 => Scope[i] \notin Closers
    BY DEF Closers
  <2> QED BY <2>1, <2>2 DEF ClosesOnce
<1>8. ClosesOnce(If, If[1])
  <2>1. Len(If) = 9 /\ 8 \in 1 .. 9 /\ ClosedIn(If, 8) = If[1]
    BY DEF ClosedIn
  <2>2. If[8] \in Closers /\ \A i \in 1 .. 9 : i # 8 => If[i] \notin Closers
    BY DEF Closers
  <2> QED BY <2>1, <2>2 DEF ClosesOnce
<1>9. ClosesOnce(Func, Func[1])
  <2>1. Len(Func) = 11 /\ 10 \in 1 .. 11 /\ ClosedIn(Func, 10) = Func[1]
    BY DEF ClosedIn
  <2>2. Func[10] \in Closers /\ \A i \in 1 .. 11 : i # 10 => Func[i] \notin Closers
    BY DEF Closers
  <2> QED BY <2>1, <2>2 DEF ClosesOnce
<1>10. ClosesOnce(Do, Do[1])
  <2>1. Len(Do) = 2 /\ 2 \in 1 .. 2 /\ ClosedIn(Do, 2) = Do[1]
    BY DEF ClosedIn
  <2>2. Do[2] \in Closers /\ Do[2] # "END" /\ \A i \in 1 .. 2 : i # 2 => Do[i] \notin Closers
    BY DEF Closers
  <2> QED BY <2>1, <2>2 DEF ClosesOnce
<1>11. ClosesOnce(For, For[1])
  <2>1. Len(For) = 12 /\ 11 \in 1 .. 12 /\ ClosedIn(For, 11) = For[1]
    BY DEF ClosedIn
  <2>2. For[11] \in Closers /\ For[11] # "END" /\ \A i \in 1 .. 12 : i # 11 => For[i] \notin Closers
    BY DEF Closers
  <2> QED BY <2>1, <2>2 DEF ClosesOnce
<1>12. Scope[1] = "SCOPE" /\ If[1] = "IF" /\ Func[1] = "FUNCTION" /\ Do[1] = "DO" /\ For[1] = "FOR"
  OBVIOUS
<1>13. Scope # << >> /\ If # << >> /\ Func # << >> /\ Do # << >> /\ For # << >>
  OBVIOUS
<1> HIDE DEF Scope, If, Func, Do, For
<1>14. ASSUME NEW nt, NEW p, One(nt, p)
       PROVE  RuleOpens(nt, p)
  BY <1>7, <1>8, <1>9, <1>10, <1>11, <1>12, <1>13, <1>14 DEF RuleOpens, Starting, BlockKeywords
<1>15. \A r \in grammar_rules : Fine(r)
  BY <1>1, <1>2, <1>3, <1>4, <1>5, <1>6 DEF grammar_rules
<1> QED BY <1>14, <1>15

LEMMA TestsClose ==
    \A r \in grammar_rules : r.for_nt = "NT_DO_STMT_END" => RuleTests(r.for_nt, r.production)
<1> DEFINE Before == <<"NT_TEST_TYPE_START", "NT_EXPRESSION", "EOL", "NT_STMT_SEQ", "LOOP">>
           Behind == <<"EOL", "NT_STMT_SEQ", "LOOP", "NT_TEST_TYPE_END">>
           Fine(r) == r.for_nt = "NT_DO_STMT_END" => r.production \in {Before, Behind}
<1>1. \A r \in ProgramRules : Fine(r)
  BY SMTT(60) DEF ProgramRules, Rule
<1>2. \A r \in StatementRules : Fine(r)
  BY SMTT(60) DEF StatementRules, Rule
<1>3. \A r \in DeclarationRules : Fine(r)
  BY SMTT(60) DEF DeclarationRules, Tokens, Types, Rule
<1>4. \A r \in SimpleRules : Fine(r)
  BY SMTT(60) DEF SimpleRules, Tokens, AssignOperators, Rule
<1>5. \A r \in ConditionRules : Fine(r)
  BY SMTT(60) DEF ConditionRules, Rule
<1>6. \A r \in LoopRules : Fine(r)
  BY SMTT(60) DEF LoopRules, Tokens, Rule
<1>7. ClosesOnce(Before, "DO") /\ Before # << >> /\ Before[1] \notin BlockKeywords
  <2>1. Len(Before) = 5 /\ 5 \in 1 .. 5 /\ ClosedIn(Before, 5) = "DO"
    BY DEF ClosedIn
  <2>2. Before[5] \in Closers /\ Before[5] # "END" /\ \A i \in 1 .. 5 : i # 5 => Before[i] \notin Closers
    BY DEF Closers
  <2> QED BY <2>1, <2>2 DEF ClosesOnce, BlockKeywords
<1>8. ClosesOnce(Behind, "DO") /\ Behind # << >> /\ Behind[1] \notin BlockKeywords
  <2>1. Len(Behind) = 4 /\ 3 \in 1 .. 4 /\ ClosedIn(Behind, 3) = "DO"
    BY DEF ClosedIn
  <2>2. Behind[3] \in Closers /\ Behind[3] # "END" /\ \A i \in 1 .. 4 : i # 3 => Behind[i] \notin Closers
    BY DEF Closers
  <2> QED BY <2>1, <2>2 DEF ClosesOnce, BlockKeywords
<1> HIDE DEF Before, Behind
<1>9. \A r \in grammar_rules : Fine(r)
  BY <1>1, <1>2, <1>3, <1>4, <1>5, <1>6 DEF grammar_rules
<1> QED BY <1>7, <1>8, <1>9 DEF RuleTests
-----------------------------------------------------------------------------
(* A step of the parser on the stack, the matched symbol and the blocks    *)
LEMMA TailAdjacent ==
    ASSUME NEW s, IsSeq(s), Len(s) > 0, Adjacent(s)
    PROVE  Adjacent(Tail(s)) /\ (Len(Tail(s)) > 0 => MayPrecede(Head(s), Head(Tail(s))))
<1>1. /\ IsSeq(Tail(s)) /\ Len(s) \in Nat \ {0} /\ Len(Tail(s)) = Len(s) - 1
      /\ Head(s) = s[1] /\ \A k \in 1 .. Len(s) - 1 : Tail(s)[k] = s[k + 1]
  BY OneLess
<1>2. ASSUME NEW k \in 1 .. Len(Tail(s)) - 1
      PROVE  MayPrecede(Tail(s)[k], Tail(s)[k + 1])
  <2>1. k \in 1 .. Len(s) - 1 /\ k + 1 \in 1 .. Len(s) - 1
    BY <1>1
  <2> QED BY <1>1, <2>1 DEF Adjacent
<1>3. ASSUME Len(Tail(s)) > 0
      PROVE  MayPrecede(Head(s), Head(Tail(s)))
  <2>1. Head(Tail(s)) = Tail(s)[1]
    BY <1>1, <1>3, OneLess
  <2>2. 1 \in 1 .. Len(s) - 1
    BY <1>1, <1>3
  <2> QED BY <1>1, <2>1, <2>2 DEF Adjacent
<1> QED BY <1>2, <1>3 DEF Adjacent

\* What is on the stack is neither the word behind END nor opens a block.
LEMMA TrackedPlain ==
    ASSUME NEW s, NEW last, NEW blocks, Tracked(s, last, blocks), Len(s) > 0, last # "END",
           ~(Head(s) \in BlockKeywords /\ last \in LineStart)
    PROVE  Nested(s, blocks) /\ Outermost(blocks)
  BY DEF Tracked, StillToClose, Opened, Opening

LEMMA TrackedAgain ==
    ASSUME NEW s, IsSeq(s), NEW last, NEW blocks, IsSeq(blocks), Following(s, last), last # "END",
           Len(s) > 0 => ~(Head(s) \in BlockKeywords /\ last \in LineStart),
           Nested(s, blocks), Outermost(blocks)
    PROVE  Tracked(s, last, blocks)
  BY DEF Tracked, StillToClose, Opened, Opening

LEMMA ExpressionTracked ==
    ASSUME NEW s, NEW last, NEW blocks, Tracked(s, last, blocks), Len(s) > 0, Head(s) = "NT_EXPRESSION"
    PROVE  Tracked(Tail(s), "expression", blocks)
<1>1. IsSeq(s) /\ IsSeq(blocks) /\ Adjacent(s) /\ MayFollow(last, Head(s))
  BY DEF Tracked, Following
<1>2. last # "END" /\ Head(s) \notin BlockKeywords \cup Closers
  BY <1>1 DEF MayFollow, EndedByWord, BlockKeywords, Closers
<1>3. Nested(s, blocks) /\ Outermost(blocks)
  BY <1>2, TrackedPlain
<1>4. Nested(Tail(s), blocks)
  BY <1>2, <1>3, NestedPop
<1>5. IsSeq(Tail(s)) /\ Adjacent(Tail(s)) /\ (Len(Tail(s)) > 0 => MayPrecede(Head(s), Head(Tail(s))))
  BY <1>1, TailAdjacent, OneLess
<1>6. Following(Tail(s), "expression")
  BY <1>5 DEF Following, MayFollow, MayPrecede, LineStart, JumpWords
<1> QED BY <1>1, <1>3, <1>4, <1>5, <1>6, TrackedAgain DEF LineStart

\* BlocksAfterMatch of any token
ClosesBlock(id, last) ==
    CASE last = "END" -> id [] id = "LOOP" -> "DO" [] id = "NEXT" -> "FOR" [] OTHER -> "nothing"
OpensBlock(id, last) == id \in BlockKeywords /\ last \notin {"END", "DECLARE", "EXIT", "CONTINUE", "COMMA"}
BlocksAfter(id, last, blocks) ==
    CASE OpensBlock(id, last) -> <<id>> \o blocks
      [] ClosesBlock(id, last) # "nothing" /\ blocks # << >> ->
            IF Head(blocks) = ClosesBlock(id, last) THEN Tail(blocks) ELSE <<"broken">> \o blocks
      [] ClosesBlock(id, last) # "nothing" /\ blocks = << >> -> <<"broken">>
      [] OTHER -> blocks

LEMMA OutermostTail ==
    ASSUME NEW blocks, IsSeq(blocks), Len(blocks) > 0, Outermost(blocks)
    PROVE  Outermost(Tail(blocks))
<1>1. /\ Len(blocks) \in Nat \ {0} /\ Len(Tail(blocks)) = Len(blocks) - 1
      /\ \A k \in 1 .. Len(blocks) - 1 : Tail(blocks)[k] = blocks[k + 1]
  BY OneLess
<1>2. ASSUME NEW k \in 1 .. Len(Tail(blocks)), Tail(blocks)[k] = "FUNCTION"
      PROVE  k = Len(Tail(blocks))
  <2>1. k \in 1 .. Len(blocks) - 1 /\ k + 1 \in 1 .. Len(blocks)
    BY <1>1
  <2>2. k + 1 = Len(blocks)
    BY <1>1, <1>2, <2>1 DEF Outermost
  <2> QED BY <1>1, <2>2
<1> QED BY <1>2 DEF Outermost

LEMMA MatchTracked ==
    ASSUME NEW s, NEW last, NEW blocks, Tracked(s, last, blocks), Len(s) > 0,
           NEW id, Head(s) = id, id \notin {"NT_GLOBAL_STMT", "NT_DO_STMT_END"}
    PROVE  Tracked(Tail(s), id, BlocksAfter(id, last, blocks))
<1> DEFINE blocks2 == BlocksAfter(id, last, blocks)
<1>1. IsSeq(s) /\ IsSeq(blocks) /\ Adjacent(s) /\ MayFollow(last, id)
  BY DEF Tracked, Following
<1>2. IsSeq(Tail(s)) /\ Adjacent(Tail(s)) /\ (Len(Tail(s)) > 0 => MayPrecede(id, Head(Tail(s))))
  BY <1>1, TailAdjacent, OneLess
<1>3. Following(Tail(s), id)
  BY <1>2 DEF Following, MayFollow, MayPrecede, LineStart, JumpWords
<1>4. Len(Tail(s)) > 0 => ~(Head(Tail(s)) \in BlockKeywords /\ id \in LineStart)
  BY <1>2 DEF MayPrecede, BlockKeywords, EndedByWord, LineStart
<1>5. CASE id = "END"
  <2>1. last # "END" /\ id \notin BlockKeywords
    BY <1>1, <1>5 DEF MayFollow, EndedByWord, BlockKeywords
  <2>2. Nested(s, blocks) /\ Outermost(blocks)
    BY <2>1, TrackedPlain
  <2>3. blocks2 = blocks
    BY <1>5, <2>1 DEF BlocksAfter, OpensBlock, ClosesBlock
  <2>4. StillToClose(Tail(s), id) = s
    BY <1>1, <1>5, OneLess DEF StillToClose
  <2>5. Opened(Tail(s), id, blocks) = blocks
    BY <1>5 DEF Opened, Opening, LineStart
  <2> QED BY <1>1, <1>2, <1>3, <2>2, <2>3, <2>4, <2>5 DEF Tracked
<1>6. CASE id # "END" /\ last = "END"
  <2>1. id \in EndedByWord /\ id \notin Closers /\ id \in BlockKeywords /\ id # "nothing"
    BY <1>1, <1>6 DEF MayFollow, EndedByWord, Closers, BlockKeywords
  <2> DEFINE t == <<"END">> \o s
  <2>2. /\ IsSeq(t) /\ Len(t) = Len(s) + 1 /\ Len(s) \in Nat /\ Head(t) = "END" /\ Tail(t) = s
        /\ t[1] = "END" /\ t[2] = s[1]
    <3>1. /\ IsSeq(t) /\ Len(t) = Len(s) + 1 /\ Len(s) \in Nat /\ Head(t) = "END" /\ Tail(t) = s
          /\ t[1] = "END" /\ \A k \in 1 .. Len(s) : t[k + 1] = s[k]
      BY <1>1, OneMore
    <3>2. 1 \in 1 .. Len(s) /\ 1 + 1 = 2
      BY <3>1
    <3>3. t[1 + 1] = s[1]
      BY <3>1, <3>2
    <3> QED BY <3>1, <3>2, <3>3
  <2>3. Nested(t, blocks) /\ Outermost(blocks)
    BY <1>6 DEF Tracked, StillToClose, Opened, Opening, LineStart
  <2> HIDE DEF t
  <2>4. /\ Len(blocks) > 0 /\ Nested(s, Tail(blocks)) /\ Head(blocks) = ClosedIn(t, 1)
    <3>1. Len(t) > 0 /\ Head(t) \in Closers
      BY <2>2 DEF Closers
    <3> QED BY <2>2, <2>3, <3>1, NestedClose
  <2>5. Head(blocks) = id
    <3>1. ClosedIn(t, 1) = t[2] /\ s[1] = Head(s)
      BY <1>1, <2>2, OneLess DEF ClosedIn
    <3> QED BY <2>2, <2>4, <3>1
  <2>6. Nested(Tail(s), Tail(blocks))
    BY <2>1, <2>4, NestedPop
  <2>7. IsSeq(Tail(blocks)) /\ Outermost(Tail(blocks))
    BY <1>1, <2>3, <2>4, OneLess, OutermostTail
  <2>8. blocks2 = Tail(blocks)
    <3>1. blocks # << >>
      BY <1>1, <2>4, NoMore
    <3>2. ~OpensBlock(id, last) /\ ClosesBlock(id, last) = id
      BY <1>6, <2>1 DEF OpensBlock, ClosesBlock, EndedByWord
    <3> QED BY <2>1, <2>5, <3>1, <3>2 DEF BlocksAfter
  <2> QED BY <1>2, <1>3, <1>4, <1>6, <2>6, <2>7, <2>8, TrackedAgain
<1>7. CASE id # "END" /\ last # "END" /\ id \in BlockKeywords /\ last \in LineStart
  <2>1. id \notin Closers
    BY <1>7 DEF Closers, BlockKeywords
  <2>2. Nested(s, <<id>> \o blocks) /\ Outermost(<<id>> \o blocks)
    BY <1>7 DEF Tracked, StillToClose, Opened, Opening
  <2>3. blocks2 = <<id>> \o blocks
    <3>1. OpensBlock(id, last) /\ ClosesBlock(id, last) = "nothing"
      BY <1>7 DEF OpensBlock, ClosesBlock, LineStart, BlockKeywords
    <3> QED BY <3>1 DEF BlocksAfter
  <2>4. Nested(Tail(s), <<id>> \o blocks) /\ IsSeq(<<id>> \o blocks)
    BY <1>1, <2>1, <2>2, NestedPop, OneMore
  <2> QED BY <1>2, <1>3, <1>4, <1>7, <2>2, <2>3, <2>4, TrackedAgain
<1>8. CASE id # "END" /\ last # "END" /\ ~(id \in BlockKeywords /\ last \in LineStart)
  <2>1. Nested(s, blocks) /\ Outermost(blocks)
    BY <1>8, TrackedPlain
  <2>2. ~OpensBlock(id, last)
    BY <1>1, <1>8 DEF OpensBlock, MayFollow, BlockKeywords, EndedByWord, JumpWords, LineStart
  <2>3. CASE id \in {"LOOP", "NEXT"}
    <3>1. Len(blocks) > 0 /\ Nested(Tail(s), Tail(blocks)) /\ Head(blocks) = ClosedIn(s, 1)
      BY <2>1, <2>3, NestedClose DEF Closers
    <3>2. ClosedIn(s, 1) = ClosesBlock(id, last) /\ ClosesBlock(id, last) # "nothing"
      <4>1. s[1] = id
        BY <1>1, OneLess
      <4> QED BY <1>8, <2>3, <4>1 DEF ClosedIn, ClosesBlock
    <3>3. IsSeq(Tail(blocks)) /\ Outermost(Tail(blocks)) /\ blocks # << >>
      BY <1>1, <2>1, <3>1, OneLess, OutermostTail, NoMore
    <3>4. blocks2 = Tail(blocks)
      BY <2>2, <3>1, <3>2, <3>3 DEF BlocksAfter
    <3> QED BY <1>2, <1>3, <1>4, <1>8, <3>1, <3>3, <3>4, TrackedAgain
  <2>4. CASE id \notin {"LOOP", "NEXT"}
    <3>1. id \notin Closers /\ blocks2 = blocks
      BY <1>8, <2>2, <2>4 DEF Closers, BlocksAfter, ClosesBlock
    <3>2. Nested(Tail(s), blocks)
      BY <2>1, <3>1, NestedPop
    <3> QED BY <1>1, <1>2, <1>3, <1>4, <1>8, <2>1, <3>1, <3>2, TrackedAgain
  <2> QED BY <2>3, <2>4
<1> QED BY <1>5, <1>6, <1>7, <1>8
-----------------------------------------------------------------------------
LEMMA PutAdjacent ==
    ASSUME NEW s, IsSeq(s), Len(s) > 0, Adjacent(s), NEW p, IsSeq(p), Len(p) > 0, Runs(p),
           p[Len(p)] # "END", Head(s) = "NT_GLOBAL_STMT" => p[Len(p)] = "NT_GLOBAL_STMT",
           Head(s) \notin {"EOL", "END", "DECLARE"} \cup JumpWords
    PROVE  Adjacent(p \o Tail(s))
<1> PICK S1 : s \in Seq(S1)
  BY DEF IsSeq
<1> PICK S2 : p \in Seq(S2)
  BY DEF IsSeq
<1> DEFINE S == S1 \cup S2
           t == Tail(s)
           q == p \o t
           n == Len(p)
<1>1. IsSeq(t) /\ Len(s) \in Nat \ {0} /\ Len(t) = Len(s) - 1 /\ Adjacent(t)
      /\ (Len(t) > 0 => MayPrecede(Head(s), Head(t)))
  BY OneLess, TailAdjacent
<1>2. t \in Seq(S) /\ p \in Seq(S) /\ n \in Nat \ {0}
  <2>1. s # << >>
    BY NoMore
  <2>2. t \in Seq(S1)
    BY <2>1, HeadTailProperties
  <2> QED BY <2>2, LenProperties
<1>3. Len(q) = n + Len(t) /\ \A k \in 1 .. n + Len(t) : q[k] = IF k <= n THEN p[k] ELSE t[k - n]
  BY <1>2, ConcatProperties
<1>4. Len(t) > 0 => Head(t) = t[1]
  BY <1>1, OneLess
<1> HIDE DEF t, q, n, S
<1> SUFFICES ASSUME NEW k \in 1 .. Len(q) - 1
             PROVE  MayPrecede(q[k], q[k + 1])
  BY DEF Adjacent, q, t
<1>5. k \in 1 .. n + Len(t) /\ k + 1 \in 1 .. n + Len(t)
  BY <1>1, <1>2, <1>3
<1>6. CASE k + 1 <= n
  <2>1. k <= n /\ k \in 1 .. n - 1
    BY <1>2, <1>5, <1>6
  <2>2. q[k] = p[k] /\ q[k + 1] = p[k + 1]
    BY <1>3, <1>5, <1>6, <2>1
  <2>3. MayPrecede(p[k], p[k + 1])
    BY <2>1 DEF Runs, n
  <2> QED BY <2>2, <2>3
<1>7. CASE k = n
  <2>1. Len(t) > 0 /\ k <= n /\ ~(k + 1 <= n) /\ (k + 1) - n = 1
    BY <1>1, <1>2, <1>5, <1>7
  <2>2. q[k] = p[n] /\ q[k + 1] = t[1]
    BY <1>3, <1>5, <1>7, <2>1
  <2>3. MayPrecede(Head(s), t[1])
    BY <1>1, <1>4, <2>1
  <2>4. p[n] # "END" /\ (Head(s) = "NT_GLOBAL_STMT" => p[n] = "NT_GLOBAL_STMT")
    BY DEF n
  <2> QED BY <2>2, <2>3, <2>4 DEF MayPrecede
<1>8. CASE k > n
  <2>1. ~(k <= n) /\ ~(k + 1 <= n) /\ (k + 1) - n = (k - n) + 1 /\ k - n \in 1 .. Len(t) - 1
    BY <1>1, <1>2, <1>5, <1>8
  <2>2. q[k] = t[k - n] /\ q[k + 1] = t[(k - n) + 1]
    BY <1>3, <1>5, <2>1
  <2> QED BY <1>1, <2>1, <2>2 DEF Adjacent
<1> QED BY <1>2, <1>5, <1>6, <1>7, <1>8

\* What follows after a rule was applied
LEMMA RuleFollows ==
    ASSUME NEW s, IsSeq(s), Len(s) > 0, NEW last, Following(s, last), NEW r \in grammar_rules,
           Head(s) = r.for_nt
    PROVE  /\ Following(r.production \o Tail(s), last)
           /\ last # "END" /\ r.for_nt \notin BlockKeywords
           /\ r.for_nt \in Starting => last \in LineStart
           /\ r.for_nt = "NT_LOOP_TYPE" => last \in JumpWords
           /\ Len(r.production) = 0 /\ Len(Tail(s)) > 0 => Head(Tail(s)) \notin BlockKeywords
<1> DEFINE p == r.production
           nt == r.for_nt
           t == Tail(s)
<1>1. RuleJoins(nt, p) /\ Runs(p) /\ RuleGoesOn(nt, p) /\ IsSeq(p)
  BY RulesJoin, RulesRun, GlobalsGoOn, ProductionIsSeq
<1>2. nt \in Openers => RuleOpens(nt, p)
  BY OpenersOpen
<1>3. nt = "NT_DO_STMT_END" => RuleTests(nt, p)
  BY TestsClose
<1>4. nt \notin Openers \cup {"NT_DO_STMT_END"} => RulePlain(nt, p)
  BY OthersArePlain
<1>5. Head(s) = nt
  OBVIOUS
<1>6. Adjacent(s) /\ MayFollow(last, nt)
  BY DEF Following
<1>7. IsSeq(t) /\ Adjacent(t) /\ (Len(t) > 0 => MayPrecede(nt, Head(t)))
  BY <1>6, OneLess, TailAdjacent
<1> HIDE DEF p, nt, t
<1>8. nt \notin BlockKeywords \cup JumpWords \cup {"EOL", "END", "DECLARE"}
  BY <1>1 DEF RuleJoins
<1>9. last # "END"
  BY <1>6, <1>8 DEF MayFollow, EndedByWord, BlockKeywords
<1>10. (nt \in Starting => last \in LineStart) /\ (nt = "NT_LOOP_TYPE" => last \in JumpWords)
  BY <1>6 DEF MayFollow
<1>11. Len(t) > 0 => Head(t) \notin BlockKeywords
  BY <1>7, <1>8 DEF MayPrecede, BlockKeywords, EndedByWord
<1>12. /\ Len(p) \in Nat /\ (Len(p) > 0 <=> p # << >>)
       /\ Len(p) > 0 => Len(p \o t) > 0 /\ Head(p \o t) = p[1]
       /\ Len(p) = 0 => p \o t = t
  BY <1>1, <1>7, NoMore, PutOn
<1>15. SUFFICES Following(p \o t, last)
  BY <1>8, <1>9, <1>10, <1>11 DEF p, t, nt
<1>13. CASE Len(p) = 0
  <2>1. Len(t) > 0 => MayFollow(last, Head(t))
    BY <1>6, <1>7, <1>8, <1>9 DEF MayPrecede, MayFollow, EndedByWord, BlockKeywords, JumpWords, Starting
  <2> QED BY <1>7, <1>12, <1>13, <2>1 DEF Following
<1>14. CASE Len(p) > 0
  <2>1. p[Len(p)] # "END"
    <3>1. ClosesNothing(p) \/ \E word : ClosesOnce(p, word)
      BY <1>2, <1>3, <1>4 DEF RuleOpens, RuleTests, RulePlain
    <3>2. Len(p) \in 1 .. Len(p) /\ ~(Len(p) < Len(p))
      BY <1>12, <1>14
    <3> QED BY <3>1, <3>2 DEF ClosesNothing, ClosesOnce, Closers
  <2>2. nt = "NT_GLOBAL_STMT" => p[Len(p)] = "NT_GLOBAL_STMT"
    BY <1>1, <1>14 DEF RuleGoesOn
  <2>3. Adjacent(p \o t)
    BY <1>1, <1>5, <1>6, <1>8, <1>14, <2>1, <2>2, PutAdjacent DEF t
  <2>4. /\ p[1] # "NT_LOOP_TYPE"
        /\ p[1] \in Starting \cup EndedByWord => nt \in Starting
        /\ p[1] \in {"DO", "FOR"} => nt \in Starting \cup {"NT_LOOP_TYPE"}
    BY <1>1, <1>12, <1>14 DEF RuleJoins
  <2>5. MayFollow(last, p[1])
    BY <1>9, <1>10, <2>4 DEF MayFollow
  <2> QED BY <1>12, <1>14, <2>3, <2>5 DEF Following
<1> QED BY <1>12, <1>13, <1>14

LEMMA RuleTracked ==
    ASSUME NEW s, NEW last, NEW blocks, Tracked(s, last, blocks), Len(s) > 0,
           NEW r \in grammar_rules, Head(s) = r.for_nt, r.for_nt = "NT_FUNC_DEF" => Len(blocks) = 0
    PROVE  Tracked(r.production \o Tail(s), last, blocks)
<1> DEFINE p == r.production
           nt == r.for_nt
           t == Tail(s)
           s2 == p \o t
<1>1. IsSeq(s) /\ IsSeq(blocks) /\ Following(s, last)
  BY DEF Tracked
<1>2. /\ Following(s2, last) /\ last # "END" /\ nt \notin BlockKeywords
      /\ nt \in Starting => last \in LineStart
      /\ nt = "NT_LOOP_TYPE" => last \in JumpWords
      /\ Len(p) = 0 /\ Len(t) > 0 => Head(t) \notin BlockKeywords
  BY <1>1, RuleFollows
<1>3. IsSeq(p) /\ IsSeq(t) /\ Head(s) = nt
  BY <1>1, ProductionIsSeq, OneLess
<1>4. nt \in Openers => RuleOpens(nt, p)
  BY OpenersOpen
<1>5. nt = "NT_DO_STMT_END" => RuleTests(nt, p)
  BY TestsClose
<1>6. nt \notin Openers \cup {"NT_DO_STMT_END"} => RulePlain(nt, p)
  BY OthersArePlain
<1>7. Nested(s, blocks) /\ Outermost(blocks)
  BY <1>2, <1>3, TrackedPlain
<1>8. nt \notin Closers => Nested(t, blocks)
  BY <1>3, <1>7, NestedPop
<1>9. nt \in Closers => Len(blocks) > 0 /\ Nested(t, Tail(blocks)) /\ Head(blocks) = ClosedIn(s, 1)
  BY <1>3, <1>7, NestedClose
<1>10. s[1] = nt
  BY <1>1, <1>3, OneLess
<1>11. (nt = "NT_FUNC_DEF" => Len(blocks) = 0)
  OBVIOUS
<1> HIDE DEF p, nt, t
<1>12. /\ IsSeq(s2) /\ Len(p) \in Nat /\ Len(t) \in Nat /\ (Len(p) > 0 <=> p # << >>)
       /\ Len(p) > 0 => Len(s2) > 0 /\ Head(s2) = p[1]
       /\ Len(p) = 0 => s2 = t
  BY <1>3, PutOn, NoMore
<1> HIDE DEF s2
<1>16. SUFFICES Tracked(s2, last, blocks)
  BY DEF s2, p, t
<1>13. CASE nt \in Openers
  <2>1. nt \in Starting /\ Len(p) > 0 /\ p[1] \in BlockKeywords /\ ClosesOnce(p, p[1]) /\ last \in LineStart
        /\ nt \notin Closers /\ (p[1] = "FUNCTION" => nt = "NT_FUNC_DEF")
    BY <1>2, <1>4, <1>12, <1>13 DEF RuleOpens, Starting, Closers
  <2>2. Nested(s2, <<p[1]>> \o blocks)
    BY <1>3, <1>8, <2>1, NestedOpen DEF s2
  <2>3. Outermost(<<p[1]>> \o blocks)
    <3> DEFINE B == <<p[1]>> \o blocks
    <3>1. /\ Len(B) = Len(blocks) + 1 /\ Len(blocks) \in Nat /\ B[1] = p[1]
          /\ \A k \in 1 .. Len(blocks) : B[k + 1] = blocks[k]
      BY <1>1, OneMore
    <3> HIDE DEF B
    <3>2. ASSUME NEW k \in 1 .. Len(B), B[k] = "FUNCTION"
          PROVE  k = Len(B)
      <4>1. CASE k = 1
        BY <1>11, <2>1, <3>1, <3>2, <4>1
      <4>2. CASE k # 1
        <5>1. k - 1 \in 1 .. Len(blocks) /\ (k - 1) + 1 = k
          BY <3>1, <4>2
        <5>2. blocks[k - 1] = "FUNCTION"
          BY <3>1, <3>2, <5>1
        <5> QED BY <1>7, <3>1, <5>1, <5>2 DEF Outermost
      <4> QED BY <4>1, <4>2
    <3> QED BY <3>2 DEF Outermost, B
  <2>4. Opened(s2, last, blocks) = <<p[1]>> \o blocks /\ StillToClose(s2, last) = s2
    BY <1>2, <1>12, <2>1 DEF Opened, Opening, StillToClose
  <2> QED BY <1>1, <1>2, <1>12, <2>2, <2>3, <2>4 DEF Tracked
<1>14. CASE nt = "NT_DO_STMT_END"
  <2>1. Len(p) > 0 /\ p[1] \notin BlockKeywords /\ ClosesOnce(p, "DO") /\ nt \in Closers
    BY <1>5, <1>12, <1>14 DEF RuleTests, Closers
  <2>2. ClosedIn(s, 1) = "DO"
    BY <1>10, <1>14 DEF ClosedIn
  <2>3. Nested(s2, <<"DO">> \o Tail(blocks))
    BY <1>3, <1>9, <2>1, NestedOpen DEF s2
  <2>4. <<"DO">> \o Tail(blocks) = blocks
    BY <1>1, <1>9, <2>1, <2>2, OneLess
  <2> QED BY <1>1, <1>2, <1>7, <1>12, <2>1, <2>3, <2>4, TrackedAgain
<1>15. CASE nt \notin Openers \cup {"NT_DO_STMT_END"}
  <2>1. nt \notin Closers /\ ClosesNothing(p) /\ (p # << >> /\ p[1] \in BlockKeywords => nt = "NT_LOOP_TYPE")
    BY <1>6, <1>15 DEF RulePlain
  <2>2. Nested(s2, blocks)
    BY <1>3, <1>8, <2>1, NestedPut DEF s2
  <2>3. Len(s2) > 0 => ~(Head(s2) \in BlockKeywords /\ last \in LineStart)
    <3>1. CASE Len(p) > 0
      BY <1>2, <1>12, <2>1, <3>1 DEF LineStart, JumpWords
    <3>2. CASE Len(p) = 0
      BY <1>2, <1>12, <3>2
    <3> QED BY <1>12, <3>1, <3>2
  <2> QED BY <1>1, <1>2, <1>7, <1>12, <2>2, <2>3, TrackedAgain
<1> QED BY <1>13, <1>14, <1>15

\* What the program itself still has to match closes no block.
LEMMA ProgramClosesNothing ==
    ASSUME NEW s, NEW t, Nested(s, t), NEW m, m = Len(s), NEW sym, sym = Flip(s),
           NEW own, NEW lab, NEW cur, NEW n, NEW an, Heights(m, sym, own, lab, cur, n, an), own[m] = 0
    PROVE  Len(t) = 0
<1>1. PICK c : Counts(m, sym, Len(t), c)
  BY DEF Nested, Nests
<1>2. m \in Nat /\ Ordered(m, own, n) /\ Placed(m, sym, own, lab, an)
  BY DEF Heights, Ordered
<1>3. ASSUME NEW h \in 1 .. m
      PROVE  sym[h] \notin Closers
  <2>1. own[h] = 0
    BY <1>2 DEF Ordered
  <2>2. <<lab[h], sym[h], Below(own, lab, h)>> \in ProgramPlaces
    BY <1>2, <2>1, Tabled DEF Placed, ActionAt
  <2> QED BY <2>2 DEF ProgramPlaces, Closers
<1> DEFINE S == {h \in Nat : h <= m => c[h] = 0}
<1>4. 0 \in S
  BY <1>1 DEF Counts
<1>5. ASSUME NEW h \in Nat, h \in S
      PROVE  h + 1 \in S
  <2>1. SUFFICES ASSUME h + 1 <= m PROVE c[h + 1] = 0
    OBVIOUS
  <2>2. h + 1 \in 1 .. m /\ (h + 1) - 1 = h /\ c[h] = 0
    BY <1>2, <1>5, <2>1
  <2>3. c[h + 1] = c[h] + CloserAt(sym, h + 1)
    BY <1>1, <2>2 DEF Counts
  <2> QED BY <1>3, <2>2, <2>3 DEF CloserAt
<1>6. m \in S
  BY <1>2, <1>4, <1>5, Induction
<1> QED BY <1>1, <1>2, <1>6 DEF Counts

LEMMA FunctionsAreOutermost ==
    ASSUME TInv, pc = "rewrite", Top = "NT_FUNC_DEF", Tracked(dtree_stack, last_matched, open_blocks)
    PROVE  Len(open_blocks) = 0
<1>1. Paired(dtree_stack, owners, parser.sem_an_stack)
  BY DEF TInv, Working, StacksPaired
<1>2. PICK m, lab, cur : /\ Under(dtree_stack, owners, m)
                         /\ Coupled(m, Flip(dtree_stack), Flip(owners), lab, cur,
                                    Len(parser.sem_an_stack), Flip(parser.sem_an_stack))
  BY <1>1, PairedUnder
<1> DEFINE n == Len(parser.sem_an_stack)
           an == Flip(parser.sem_an_stack)
           sym == Flip(dtree_stack)
           own == Flip(owners)
<1>3. /\ Coupled(m, sym, own, lab, cur, n, an) /\ sym[m] = "NT_FUNC_DEF" /\ m = Len(dtree_stack)
      /\ Head(dtree_stack) = "NT_FUNC_DEF" /\ Len(dtree_stack) > 0 /\ sym = Flip(dtree_stack)
  BY <1>2 DEF Under, Top
<1> HIDE DEF n, an, sym, own
<1>4. own[m] = 0
  <2>1. SUFFICES ASSUME own[m] # 0 PROVE FALSE
    OBVIOUS
  <2>2. an[own[m]].sem_action \in Actions
    <3>1. <<an[own[m]].state, AboveAt(n, an, own[m]), lab[m]>> \in Rows(an[own[m]].sem_action)
      BY <1>3, <2>1, OwnerWaits
    <3> QED BY <3>1, RowsHaveActions
  <2>3. OnTop(m, sym, own, lab, cur, n, an)
    BY <1>3, TopHeight DEF Coupled
  <2>4. <<lab[m], "NT_FUNC_DEF", Below(own, lab, m)>> \in Places(an[own[m]].sem_action)
    BY <1>3, <2>1, <2>3 DEF OnTop, ActionAt
  <2>5. "NT_FUNC_DEF" \in Starters \ Statements /\ an[own[m]].sem_action \in AllActions
    BY <2>2 DEF Starters, Statements, AllActions
  <2>6. an[own[m]].sem_action = "program"
    BY <2>4, <2>5, WhereStarters
  <2> QED BY <2>2, <2>6 DEF Actions
<1>5. last_matched # "END"
  BY <1>3 DEF Tracked, Following, MayFollow, EndedByWord
<1>6. Nested(dtree_stack, open_blocks)
  BY <1>3, <1>5, TrackedPlain DEF BlockKeywords
<1>7. Heights(m, sym, own, lab, cur, n, an)
  BY <1>3 DEF Coupled
<1> QED BY <1>3, <1>4, <1>6, <1>7, ProgramClosesNothing

LEMMA InitTracks ==
    ASSUME TInit, NEW s, s = dtree_stack
    PROVE  BInv
<1>1. /\ s = <<"NT_LINE", "EOF">> /\ last_matched = "none" /\ open_blocks = << >> /\ parser = parser_init
  BY DEF TInit, Init
<1>2. IsSeq(s) /\ Len(s) = 2 /\ s[1] = "NT_LINE" /\ s[2] = "EOF" /\ Head(s) = "NT_LINE"
  <2> DEFINE o == <<0, 0>>
  <2>1. o = <<0, 0>>
    OBVIOUS
  <2> HIDE DEF o
  <2>2. IsSeq(s) /\ Len(s) = 2
    BY <1>1, <2>1, InitPaired
  <2>3. s[1] = "NT_LINE" /\ s[2] = "EOF" /\ Head(s) = "NT_LINE"
    BY <1>1
  <2> QED BY <2>2, <2>3
<1>3. IsSeq(<< >>) /\ Len(<< >>) = 0
  <2>1. << >> \in Seq({})
    OBVIOUS
  <2> QED BY <2>1 DEF IsSeq
<1>4. Nested(<< >>, << >>)
  <2> DEFINE c == [h \in {0} |-> 0]
  <2>1. c[0] = 0 /\ 0 .. 0 = {0} /\ 1 .. 0 = {}
    OBVIOUS
  <2> HIDE DEF c
  <2>2. Counts(0, Flip(<< >>), 0, c) /\ ClosesBlocks(0, Flip(<< >>), Flip(<< >>), c)
    BY <2>1 DEF Counts, ClosesBlocks
  <2> QED BY <1>3, <2>2 DEF Nested, Nests
<1>5. Nested(s, << >>)
  <2>1. ClosesNothing(s)
    BY <1>2 DEF ClosesNothing, Closers
  <2>2. s \o << >> = s
    BY <1>2, ConcatEmptySeq DEF IsSeq
  <2>3. Nested(s \o << >>, << >>)
    BY <1>2, <1>4, <2>1, NestedPut
  <2> QED BY <2>2, <2>3
<1>6. Following(s, "none")
  BY <1>2 DEF Following, Adjacent, MayPrecede, MayFollow, Starting, EndedByWord, LineStart
<1>7. Outermost(<< >>)
  BY <1>3 DEF Outermost
<1>8. Tracked(s, "none", << >>)
  BY <1>2, <1>3, <1>5, <1>6, <1>7, TrackedAgain DEF BlockKeywords
<1>9. DefsGone(parser, LineEnds)
  <2>1. Height(parser) = 0
    BY <1>1 DEF Height, parser_init
  <2> QED BY <2>1 DEF DefsGone
<1> QED BY <1>1, <1>8, <1>9 DEF BInv
-----------------------------------------------------------------------------
LEMMA NoDefBegan ==
    ASSUME NEW p, NEW q, DefsGone(p, FALSE), EndsDefs(p, q, FALSE), NEW ends
    PROVE  DefsGone(q, ends)
  BY DEF DefsGone, EndsDefs

LEMMA SymbolsOnTop ==
    ASSUME TInv, pc \in {"rewrite", "expression"}
    PROVE  /\ Len(dtree_stack) > 0 /\ Paired(dtree_stack, owners, parser.sem_an_stack)
           /\ EndOnTop <=> Top = "EOL"
           /\ LineEnds <=> EndOnTop
<1>1. Paired(dtree_stack, owners, parser.sem_an_stack)
  BY DEF TInv, Working, StacksPaired
<1>2. PICK m : m \in Nat \ {0} /\ Len(dtree_stack) = m
  BY <1>1, PairedUnder DEF Under
<1> QED BY <1>1, <1>2 DEF EndOnTop, LineEnds, Top

\* The steps of parse() that leave the stacks alone
LEMMA SameTracks ==
    ASSUME BInv, pc # "done", UNCHANGED <<dtree_stack, last_matched, open_blocks, parser>>,
           pc' \in {"rewrite", "expression"}, pc # "semantics"
    PROVE  BInv'
<1>1. LineEnds' <=> LineEnds
  BY DEF LineEnds, EndOnTop
<1> QED BY <1>1 DEF BInv, DefsGone

LEMMA ApplyRuleTracks ==
    ASSUME TInv, BInv, NEW r \in grammar_rules, ApplyRule(r)
    PROVE  BInv'
<1>1. /\ pc = "rewrite" /\ Top = r.for_nt /\ dtree_stack' = r.production \o Tail(dtree_stack)
      /\ UNCHANGED <<pc, last_matched, open_blocks>>
  BY DEF ApplyRule, Rewrite, get_rule_from_ll_table, history
<1>2. Len(dtree_stack) > 0 /\ Tracked(dtree_stack, last_matched, open_blocks) /\ ~LineEnds
  BY <1>1, SymbolsOnTop, RulesReplace DEF BInv, Ends
<1>3. r.for_nt = "NT_FUNC_DEF" => Len(open_blocks) = 0
  BY <1>1, <1>2, FunctionsAreOutermost
<1>4. Tracked(dtree_stack', last_matched, open_blocks)
  BY <1>1, <1>2, <1>3, RuleTracked DEF Top
<1>5. DefsGone(parser', LineEnds')
  <2>1. EndsDefs(parser, parser', FALSE)
    BY ApplyRuleKeeps
  <2>2. DefsGone(parser, FALSE)
    BY <1>1, <1>2 DEF BInv, DefsGone
  <2> QED BY <2>1, <2>2, NoDefBegan
<1> QED BY <1>1, <1>4, <1>5 DEF BInv

LEMMA MatchTokenTracks ==
    ASSUME TInv, BInv, MatchToken
    PROVE  BInv'
<1>1. /\ pc = "rewrite" /\ Top = token.id /\ token.id \notin Nonterminals /\ pc' = "semantics"
      /\ dtree_stack' = Tail(dtree_stack) /\ last_matched' = token.id
      /\ open_blocks' = BlocksAfterMatch /\ parser' = parser
  BY DEF MatchToken, Match, TokenMatches, GoTo
<1>2. /\ Len(dtree_stack) > 0 /\ Tracked(dtree_stack, last_matched, open_blocks)
      /\ LineEnds <=> Top = "EOL"
  BY <1>1, SymbolsOnTop DEF BInv
<1>3. BlocksAfterMatch = BlocksAfter(token.id, last_matched, open_blocks)
  BY DEF BlocksAfterMatch, BlocksAfter, Opens, Closes, OpensBlock, ClosesBlock
<1>4. token.id \notin {"NT_GLOBAL_STMT", "NT_DO_STMT_END"}
  BY <1>1, NamesAreNonterminals DEF Names
<1>5. Tracked(Tail(dtree_stack), token.id, BlocksAfter(token.id, last_matched, open_blocks))
  BY <1>1, <1>2, <1>4, MatchTracked DEF Top
<1>6. LineEnds => LineEnds'
  BY <1>1, <1>2 DEF LineEnds
<1>7. DefsGone(parser, LineEnds)
  BY <1>1 DEF BInv
<1> QED BY <1>1, <1>3, <1>5, <1>6, <1>7 DEF BInv, DefsGone

LEMMA ExpressionTracks ==
    ASSUME TInv, BInv, Expression
    PROVE  BInv'
<1>1. /\ pc = "expression" /\ Top = "NT_EXPRESSION" /\ dtree_stack' = Tail(dtree_stack)
      /\ last_matched' = "expression" /\ pc' = "get_token" /\ open_blocks' = open_blocks
  BY DEF Expression, ExpressionEnds, GoTo, TInv, Working
<1>2. Len(dtree_stack) > 0 /\ Tracked(dtree_stack, last_matched, open_blocks) /\ ~LineEnds
  BY <1>1, SymbolsOnTop DEF BInv
<1>3. Tracked(Tail(dtree_stack), "expression", open_blocks)
  BY <1>1, <1>2, ExpressionTracked DEF Top
<1>4. DefsGone(parser', LineEnds')
  <2>1. EndsDefs(parser, parser', FALSE)
    BY ExpressionKeeps
  <2>2. DefsGone(parser, FALSE)
    BY <1>1, <1>2 DEF BInv, DefsGone
  <2> QED BY <2>1, <2>2, NoDefBegan
<1> QED BY <1>1, <1>3, <1>4 DEF BInv

LEMMA FlushFinishedTracks ==
    ASSUME TInv, BInv, FlushFinished
    PROVE  BInv'
<1>1. pc = "semantics" /\ UNCHANGED <<pc, dtree_stack, last_matched, open_blocks>>
  BY DEF FlushFinished, vars, history
<1>2. EndsDefs(parser, parser', FALSE) /\ Height(parser') = Height(parser) - 1
  BY FlushFinishedKeeps
<1>3. Height(parser) \in Nat
  BY <1>1, Lengths DEF TInv, Working, Kept, Fit, Height
<1>4. DefsGone(parser, LineEnds)
  BY <1>1 DEF BInv
<1>5. DefsGone(parser', LineEnds')
  <2> SUFFICES ASSUME NEW d \in 1 .. Height(parser'), DefOver(Frames(parser')[d]) PROVE FALSE
    BY DEF DefsGone
  <2>1. d \in 1 .. Height(parser) /\ DefOver(Frames(parser)[d])
    BY <1>2 DEF EndsDefs
  <2>2. d = Height(parser)
    BY <1>4, <2>1 DEF DefsGone
  <2> QED BY <1>2, <1>3, <2>2
<1> QED BY <1>1, <1>5 DEF BInv

LEMMA PassTokenTracks ==
    ASSUME TInv, BInv, PassToken
    PROVE  BInv'
<1>1. SUFFICES ASSUME pc' # "done" PROVE BInv'
  BY DEF BInv
<1>2. /\ pc = "semantics" /\ ~FinishedOnTop /\ pc' = "get_token"
      /\ UNCHANGED <<dtree_stack, last_matched, open_blocks>>
  BY <1>1 DEF PassToken, SemanticsDone, GoTo, history
<1>3. EndsDefs(parser, parser', EndOnTop)
  BY <1>1, PassTokenKeeps
<1>4. DefsGone(parser, LineEnds) /\ Fit(parser)
  BY <1>2 DEF BInv, TInv, Working, Kept
<1>5. ASSUME NEW d \in 1 .. Height(parser), DefOver(Frames(parser)[d])
      PROVE  FALSE
  <2>1. d = Height(parser) /\ Over(Frames(parser)[Height(parser)])
    BY <1>4, <1>5 DEF DefsGone, DefOver
  <2>2. Height(parser) > 0
    BY <1>4, <2>1, Lengths DEF Fit, Height
  <2> QED BY <1>2, <1>4, <2>1, <2>2, TopFrame DEF FinishedOnTop
<1>6. LineEnds' <=> EndOnTop
  BY <1>2 DEF LineEnds, EndOnTop
<1>7. DefsGone(parser', LineEnds')
  BY <1>3, <1>5, <1>6 DEF DefsGone, EndsDefs
<1> QED BY <1>2, <1>7 DEF BInv

LEMMA StepTracks == TInv /\ BInv /\ [TNext]_allvars => BInv'
<1>1. CASE TInv /\ BInv /\ UNCHANGED allvars
  <2>1. UNCHANGED <<pc, dtree_stack, last_matched, open_blocks, parser>>
    BY <1>1 DEF allvars, vars, translation, history
  <2>2. LineEnds' <=> LineEnds
    BY <2>1 DEF LineEnds, EndOnTop
  <2> QED BY <1>1, <2>1, <2>2 DEF BInv, DefsGone
<1>2. CASE TInv /\ BInv /\ TNext
  <2>1. CASE GetToken \/ GoToExpression
    <3>1. /\ pc # "done" /\ pc # "semantics" /\ pc' \in {"rewrite", "expression", "done"}
          /\ UNCHANGED <<dtree_stack, last_matched, open_blocks, parser>>
      BY <2>1 DEF GetToken, TakeBacklog, ReadToken, Consider, GoToExpression, CallExpression, GoTo, Fail,
                  history, translation
    <3>2. CASE pc' = "done"
      BY <3>2 DEF BInv
    <3> QED BY <1>2, <3>1, <3>2, SameTracks
  <2>2. CASE Refuse \/ BadExpression \/ FlushFails \/ TokenRefused
    <3>1. pc' = "done"
      BY <2>2 DEF Refuse, NoRule, Mismatch, BadExpression, ExpressionFails, FlushFails, TokenRefused,
                  SemanticsFail, Fail
    <3> QED BY <3>1 DEF BInv
  <2> QED BY <1>2, <2>1, <2>2, ApplyRuleTracks, MatchTokenTracks, ExpressionTracks, FlushFinishedTracks,
             PassTokenTracks DEF TNext
<1> QED BY <1>1, <1>2

LEMMA BInvariant == TSpec => [](TInv /\ BInv)
<1>1. TInit => BInv
  BY InitTracks
<1> QED BY <1>1, InitKeeps, StepKeeps, StepTracks, PTL DEF TSpec
-----------------------------------------------------------------------------
(* Where the rules of a block end, and which analyzers have a table        *)
LEMMA ClosersEnd ==
    ASSUME NEW action, NEW i, NEW s, NEW j, <<i, s, j>> \in Places(action)
    PROVE  EndsAt(i, s, j, action)
<1>1. action \in AllActions
  BY PlacesHaveActions
<1> USE DEF EndsAt, OpenPlaces, Closers, Statements, Matches
<1>2. CASE action = "program"
  BY <1>2, Tabled DEF ProgramPlaces
<1>3. CASE action = "sem_scope"
  BY <1>3, Tabled DEF ScopePlaces
<1>4. CASE action = "sem_condition"
  BY <1>4, Tabled, SMTT(60) DEF ConditionPlaces
<1>5. CASE action = "sem_do_loop"
  BY <1>5, Tabled, SMTT(60) DEF DoPlaces
<1>6. CASE action = "sem_for_loop"
  BY <1>6, Tabled, SMTT(60) DEF ForPlaces, TypeSymbols, Types
<1>7. CASE action = "sem_func_def"
  BY <1>7, Tabled, SMTT(60) DEF DefPlaces, TypeSymbols, Types
<1>8. CASE action \notin {"program", "sem_scope", "sem_condition", "sem_do_loop", "sem_for_loop", "sem_func_def"}
  <2>1. OpenPlaces(action) = {}
    BY <1>8
  <2>2. s \notin Closers \cup {"NT_INNER_STMT"} /\ (s = "DECLARE" => j # 0)
    <3> HIDE DEF OpenPlaces
    <3> QED BY <1>1, <1>8, Tabled, SMTT(60) DEF AllActions, Actions, PrintPlaces, InputPlaces, AssignPlaces, ReturnPlaces,
           JumpPlaces, VarPlaces, ParamPlaces, DeclPlaces, TypeSymbols, Types, AssignOperators
  <2> QED BY <2>1, <2>2
<1> QED BY <1>2, <1>3, <1>4, <1>5, <1>6, <1>7, <1>8

\* In the states a statement may be in where another one starts in its block
\* it has a table.
LEMMA BlocksHaveTables ==
    ASSUME NEW action, NEW state, NEW above, NEW i, <<state, above, i>> \in Rows(action),
           \/ above = "other"
           \/ \E j : <<i, "NT_INNER_STMT", j>> \in Places(action)
    PROVE  /\ <<action, state>> \in OneTable
           /\ i \in OpenPlaces(action) \/ (i = 1 /\ action \in {"sem_scope", "sem_func_def"})
<1>1. action \in AllActions
  BY RowsHaveActions DEF AllActions
<1>2. CASE above = "other"
  <2> USE <1>2 DEF OpenPlaces, OneTable
  <2>1. <<action, state>> \in OneTable
    BY OpenStates
  <2>2. action \in {"sem_scope", "sem_condition", "sem_do_loop", "sem_for_loop", "sem_func_def"}
    BY OpenStates
  <2>3. CASE action = "sem_scope"
    BY <2>1, <2>3, Tabled DEF ScopeRows
  <2>4. CASE action = "sem_condition"
    BY <2>1, <2>4, Tabled, SMTT(60) DEF ConditionRows
  <2>5. CASE action = "sem_do_loop"
    BY <2>1, <2>5, Tabled, SMTT(60) DEF DoRows
  <2>6. CASE action = "sem_for_loop"
    BY <2>1, <2>6, Tabled, SMTT(60) DEF ForRows
  <2>7. CASE action = "sem_func_def"
    BY <2>1, <2>7, Tabled, SMTT(60) DEF DefRows
  <2> QED BY <2>2, <2>3, <2>4, <2>5, <2>6, <2>7
<1>3. CASE \E j : <<i, "NT_INNER_STMT", j>> \in Places(action)
  <2>1. PICK j : <<i, "NT_INNER_STMT", j>> \in Places(action)
    BY <1>3
  <2>2. "NT_INNER_STMT" \in Starters /\ "NT_INNER_STMT" \notin Starters \ Statements
    BY DEF Starters, Statements
  <2>3. <<action, i, j>> \in {<<"sem_scope", 6, 4>>, <<"sem_condition", 10, 6>>, <<"sem_condition", 15, 13>>,
                              <<"sem_do_loop", 16, 13>>, <<"sem_do_loop", 6, 5>>, <<"sem_for_loop", 17, 4>>,
                              <<"sem_func_def", 15, 4>>}
    BY <1>1, <2>1, <2>2, WhereStarters
  <2>4. i \in OpenPlaces(action)
    BY <2>1, ClosersEnd DEF EndsAt
  <2>5. <<action, state>> \in OneTable
    <3> USE <2>3 DEF OneTable
    <3>1. CASE action = "sem_scope"
      BY <3>1, Tabled DEF ScopeRows
    <3>2. CASE action = "sem_condition"
      BY <3>2, Tabled, SMTT(60) DEF ConditionRows
    <3>3. CASE action = "sem_do_loop"
      BY <3>3, Tabled, SMTT(60) DEF DoRows
    <3>4. CASE action = "sem_for_loop"
      BY <3>4, Tabled, SMTT(60) DEF ForRows
    <3>5. CASE action = "sem_func_def"
      BY <3>5, Tabled, SMTT(60) DEF DefRows
    <3> QED BY <3>1, <3>2, <3>3, <3>4, <3>5
  <2> QED BY <2>4, <2>5
<1> QED BY <1>2, <1>3

LEMMA TopOfRule ==
    ASSUME NEW m, NEW sym, NEW own, NEW lab, NEW cur, NEW n, NEW an, Heights(m, sym, own, lab, cur, n, an),
           NEW d \in 0 .. n, cur[d] # 0
    PROVE  \E h \in 1 .. m : own[h] = d /\ lab[h] = cur[d] /\ (h = m \/ own[h + 1] # own[h])
<1> DEFINE LastBy(k) == \E h \in 1 .. k : own[h] = d /\ (h = k \/ own[h + 1] # own[h])
           S == {k \in Nat : (\E h \in 1 .. k : own[h] = d) => LastBy(k)}
<1>1. 0 \in S
  OBVIOUS
<1>2. ASSUME NEW k \in Nat, k \in S
      PROVE  k + 1 \in S
  <2>1. SUFFICES ASSUME NEW h \in 1 .. k + 1, own[h] = d PROVE LastBy(k + 1)
    OBVIOUS
  <2>2. CASE own[k + 1] = d
    <3>1. k + 1 \in 1 .. k + 1
      OBVIOUS
    <3> QED BY <2>2, <3>1
  <2>3. CASE own[k + 1] # d
    <3>1. h \in 1 .. k
      BY <2>1, <2>3
    <3>2. PICK g \in 1 .. k : own[g] = d /\ (g = k \/ own[g + 1] # own[g])
      BY <1>2, <2>1, <3>1
    <3>3. g \in 1 .. k + 1 /\ own[g + 1] # own[g]
      BY <2>3, <3>2
    <3> QED BY <3>2, <3>3
  <2> QED BY <2>2, <2>3
<1>3. m \in S
  BY <1>1, <1>2, Induction DEF Heights, Ordered
<1>4. \E h \in 1 .. m : own[h] = d
  BY DEF Heights, Current
<1>5. LastBy(m)
  BY <1>3, <1>4
<1>6. PICK h \in 1 .. m : own[h] = d /\ (h = m \/ own[h + 1] # own[h])
  BY <1>5
<1>7. cur[own[h]] = lab[h]
  BY <1>6 DEF Heights, Current
<1> QED BY <1>6, <1>7
-----------------------------------------------------------------------------
(* The analyzers at the start of a statement                               *)
Neighbours(m, sym) == \A h \in 1 .. m - 1 : MayPrecede(sym[h + 1], sym[h])

\* Where a statement starts the unfinished analyzers are those at a place at
\* which their block is open, and they have a table.
LEMMA HeldAtStatement ==
    ASSUME NEW m, NEW sym, NEW own, NEW lab, NEW cur, NEW n, NEW an, Coupled(m, sym, own, lab, cur, n, an),
           sym[m] = "NT_INNER_STMT", Neighbours(m, sym), NEW d \in 1 .. n, an[d].finished \in BOOLEAN
    PROVE  HeldAt(an, cur, d)
<1>1. /\ OnTop(m, sym, own, lab, cur, n, an) /\ Heights(m, sym, own, lab, cur, n, an) /\ d \in 0 .. n
      /\ ActionAt(an, d) = an[d].sem_action
  BY TopHeight DEF Coupled, ActionAt
<1> DEFINE action == an[d].sem_action
<1>2. Standing(n, an, cur, d) /\ Heard(n, an, d)
  BY DEF Coupled, Rowed, Voiced
<1>3. 0 \notin OpenPlaces(action) /\ (action = "sem_condition" => 1 \notin OpenPlaces(action))
  BY DEF OpenPlaces
<1>4. CASE Over(an[d])
  <2>1. TablesHeld(an[d]) = 0
    BY <1>4 DEF TablesHeld, TablesOf, Has, Over
  <2>2. cur[d] \notin OpenPlaces(action)
    BY <1>2, <1>3, <1>4 DEF Standing
  <2> QED BY <1>4, <2>1, <2>2 DEF HeldAt, Ind
<1>5. CASE ~Over(an[d])
  <2>1. <<an[d].state, AboveAt(n, an, d), cur[d]>> \in Rows(action) /\ action # "sem_expr_result"
    BY <1>2, <1>5 DEF Standing, Heard
  <2>2. action \in AllActions
    BY <2>1, RowsHaveActions DEF AllActions
  <2>3. SUFFICES ASSUME TRUE
                 PROVE  <<action, an[d].state>> \in OneTable /\ cur[d] \in OpenPlaces(action)
    BY <1>5 DEF HeldAt, Ind, TablesHeld, TablesOf, Has, Over
  <2>4. d <= own[m]
    <3> SUFFICES ASSUME ~(d <= own[m]) PROVE FALSE
      OBVIOUS
    <3>1. d \in own[m] + 1 .. n
      BY <1>1 DEF OnTop
    <3>2. ~Loose(an[d])
      BY <3>1, OnlyEOLsEndStatements DEF Coupled, Heights, Settled
    <3>3. action \in {"sem_scope", "sem_param_decl"}
      BY <1>5, <2>1, <3>2 DEF Loose
    <3>4. cur[d] = 0
      BY <1>1, <3>1 DEF OnTop
    <3> QED BY <2>1, <2>2, <3>3, <3>4, TablesAreOrderly DEF Orderly
  <2>5. CASE d = own[m]
    <3>1. cur[d] = lab[m] /\ <<cur[d], "NT_INNER_STMT", Below(own, lab, m)>> \in Places(action)
      BY <1>1, <2>5 DEF OnTop
    <3>2. cur[d] \in OpenPlaces(action)
      BY <3>1, ClosersEnd DEF EndsAt
    <3> QED BY <2>1, <3>1, <3>2, BlocksHaveTables
  <2>6. CASE d # own[m]
    <3>1. d < own[m] /\ own[m] \in 0 .. n /\ n \in Nat /\ d \in Nat
      BY <1>1, <2>4, <2>6 DEF OnTop
    <3>2. AboveAt(n, an, d) = "other"
      <4>1. d + 1 \in 1 .. n /\ d # n
        BY <3>1
      <4>2. Speaks(an[d + 1]) => d + 1 = n
        BY <4>1 DEF Coupled, Voiced, Heard
      <4>3. ~Speaks(an[d + 1])
        BY <4>1, <4>2, StarterOnTop DEF Starters, Statements
      <4> QED BY <4>1, <4>3 DEF AboveAt, Speaks
    <3>3. cur[d] # 0
      <4>1. Orderly(action, Rows(action), Places(action))
        BY <2>2, TablesAreOrderly
      <4>2. \A state, i : <<state, "other", i>> \in Rows(action) => i # 0
        BY <4>1 DEF Orderly
      <4> QED BY <2>1, <3>2, <4>2
    <3>4. PICK h \in 1 .. m : own[h] = d /\ lab[h] = cur[d] /\ (h = m \/ own[h + 1] # own[h])
      BY <1>1, <3>3, TopOfRule
    <3>5. h \in 1 .. m - 1 /\ h + 1 \in 1 .. m /\ h + 1 > 1 /\ own[h + 1] # own[h] /\ m \in Nat
      BY <1>1, <3>1, <3>4 DEF OnTop
    <3>6. ASSUME cur[d] = 1, action \in {"sem_scope", "sem_func_def"}
          PROVE  FALSE
      <4>1. <<1, sym[h], Below(own, lab, h)>> \in Places(action)
        BY <1>1, <3>4, <3>6 DEF Heights, Placed
      <4>2. sym[h] \in EndedByWord
        BY <3>6, <4>1, Tabled DEF ScopePlaces, DefPlaces, EndedByWord
      <4>3. sym[h + 1] \in {"END", "DECLARE"}
        BY <3>5, <4>2 DEF Neighbours, MayPrecede
      <4>4. <<lab[h + 1], sym[h + 1], Below(own, lab, h + 1)>> \in Places(ActionAt(an, own[h + 1]))
        BY <1>1, <3>5 DEF Heights, Placed
      <4>5. Below(own, lab, h + 1) = 0
        BY <3>5 DEF Below
      <4> QED BY <4>3, <4>4, <4>5, ClosersEnd DEF EndsAt
    <3> QED BY <2>1, <3>2, <3>6, BlocksHaveTables
  <2> QED BY <2>5, <2>6
<1> QED BY <1>4, <1>5
-----------------------------------------------------------------------------
\* c of the blocks are closed up to the h-th symbol; u of the tables are those
\* of the lowest analyzers.
Base(u, d) == IF d = 0 THEN 0 ELSE u[d - 1]
IsOpen(an, d, i) == i \in OpenPlaces(ActionAt(an, d))
ClosesIt(sym, own, c, u, d, h) ==
    \E g \in 1 .. h : own[g] = d /\ sym[g] \in Closers /\ c[g] = Base(u, d) + 1
Reached(sym, own, an, c, u, d, i, h) ==
    /\ c[h] = Base(u, d) + Ind(IsOpen(an, d, i))
    /\ IsOpen(an, d, i) => ClosesIt(sym, own, c, u, d, h)

LEMMA OneSymbol ==
    ASSUME NEW m, NEW sym, NEW own, NEW lab, NEW cur, NEW n, NEW an, Heights(m, sym, own, lab, cur, n, an),
           NEW b, NEW c, Counts(m, sym, b, c), NEW u, \A d \in 0 .. n : u[d] \in Nat, NEW h \in 1 .. m,
           Reached(sym, own, an, c, u, own[h], Below(own, lab, h), h - 1)
    PROVE  Reached(sym, own, an, c, u, own[h], lab[h], h)
<1> DEFINE d == own[h]
           i == lab[h]
           j == Below(own, lab, h)
<1>1. EndsAt(i, sym[h], j, ActionAt(an, d))
  BY ClosersEnd DEF Heights, Placed
<1>2. c[h] = c[h - 1] + CloserAt(sym, h) /\ d \in 0 .. n /\ n \in Nat /\ h \in Nat
  BY DEF Counts, Heights, Ordered
<1>3. Base(u, d) \in Nat
  BY <1>2 DEF Base
<1>4. c[h - 1] = Base(u, d) + Ind(IsOpen(an, d, j)) /\ (IsOpen(an, d, j) => ClosesIt(sym, own, c, u, d, h - 1))
  BY DEF Reached
<1> HIDE DEF d, i, j
<1>5. CASE sym[h] \in Closers
  <2>1. IsOpen(an, d, i) /\ ~IsOpen(an, d, j) /\ CloserAt(sym, h) = 1
    <3>1. i \in OpenPlaces(ActionAt(an, d)) /\ j \notin OpenPlaces(ActionAt(an, d))
      BY <1>1, <1>5 DEF EndsAt
    <3> QED BY <1>5, <3>1 DEF IsOpen, CloserAt
  <2>2. c[h] = Base(u, d) + 1
    BY <1>2, <1>3, <1>4, <2>1 DEF Ind
  <2>3. ClosesIt(sym, own, c, u, d, h)
    BY <1>2, <1>5, <2>2 DEF ClosesIt, d
  <2> QED BY <2>1, <2>2, <2>3 DEF Reached, Ind, d, i
<1>6. CASE sym[h] \notin Closers
  <2>1. (IsOpen(an, d, i) <=> IsOpen(an, d, j)) /\ CloserAt(sym, h) = 0
    BY <1>1, <1>6 DEF EndsAt, IsOpen, CloserAt
  <2>2. c[h] = Base(u, d) + Ind(IsOpen(an, d, i))
    BY <1>2, <1>3, <1>4, <2>1 DEF Ind
  <2>3. IsOpen(an, d, i) => ClosesIt(sym, own, c, u, d, h)
    BY <1>2, <1>4, <2>1 DEF ClosesIt
  <2> QED BY <2>2, <2>3 DEF Reached, d, i
<1> QED BY <1>5, <1>6

\* Between two rules nothing is open.
LEMMA BetweenRules ==
    ASSUME NEW m, NEW sym, NEW own, NEW lab, NEW cur, NEW n, NEW an, Heights(m, sym, own, lab, cur, n, an),
           NEW c, NEW total, NEW u, Adds(n, an, total, u), \A d \in 1 .. n : HeldAt(an, cur, d),
           NEW h \in 1 .. m, Reached(sym, own, an, c, u, own[h], lab[h], h),
           h = m \/ own[h + 1] # own[h], NEW e \in own[h] .. n, h = m \/ e < own[h + 1]
    PROVE  u[e] = c[h]
<1> DEFINE d == own[h]
<1>1. /\ m \in Nat /\ n \in Nat /\ d \in 0 .. n /\ cur[d] = lab[h]
      /\ \A f \in 0 .. n : (\A g \in 1 .. m : own[g] # f) => cur[f] = 0
      /\ \A f, g \in 1 .. m : f <= g => own[f] <= own[g] /\ own[f] \in Nat /\ own[g] \in Nat
  BY DEF Heights, Ordered, Current
<1>2. u[0] = 0 /\ \A f \in 0 .. n : u[f] \in Nat
  BY DEF Adds
<1>3. \A f \in 1 .. n : u[f] = u[f - 1] + TablesHeld(an[f])
  BY DEF Adds
<1>4. c[h] = Base(u, d) + Ind(IsOpen(an, d, cur[d]))
  BY <1>1 DEF Reached
<1>5. u[d] = c[h]
  <2>1. CASE d = 0
    <3>1. ~IsOpen(an, d, cur[d])
      BY <2>1 DEF IsOpen, ActionAt, OpenPlaces
    <3> QED BY <1>2, <1>4, <2>1, <3>1 DEF Base, Ind
  <2>2. CASE d # 0
    <3>1. d \in 1 .. n /\ ActionAt(an, d) = an[d].sem_action
      BY <1>1, <2>2 DEF ActionAt
    <3>2. TablesHeld(an[d]) = Ind(IsOpen(an, d, cur[d]))
      BY <3>1 DEF HeldAt, IsOpen
    <3> HIDE DEF d
    <3> QED BY <1>3, <1>4, <2>2, <3>1, <3>2 DEF Base
  <2> QED BY <2>1, <2>2
<1>6. ASSUME NEW f \in d + 1 .. e
      PROVE  u[f] = u[f - 1]
  <2>1. f \in 1 .. n /\ f \in 0 .. n /\ f - 1 \in 0 .. n
    BY <1>1
  <2>2. ASSUME NEW g \in 1 .. m
        PROVE  own[g] # f
    <3>1. CASE g <= h
      <4>1. own[g] <= d
        BY <1>1, <3>1
      <4> QED BY <1>1, <4>1
    <3>2. CASE ~(g <= h)
      <4>1. h # m /\ h + 1 \in 1 .. m /\ h + 1 <= g
        BY <1>1, <3>2
      <4>2. own[h + 1] <= own[g] /\ e < own[h + 1]
        BY <1>1, <4>1
      <4> QED BY <1>1, <4>1, <4>2
    <3> QED BY <3>1, <3>2
  <2>3. cur[f] = 0
    BY <1>1, <2>1, <2>2
  <2>4. TablesHeld(an[f]) = 0
    BY <2>1, <2>3 DEF HeldAt, Ind, OpenPlaces
  <2> QED BY <1>2, <1>3, <2>1, <2>4
<1> DEFINE S == {k \in Nat : d + k <= e => u[d + k] = c[h]}
<1>7. 0 \in S
  BY <1>1, <1>5
<1>8. ASSUME NEW k \in Nat, k \in S
      PROVE  k + 1 \in S
  <2> SUFFICES ASSUME d + (k + 1) <= e PROVE u[d + (k + 1)] = c[h]
    OBVIOUS
  <2>1. d + (k + 1) \in d + 1 .. e /\ (d + (k + 1)) - 1 = d + k /\ d + k <= e
    BY <1>1
  <2>2. u[d + k] = c[h]
    BY <1>8, <2>1
  <2> QED BY <1>6, <2>1, <2>2
<1>9. e - d \in Nat /\ d + (e - d) = e
  BY <1>1
<1>10. Nat \subseteq S
  BY <1>7, <1>8, Induction
<1> QED BY <1>9, <1>10

LEMMA AllReached ==
    ASSUME NEW m, NEW sym, NEW own, NEW lab, NEW cur, NEW n, NEW an, Heights(m, sym, own, lab, cur, n, an),
           NEW b, NEW c, Counts(m, sym, b, c), NEW total, NEW u, Adds(n, an, total, u),
           \A d \in 1 .. n : HeldAt(an, cur, d), NEW h \in 1 .. m
    PROVE  Reached(sym, own, an, c, u, own[h], lab[h], h)
<1> DEFINE Done(k) == Reached(sym, own, an, c, u, own[k], lab[k], k)
           S == {k \in Nat : k \in 1 .. m => Done(k)}
<1>1. /\ m \in Nat /\ n \in Nat /\ own[1] = 0 /\ \A k \in 1 .. m : own[k] \in 0 .. n
      /\ \A f, g \in 1 .. m : f <= g => own[f] <= own[g]
      /\ c[0] = 0 /\ \A d \in 0 .. n : u[d] \in Nat
  BY DEF Heights, Ordered, Counts, Adds
<1>2. \A d : ~IsOpen(an, d, 0)
  BY DEF IsOpen, OpenPlaces
<1>3. 0 \in S
  OBVIOUS
<1>4. ASSUME NEW k \in Nat, k \in S
      PROVE  k + 1 \in S
  <2>1. SUFFICES ASSUME k + 1 \in 1 .. m PROVE Done(k + 1)
    OBVIOUS
  <2>2. SUFFICES Reached(sym, own, an, c, u, own[k + 1], Below(own, lab, k + 1), (k + 1) - 1)
    BY <1>1, <2>1, OneSymbol
  <2>3. (k + 1) - 1 = k
    OBVIOUS
  <2>4. CASE k = 0
    <3>1. Below(own, lab, k + 1) = 0 /\ own[k + 1] = 0
      BY <1>1, <2>4 DEF Below
    <3>2. Base(u, own[k + 1]) = 0 /\ ~IsOpen(an, own[k + 1], Below(own, lab, k + 1))
      BY <1>2, <3>1 DEF Base
    <3> QED BY <1>1, <2>3, <2>4, <3>2 DEF Reached, Ind
  <2>5. CASE k # 0
    <3>1. k \in 1 .. m /\ k + 1 > 1 /\ k # m
      BY <1>1, <2>1, <2>5
    <3>2. Done(k)
      BY <1>4, <3>1
    <3>3. CASE own[k + 1] = own[k]
      <4>1. Below(own, lab, k + 1) = lab[k]
        BY <2>3, <3>1, <3>3 DEF Below
      <4> QED BY <2>3, <3>2, <3>3, <4>1
    <3>4. CASE own[k + 1] # own[k]
      <4>1. Below(own, lab, k + 1) = 0
        BY <2>3, <3>1, <3>4 DEF Below
      <4>2. own[k] <= own[k + 1] /\ own[k] \in 0 .. n /\ own[k + 1] \in 0 .. n
        BY <1>1, <2>1, <3>1
      <4>3. /\ own[k + 1] # 0 /\ own[k + 1] - 1 \in own[k] .. n /\ own[k + 1] - 1 < own[k + 1]
            /\ own[k + 1] - 1 \in 0 .. n
        BY <1>1, <3>4, <4>2
      <4>4. u[own[k + 1] - 1] = c[k]
        BY <3>1, <3>2, <3>4, <4>3, BetweenRules
      <4>5. Base(u, own[k + 1]) = c[k] /\ c[k] \in Nat
        BY <1>1, <4>3, <4>4 DEF Base
      <4> QED BY <1>2, <2>3, <4>1, <4>5 DEF Reached, Ind
    <3> QED BY <3>3, <3>4
  <2> QED BY <2>4, <2>5
<1> HIDE DEF S
<1>5. Nat \subseteq S
  BY <1>3, <1>4, Induction
<1> QED BY <1>1, <1>5 DEF S

LEMMA BlocksAreHeld ==
    ASSUME NEW m, NEW sym, NEW own, NEW lab, NEW cur, NEW n, NEW an, Heights(m, sym, own, lab, cur, n, an),
           NEW b, NEW c, Counts(m, sym, b, c), NEW total, NEW u, Adds(n, an, total, u),
           \A d \in 1 .. n : HeldAt(an, cur, d), NEW blocks, ClosesBlocks(m, sym, blocks, c)
    PROVE  total = b /\ \A d \in 1 .. n : BlockHeld(an, b, blocks, u, d)
<1>1. /\ m \in Nat \ {0} /\ n \in Nat /\ \A h \in 1 .. m : own[h] \in 0 .. n
      /\ \A h \in 1 .. m : Reached(sym, own, an, c, u, own[h], lab[h], h)
  BY AllReached DEF Heights, Ordered
<1>2. total = b
  <2>1. m \in 1 .. m /\ n \in own[m] .. n
    BY <1>1
  <2>2. u[n] = c[m]
    BY <1>1, <2>1, BetweenRules
  <2> QED BY <2>2 DEF Adds, Counts
<1>3. ASSUME NEW d \in 1 .. n
      PROVE  BlockHeld(an, b, blocks, u, d)
  <2>1. /\ u[d] = u[d - 1] + TablesHeld(an[d]) /\ u[d - 1] \in Nat /\ d # 0 /\ d \in 0 .. n
        /\ Base(u, d) = u[d - 1] /\ ActionAt(an, d) = an[d].sem_action
    <3>1. d - 1 \in 0 .. n /\ d # 0
      BY <1>1
    <3> QED BY <3>1 DEF Adds, Base, ActionAt
  <2>2. HeldAt(an, cur, d)
    OBVIOUS
  <2>3. CASE Over(an[d])
    BY <2>1, <2>2, <2>3 DEF HeldAt, Ind, BlockHeld
  <2>4. CASE ~Over(an[d])
    <3>1. cur[d] \in OpenPlaces(an[d].sem_action) /\ TablesHeld(an[d]) = 1
      BY <2>2, <2>4 DEF HeldAt, Ind
    <3>2. cur[d] # 0
      BY <3>1 DEF OpenPlaces
    <3>3. PICK h \in 1 .. m : own[h] = d /\ lab[h] = cur[d]
      BY <2>1, <3>2, TopOfRule
    <3>4. ClosesIt(sym, own, c, u, d, h)
      BY <1>1, <2>1, <3>1, <3>3 DEF Reached, IsOpen
    <3>5. PICK g \in 1 .. h : own[g] = d /\ sym[g] \in Closers /\ c[g] = u[d - 1] + 1
      BY <2>1, <3>4 DEF ClosesIt
    <3>6. g \in 1 .. m /\ g \in 0 .. m /\ m \in 0 .. m /\ g <= m
      BY <1>1, <3>5
    <3>7. c[g] = u[d] /\ u[d] = u[d - 1] + 1
      BY <2>1, <3>1, <3>5
    <3>8. u[d] \in 1 .. b
      <4>1. c[g] <= b /\ b \in Nat
        BY <3>6 DEF Counts
      <4> QED BY <2>1, <3>7, <4>1
    <3>9. blocks[u[d]] = ClosedAt(sym, g)
      BY <3>5, <3>6, <3>7 DEF ClosesBlocks
    <3>10. EndsAt(lab[g], sym[g], Below(own, lab, g), an[d].sem_action)
      <4>1. <<lab[g], sym[g], Below(own, lab, g)>> \in Places(an[d].sem_action)
        BY <2>1, <3>5, <3>6 DEF Heights, Placed
      <4> QED BY <4>1, ClosersEnd
    <3>11. Matches(ClosedAt(sym, g), an[d].sem_action)
      <4>1. CASE sym[g] = "END"
        <5>1. Below(own, lab, g) = 1 /\ \A w, k : <<1, w, k>> \in Places(an[d].sem_action) => Matches(w, an[d].sem_action)
          BY <3>10, <4>1 DEF EndsAt
        <5>2. g > 1 /\ own[g - 1] = d /\ lab[g - 1] = 1
          BY <3>5, <5>1 DEF Below
        <5>3. g - 1 \in 1 .. m
          BY <1>1, <3>6, <5>2
        <5>4. <<1, sym[g - 1], Below(own, lab, g - 1)>> \in Places(an[d].sem_action)
          BY <2>1, <5>2, <5>3 DEF Heights, Placed
        <5> QED BY <4>1, <5>1, <5>4 DEF ClosedAt
      <4>2. CASE sym[g] # "END"
        BY <3>5, <3>10, <4>2 DEF EndsAt, ClosedAt
      <4> QED BY <4>1, <4>2
    <3> QED BY <2>4, <3>7, <3>8, <3>9, <3>11 DEF BlockHeld
  <2> QED BY <2>3, <2>4
<1> QED BY <1>2, <1>3

LEMMA SomeBlockIsFirst ==
    ASSUME NEW n \in Nat, NEW an, NEW b \in Nat \ {0}, NEW blocks, NEW u, u[0] = 0, u[n] = b,
           \A d \in 1 .. n : BlockHeld(an, b, blocks, u, d)
    PROVE  \E d \in 1 .. n : ~Over(an[d]) /\ u[d] = 1
<1> SUFFICES ASSUME \A d \in 1 .. n : Over(an[d]) \/ u[d] # 1 PROVE FALSE
  OBVIOUS
<1> DEFINE S == {d \in Nat : d \in 0 .. n => u[d] = 0}
<1>1. 0 \in S
  OBVIOUS
<1>2. ASSUME NEW d \in Nat, d \in S
      PROVE  d + 1 \in S
  <2> SUFFICES ASSUME d + 1 \in 0 .. n PROVE u[d + 1] = 0
    OBVIOUS
  <2>1. d + 1 \in 1 .. n /\ (d + 1) - 1 = d /\ u[d] = 0
    BY <1>2
  <2>2. BlockHeld(an, b, blocks, u, d + 1)
    BY <2>1
  <2> QED BY <2>1, <2>2 DEF BlockHeld
<1>3. Nat \subseteq S
  BY <1>1, <1>2, Induction
<1> QED BY <1>3

UpTo(s, k) == {j \in DOMAIN s : j <= k /\ ~s[j].finished}
LEMMA UnfinishedAreCounted ==
    ASSUME NEW s, IsSeq(s), NEW n, n = Len(s), NEW an, an = Flip(s), \A d \in 1 .. n : an[d].finished \in BOOLEAN,
           NEW b, NEW blocks, NEW u, Filled(n, an, b, blocks, u), NEW k \in 0 .. n
    PROVE  Cardinality(UpTo(s, k)) = u[n] - u[n - k]
<1> USE DEF Filled
<1>1. n \in Nat /\ DOMAIN s = 1 .. n
  BY Lengths
<1> DEFINE S == {i \in Nat : i \in 0 .. n => IsFiniteSet(UpTo(s, i)) /\ Cardinality(UpTo(s, i)) = u[n] - u[n - i]}
<1>2. 0 \in S
  <2>1. UpTo(s, 0) = {}
    BY <1>1 DEF UpTo
  <2>2. n - 0 = n /\ u[n] \in Nat
    BY <1>1
  <2>3. u[n] - u[n - 0] = 0
    BY <2>2
  <2>4. IsFiniteSet(UpTo(s, 0)) /\ Cardinality(UpTo(s, 0)) = 0
    BY <2>1, FS_EmptySet
  <2> QED BY <2>3, <2>4
<1>3. ASSUME NEW i \in Nat, i \in S
      PROVE  i + 1 \in S
  <2> SUFFICES ASSUME i + 1 \in 0 .. n
               PROVE  IsFiniteSet(UpTo(s, i + 1)) /\ Cardinality(UpTo(s, i + 1)) = u[n] - u[n - (i + 1)]
    OBVIOUS
  <2>1. /\ i \in 0 .. n /\ i + 1 \in 1 .. n /\ n - i \in 1 .. n /\ n - (i + 1) = (n - i) - 1
        /\ n - i \in 0 .. n /\ (n - i) - 1 \in 0 .. n /\ (n + 1) - (n - i) = i + 1
    BY <1>1
  <2>2. IsFiniteSet(UpTo(s, i)) /\ Cardinality(UpTo(s, i)) = u[n] - u[n - i]
    BY <1>3, <2>1
  <2>3. an[n - i] = s[i + 1]
    BY <2>1 DEF Flip
  <2>4. BlockHeld(an, b, blocks, u, n - i) /\ u[n] \in Nat /\ u[n - i] \in Nat /\ u[(n - i) - 1] \in Nat
        /\ s[i + 1].finished \in BOOLEAN
    BY <1>1, <2>1, <2>3
  <2>5. CASE Over(an[n - i])
    <3>1. UpTo(s, i + 1) = UpTo(s, i)
      BY <1>1, <2>1, <2>3, <2>4, <2>5 DEF UpTo, Over
    <3> QED BY <2>1, <2>2, <2>4, <2>5, <3>1 DEF BlockHeld
  <2>6. CASE ~Over(an[n - i])
    <3>1. UpTo(s, i + 1) = UpTo(s, i) \cup {i + 1} /\ i + 1 \notin UpTo(s, i)
      BY <1>1, <2>1, <2>3, <2>4, <2>6 DEF UpTo, Over
    <3>2. IsFiniteSet(UpTo(s, i + 1)) /\ Cardinality(UpTo(s, i + 1)) = Cardinality(UpTo(s, i)) + 1
      BY <2>2, <3>1, FS_AddElement
    <3>3. u[n - i] = u[(n - i) - 1] + 1
      BY <2>4, <2>6 DEF BlockHeld
    <3> QED BY <2>1, <2>2, <2>4, <3>2, <3>3
  <2> QED BY <2>5, <2>6
<1>4. Nat \subseteq S
  BY <1>2, <1>3, Induction
<1> QED BY <1>4

LEMMA FrameFinished ==
    ASSUME NEW p, Fit(p), NEW d \in 1 .. Height(p)
    PROVE  Frames(p)[d].finished \in BOOLEAN
<1>1. Height(p) \in Nat
  BY Lengths DEF Fit, Height
<1>2. (Height(p) + 1) - d \in 1 .. Height(p) /\ Frames(p)[d] = p.sem_an_stack[(Height(p) + 1) - d]
  BY <1>1 DEF Frames, Flip, Height
<1> QED BY <1>2 DEF Fit, IsAnalyzer, Height

\* What the invariant says of the analyzers at a statement
LEMMA BlocksAtStatement ==
    ASSUME TInv, BInv, pc = "rewrite", Top = "NT_INNER_STMT", NEW n, n = Height(parser), NEW an, an = Frames(parser),
           NEW b, b = Len(open_blocks), NEW blocks, blocks = Flip(open_blocks)
    PROVE  /\ Nested(dtree_stack, open_blocks) /\ Outermost(open_blocks)
           /\ n \in Nat /\ b \in Nat \ {0} /\ Tables(parser) = b
           /\ \E u : Filled(n, an, b, blocks, u)
<1>1. Kept(parser, token.id) /\ Paired(dtree_stack, owners, parser.sem_an_stack)
  BY DEF TInv, Working, NextUp, StacksPaired
<1> DEFINE s == dtree_stack
           sym == Flip(s)
           own == Flip(owners)
<1>2. PICK m, lab, cur : Under(s, owners, m) /\ Coupled(m, sym, own, lab, cur, n, an)
  BY <1>1, PairedUnder DEF Height, Frames
<1>3. sym[m] = "NT_INNER_STMT" /\ Head(s) = "NT_INNER_STMT" /\ Len(s) = m /\ m \in Nat \ {0}
  BY <1>2 DEF Under, Top
<1>4. Tracked(s, last_matched, open_blocks)
  BY DEF BInv
<1>5. Nested(s, open_blocks) /\ Outermost(open_blocks)
  <2>1. last_matched # "END"
    BY <1>3, <1>4 DEF Tracked, Following, MayFollow, EndedByWord
  <2> QED BY <1>3, <1>4, <2>1, TrackedPlain DEF BlockKeywords
<1>6. Neighbours(m, sym)
  <2>1. ASSUME NEW h \in 1 .. m - 1
        PROVE  MayPrecede(sym[h + 1], sym[h])
    <3>1. /\ h \in 1 .. m /\ h + 1 \in 1 .. m /\ m - h \in 1 .. Len(s) - 1
          /\ (m + 1) - (h + 1) = m - h /\ (m + 1) - h = (m - h) + 1
      BY <1>3
    <3>2. sym[h + 1] = s[m - h] /\ sym[h] = s[(m - h) + 1]
      BY <1>3, <3>1 DEF Flip
    <3> QED BY <1>4, <3>1, <3>2 DEF Tracked, Following, Adjacent
  <2> QED BY <2>1 DEF Neighbours
<1> HIDE DEF s, sym, own
<1>7. n \in Nat /\ Heights(m, sym, own, lab, cur, n, an)
  BY <1>2 DEF Coupled, Heights, Ordered
<1>8. \A d \in 1 .. n : an[d].finished \in BOOLEAN
  BY <1>1, FrameFinished DEF Kept
<1>9. \A d \in 1 .. n : HeldAt(an, cur, d)
  BY <1>2, <1>3, <1>6, <1>8, HeldAtStatement
<1>10. PICK c : Counts(m, sym, b, c) /\ ClosesBlocks(m, sym, blocks, c)
  BY <1>3, <1>5 DEF Nested, Nests, s, sym
<1>11. PICK u : Adds(n, an, Tables(parser), u)
  BY <1>1 DEF Kept, Sums
<1>12. Tables(parser) = b /\ \A d \in 1 .. n : BlockHeld(an, b, blocks, u, d)
  BY <1>7, <1>9, <1>10, <1>11, BlocksAreHeld
<1>13. b # 0
  <2>1. /\ own[m] \in 1 .. n /\ ~Over(an[own[m]])
    <3>1. OnTop(m, sym, own, lab, cur, n, an)
      BY <1>7, TopHeight
    <3>2. own[m] # 0
      <4>1. <<lab[m], "NT_INNER_STMT", Below(own, lab, m)>> \in Places(ActionAt(an, own[m]))
        BY <1>3, <3>1 DEF OnTop
      <4> QED BY <4>1, ClosersEnd DEF EndsAt, ActionAt
    <3>3. ~Over(an[own[m]])
      BY <1>2, <1>3, <3>2, StarterOnTop DEF Starters, Statements
    <3> QED BY <3>1, <3>2, <3>3 DEF OnTop
  <2>2. BlockHeld(an, b, blocks, u, own[m])
    BY <1>12, <2>1
  <2> QED BY <2>1, <2>2 DEF BlockHeld
<1>14. u[0] = 0 /\ u[n] = b /\ \A d \in 0 .. n : u[d] \in Nat
  BY <1>11, <1>12 DEF Adds
<1>15. b \in Nat
  BY <1>7, <1>14
<1> QED BY <1>5, <1>7, <1>12, <1>13, <1>14, <1>15 DEF s, Filled

LEMMA OpenBlocksAreRun == TInv /\ BInv => OpenBlocksRun
<1> SUFFICES ASSUME TInv, BInv, pc = "rewrite", Top = "NT_INNER_STMT"
             PROVE  /\ Cardinality(UnfinishedUpTo(Len(Stack))) = Len(open_blocks)
                    /\ \A k \in UnfinishedUpTo(Len(Stack)) :
                          Stack[k].sem_action = BlockAction(open_blocks[Cardinality(UnfinishedUpTo(k))])
                    /\ Len(parser.sym_tab_stack) = Len(open_blocks)
                    /\ get_current_il_list(parser) = IF Last(open_blocks) = "FUNCTION" THEN "func" ELSE "main"
  BY DEF OpenBlocksRun, AtStatement
<1> DEFINE n == Height(parser)
           an == Frames(parser)
           b == Len(open_blocks)
           blocks == Flip(open_blocks)
<1>1. Fit(parser) /\ n = Len(Stack) /\ an = Flip(Stack) /\ IsSeq(Stack)
  BY DEF TInv, Working, Kept, Fit, Height, Frames, Stack
<1>2. /\ Outermost(open_blocks) /\ n \in Nat /\ b \in Nat \ {0} /\ Tables(parser) = b
      /\ \E u : Filled(n, an, b, blocks, u)
  BY BlocksAtStatement
<1>0. PICK u : Filled(n, an, b, blocks, u)
  BY <1>2
<1>3. /\ u[0] = 0 /\ u[n] = b /\ \A d \in 0 .. n : u[d] \in Nat
      /\ \A d \in 1 .. n : BlockHeld(an, b, blocks, u, d)
  BY <1>0 DEF Filled
<1>4. \A d \in 1 .. n : an[d].finished \in BOOLEAN
  BY <1>1, FrameFinished
<1>5. b = Len(open_blocks) /\ \A h \in 1 .. b : blocks[h] = open_blocks[(b + 1) - h]
  BY DEF Flip
<1> HIDE DEF n, an, b, blocks
<1>6. \A k \in 0 .. n : Cardinality(UnfinishedUpTo(k)) = u[n] - u[n - k]
  <2>1. ASSUME NEW k \in 0 .. n
        PROVE  Cardinality(UpTo(Stack, k)) = u[n] - u[n - k]
    BY <1>1, <1>4, <1>0, UnfinishedAreCounted
  <2> QED BY <2>1 DEF UpTo, UnfinishedUpTo
<1>7. Cardinality(UnfinishedUpTo(n)) = b
  <2>1. n \in 0 .. n /\ n - n = 0 /\ b - 0 = b
    BY <1>2
  <2> QED BY <1>3, <1>6, <2>1
<1>8. ASSUME NEW k \in UnfinishedUpTo(n)
      PROVE  Stack[k].sem_action = BlockAction(open_blocks[Cardinality(UnfinishedUpTo(k))])
  <2> DEFINE d == (n + 1) - k
  <2>1. k \in 1 .. n /\ ~Stack[k].finished
    <3>1. DOMAIN Stack = 1 .. n
      BY <1>1, Lengths
    <3> QED BY <3>1 DEF UnfinishedUpTo
  <2>2. d \in 1 .. n /\ d - 1 = n - k /\ (n + 1) - d = k /\ k \in 0 .. n /\ d - 1 \in 0 .. n
    BY <1>2, <2>1
  <2> HIDE DEF d
  <2>3. an[d] = Stack[k]
    BY <1>1, <2>2 DEF Flip
  <2>4. u[d] = u[d - 1] + 1 /\ u[d] \in 1 .. b /\ Matches(blocks[u[d]], Stack[k].sem_action)
    BY <1>3, <2>1, <2>2, <2>3 DEF BlockHeld, Over
  <2>5. Cardinality(UnfinishedUpTo(k)) = (b + 1) - u[d]
    <3>1. Cardinality(UnfinishedUpTo(k)) = u[n] - u[d - 1] /\ u[d - 1] \in Nat
      BY <1>3, <1>6, <2>2
    <3> QED BY <1>2, <1>3, <2>4, <3>1
  <2> QED BY <1>5, <2>4, <2>5 DEF Matches, BlockAction
<1>9. InFunction(parser) <=> open_blocks[b] = "FUNCTION"
  <2>1. ASSUME InFunction(parser)
        PROVE  open_blocks[b] = "FUNCTION"
    <3>1. PICK k \in 1 .. n : Stack[k].sem_action = "sem_func_def"
      BY <1>1, <2>1, Lengths DEF InFunction, Running, Stack
    <3>2. (n + 1) - k \in 1 .. n /\ (n + 1) - ((n + 1) - k) = k
      BY <1>2
    <3>3. an[(n + 1) - k] = Stack[k]
      BY <1>1, <3>2 DEF Flip
    <3>4. ~Over(an[(n + 1) - k])
      <4>1. ~LineEnds
        BY SymbolsOnTop
      <4> QED BY <3>1, <3>2, <3>3, <4>1 DEF BInv, DefsGone, DefOver, n, an
    <3>5. /\ u[(n + 1) - k] \in 1 .. b /\ Matches(blocks[u[(n + 1) - k]], "sem_func_def")
      BY <1>3, <3>1, <3>2, <3>3, <3>4 DEF BlockHeld
    <3>6. PICK h \in 1 .. b : blocks[h] = "FUNCTION"
      BY <3>5 DEF Matches
    <3>7. (b + 1) - h \in 1 .. b /\ open_blocks[(b + 1) - h] = "FUNCTION"
      BY <1>2, <1>5, <3>6
    <3> QED BY <1>2, <1>5, <3>7 DEF Outermost
  <2>2. ASSUME open_blocks[b] = "FUNCTION"
        PROVE  InFunction(parser)
    <3>1. PICK d \in 1 .. n : ~Over(an[d]) /\ u[d] = 1
      BY <1>2, <1>3, SomeBlockIsFirst
    <3>2. 1 \in 1 .. b /\ (b + 1) - 1 = b
      BY <1>2
    <3>3. Matches("FUNCTION", an[d].sem_action)
      BY <1>3, <1>5, <2>2, <3>1, <3>2 DEF BlockHeld
    <3>4. an[d] = Stack[(n + 1) - d] /\ (n + 1) - d \in 1 .. n
      BY <1>1, <1>2 DEF Flip
    <3>5. (n + 1) - d \in DOMAIN Stack
      BY <1>1, <3>4, Lengths
    <3> QED BY <3>3, <3>4, <3>5 DEF Matches, InFunction, Running, Stack
  <2> QED BY <2>1, <2>2
<1>10. get_current_il_list(parser) = IF Last(open_blocks) = "FUNCTION" THEN "func" ELSE "main"
  <2>1. parser.il_override = "none"
    BY NoFlagsAtStart DEF NoFlagsLeft, AtStatement
  <2>2. parser.sym_tab_stack # << >>
    BY <1>1, <1>2, Lengths DEF Fit, Tables
  <2>3. Last(open_blocks) = open_blocks[b]
    BY <1>5 DEF Last
  <2>4. CASE InFunction(parser)
    BY <1>9, <2>1, <2>3, <2>4 DEF get_current_il_list
  <2>5. CASE ~InFunction(parser)
    BY <1>9, <2>1, <2>2, <2>3, <2>5 DEF get_current_il_list
  <2> QED BY <2>4, <2>5
<1> QED BY <1>1, <1>2, <1>5, <1>7, <1>8, <1>10 DEF Tables

(* For every set of programs: whatever was translated before it, a         *)
(* statement starts as if it came first in its blocks, and a program ends  *)
(* as if there had been none.                                              *)
THEOREM StatementsStartCleanly == TSpec => []StatementsStartClean
<1>1. TInv /\ BInv => StatementsStartClean
  BY NoFlagsAtStart, OpenBlocksAreRun DEF StatementsStartClean, TInv
<1> QED BY <1>1, BInvariant, PTL
-----------------------------------------------------------------------------
(* The parser alone, for any tokens the scanner may deliver and files of   *)
(* any length: the derivation stack is not used when it is empty, no token *)
(* is lost, and nothing is read behind the end of the file.  The inductive *)
(* invariant adds to the checked ones where the token in hand comes from.  *)

(* Between CallExpression and the end of parse_expression the nonterminal  *)
(* NT_EXPRESSION is on the top; the token that is passed to the analyzers  *)
(* is the one that was matched; once the file has been read to its bound   *)
(* the last token of it, EOF, is still held.                               *)
TokenInStep ==
    /\ pc = "expression" => Top = "NT_EXPRESSION"
    /\ pc = "semantics" => token.id = last_matched
    /\ delivered = MaxTokens + 1 =>
          /\ pc \in {"get_token", "expression"} => backlog_token = EOF
          /\ pc \in {"rewrite", "semantics"} => token = EOF

IInv == TypeOK /\ EOFAtBottom /\ TokenInStep

USE ScannedAssumption, MaxTokensAssumption
(* EOFAtBottom in terms of OnlyLast                                        *)
LEMMA Bottom ==
    EOFAtBottom <=> IF last_matched = "EOF"
                    THEN dtree_stack = << >> /\ pc \in {"semantics", "done"}
                    ELSE OnlyLast(dtree_stack, "EOF")
  BY DEF EOFAtBottom, OnlyLast

\* Before the semantic actions the stack holds the rest of the program.
LEMMA NotYetMatched ==
    ASSUME IInv, pc \in {"get_token", "rewrite", "expression"}
    PROVE  /\ last_matched # "EOF" /\ dtree_stack \in Seq(Symbols) /\ OnlyLast(dtree_stack, "EOF")
           /\ dtree_stack = <<Top>> \o Tail(dtree_stack)
<1>1. last_matched # "EOF" /\ dtree_stack \in Seq(Symbols) /\ OnlyLast(dtree_stack, "EOF")
  BY Bottom DEF IInv, TypeOK, EOFAtBottom
<1>2. dtree_stack # << >>
  BY <1>1 DEF OnlyLast
<1> QED BY <1>1, <1>2 DEF Top

LEMMA InitEstablishes == Init => IInv
<1> SUFFICES ASSUME Init PROVE IInv
  OBVIOUS
<1>1. "NT_LINE" \in Symbols /\ "EOF" \in Symbols
  <2> DEFINE line == Rule("NT_LINE", {"DECLARE", "DIM", "FUNCTION", "SCOPE", "EOL"}, "none",
                          <<"NT_GLOBAL_STMT", "NT_SCOPE_STMT", "NT_LINE_END">>)
  <2>1. line \in grammar_rules /\ line.for_nt = "NT_LINE"
    BY DEF grammar_rules, ProgramRules, Rule
  <2> QED BY <2>1 DEF Symbols, Nonterminals
<1>2. TypeOK
  BY <1>1 DEF Init, TypeOK, AllTokens
<1>3. EOFAtBottom
  BY DEF Init, EOFAtBottom
<1>4. TokenInStep
  BY DEF Init, TokenInStep
<1> QED BY <1>2, <1>3, <1>4 DEF IInv

LEMMA GetTokenPreserves ==
    ASSUME IInv, TakeBacklog \/ \E t \in FromFile : ReadToken(t)
    PROVE  IInv'
<1> PICK t \in AllTokens :
        /\ pc = "get_token" /\ Consider(t) /\ backlog_token' = NoToken
        /\ delivered' \in 0 .. MaxTokens + 1
        /\ delivered' = MaxTokens + 1 => t = EOF
  <2>1. CASE TakeBacklog
    BY <2>1 DEF TakeBacklog, IInv, TypeOK, TokenInStep
  <2>2. ASSUME NEW t \in FromFile, ReadToken(t)
        PROVE  /\ t \in AllTokens
               /\ pc = "get_token" /\ Consider(t) /\ backlog_token' = NoToken
               /\ delivered' \in 0 .. MaxTokens + 1
               /\ delivered' = MaxTokens + 1 => t = EOF
    <3>1. delivered \in 0 .. MaxTokens
      BY <2>2 DEF ReadToken, IInv, TypeOK, TokenInStep, EOF, NoToken
    <3> QED BY <2>2, <3>1 DEF ReadToken, FromFile, AllTokens
  <2> QED BY <2>1, <2>2
<1>1. TypeOK'
  BY DEF IInv, TypeOK, Consider, Fail, GoTo, AllTokens
<1>2. EOFAtBottom'
  BY NotYetMatched DEF IInv, EOFAtBottom, Consider
<1>3. TokenInStep'
  BY DEF TokenInStep, Consider, Fail, GoTo, EOF
<1> QED BY <1>1, <1>2, <1>3 DEF IInv

LEMMA RewritePreserves ==
    ASSUME IInv, NEW r \in grammar_rules, Rewrite(r)
    PROVE  IInv'
<1> USE DEF Rewrite
<1>1. Top # "EOF" /\ dtree_stack \in Seq(Symbols) /\ OnlyLast(dtree_stack, "EOF") /\ last_matched # "EOF"
  BY NotYetMatched, RulesProper DEF get_rule_from_ll_table, Proper
<1>2. Tail(dtree_stack) \in Seq(Symbols) /\ OnlyLast(Tail(dtree_stack), "EOF")
  BY <1>1, PopSymbol DEF Top
<1>3. dtree_stack' \in Seq(Symbols) /\ OnlyLast(dtree_stack', "EOF")
  BY <1>2, PushSymbols, ProductionsAreSymbols, RulesProper DEF Proper
<1>4. TypeOK'
  BY <1>3 DEF IInv, TypeOK
<1>5. EOFAtBottom'
  BY <1>1, <1>3 DEF EOFAtBottom, OnlyLast, history
<1>6. TokenInStep'
  BY DEF IInv, TokenInStep
<1> QED BY <1>4, <1>5, <1>6 DEF IInv

\* The steps that leave the derivation stack and what was matched alone
LEMMA StackUnchangedPreserves ==
    ASSUME IInv,
           \/ NoRule \/ Mismatch \/ CallExpression \/ SemanticsDone
           \/ \E code \in SemanticErrors : SemanticsFail(code)
    PROVE  IInv'
<1> USE DEF Fail, GoTo, history
<1>1. TypeOK'
  BY DEF IInv, TypeOK, NoRule, Mismatch, CallExpression, SemanticsDone, SemanticsFail, AllTokens
<1>2. EOFAtBottom'
  <2>1. CASE pc = "rewrite"
    BY <2>1, NotYetMatched DEF EOFAtBottom, IInv, NoRule, Mismatch, CallExpression, SemanticsDone,
                               SemanticsFail
  <2>2. CASE pc = "semantics"
    BY <2>2 DEF EOFAtBottom, IInv, TokenInStep, NoRule, Mismatch, CallExpression, SemanticsDone,
                SemanticsFail
  <2> QED BY <2>1, <2>2 DEF NoRule, Mismatch, CallExpression, SemanticsDone, SemanticsFail
<1>3. TokenInStep'
  BY DEF IInv, TypeOK, TokenInStep, NoRule, Mismatch, CallExpression, SemanticsDone, SemanticsFail,
         EOF, Top
<1> QED BY <1>1, <1>2, <1>3 DEF IInv

\* parse_expression takes the nonterminal from the stack, well or ill.
LEMMA ExpressionPreserves ==
    ASSUME IInv,
           \/ \E t \in FromFile : ParseExpression(t)
           \/ \E code \in SemanticErrors \cup {"SYNTAX_ERROR", "LEX_ERROR"} : ExpressionFails(code)
    PROVE  IInv'
<1>1. pc = "expression" /\ dtree_stack' = Tail(dtree_stack)
  BY DEF ParseExpression, ExpressionEnds, ExpressionFails
<1>2. dtree_stack' \in Seq(Symbols) /\ OnlyLast(dtree_stack', "EOF") /\ last_matched # "EOF"
  BY <1>1, NotYetMatched, PopSymbol DEF IInv, TokenInStep, Top
<1>3. CASE \E code \in SemanticErrors \cup {"SYNTAX_ERROR", "LEX_ERROR"} : ExpressionFails(code)
  BY <1>2, <1>3 DEF IInv, TypeOK, EOFAtBottom, OnlyLast, TokenInStep, ExpressionFails, Fail, history
<1>4. ASSUME NEW t \in FromFile, ParseExpression(t)
      PROVE  IInv'
  <2> USE DEF ParseExpression, ExpressionEnds, GoTo
  <2>1. delivered \in 0 .. MaxTokens
    BY <1>1, <1>4 DEF IInv, TypeOK, TokenInStep, EOF, ExpressionStart, Expr!Constants
  <2>2. TypeOK'
    BY <1>2, <1>4, <2>1 DEF IInv, TypeOK, FromFile, AllTokens
  <2>3. EOFAtBottom'
    BY <1>2, <1>4 DEF EOFAtBottom, OnlyLast
  <2>4. TokenInStep'
    BY <1>4, <2>1 DEF TokenInStep, FromFile
  <2> QED BY <2>2, <2>3, <2>4 DEF IInv
<1> QED BY <1>3, <1>4

LEMMA MatchPreserves ==
    ASSUME IInv, Match
    PROVE  IInv'
<1> USE DEF Match, TokenMatches, GoTo
<1>1. dtree_stack \in Seq(Symbols) /\ OnlyLast(dtree_stack, "EOF") /\ Top = token.id
  BY NotYetMatched
<1>2. CASE token.id = "EOF"
  <2>1. dtree_stack' = << >>
    BY <1>1, <1>2, PopEOF DEF Top
  <2> QED BY <1>2, <2>1, EmptySeq DEF IInv, TypeOK, EOFAtBottom, TokenInStep
<1>3. CASE token.id # "EOF"
  <2>1. dtree_stack' \in Seq(Symbols) /\ OnlyLast(dtree_stack', "EOF")
    BY <1>1, <1>3, PopSymbol DEF Top
  <2> QED BY <1>3, <2>1 DEF IInv, TypeOK, EOFAtBottom, OnlyLast, TokenInStep
<1> QED BY <1>2, <1>3

LEMMA NextPreserves == IInv /\ [Next]_vars => IInv'
<1>1. CASE UNCHANGED vars
  BY <1>1 DEF vars, IInv, TypeOK, EOFAtBottom, TokenInStep, Top
<1>2. CASE IInv /\ Next
  BY <1>2, GetTokenPreserves, RewritePreserves, StackUnchangedPreserves, ExpressionPreserves,
     MatchPreserves DEF Next
<1> QED BY <1>1, <1>2

LEMMA SpecInvariant == Spec => []IInv
  BY InitEstablishes, NextPreserves, PTL DEF Spec
-----------------------------------------------------------------------------
(* No token is lost between the scanner and the two parsers, and nothing   *)
(* is read behind EOF (scanner_get_token and scanner_unget_token).         *)
THEOREM TypeCorrect == Spec => []TypeOK
<1>1. IInv => TypeOK
  BY DEF IInv
<1> QED BY <1>1, SpecInvariant, PTL

(* stack_top and stack_pop never meet an empty derivation stack: EOF lies  *)
(* at its bottom until EOF itself is matched.                              *)
THEOREM StackNeverRunsOut == Spec => []EOFAtBottom
<1>1. IInv => EOFAtBottom
  BY DEF IInv
<1> QED BY <1>1, SpecInvariant, PTL
=============================================================================
