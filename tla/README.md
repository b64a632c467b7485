# A verification of the IFJ17 compiler

The program (`src/src/*.c`) translates IFJ17, a small BASIC, to IFJcode17, a
three-address code with a data stack. It is one sequential process: nothing
runs concurrently and nothing is persisted. What makes it hard to get right is
its *protocol*: a hand-written LL parser, a hand-written precedence parser, a
stack of small state machines ("analyzers") that are fed tokens and each
other's results by position rather than by name, and a memory manager on which
all of it allocates. A wrong table entry, a state machine that ends one token
late, or a flag that is not reset shows in one program in a thousand, usually
in the code the compiler emits and not in the compiler.

This directory holds TLA+ modules translated from the C source, the TLC
configurations that check them, and theorems that TLAPS checks for every value
of the constants. `PROJECT.json` maps every definition to the lines it models
and lists the runs, the findings and the hazards.

## 1. Inventory

| Component | State | Operations | Talks to | What is hard | What makes it correct |
|---|---|---|---|---|---|
| memory manager (`memory_manager.c`) | array of block addresses, its size, `first_free`, high-water mark | `mm_malloc`, `mm_realloc`, `mm_free`, `mem_manager_free` | everything allocates from it; C allocator | a swap fills the hole a free leaves; every C allocation can fail, and a failure ends the process | every live block is in one used slot; a normal end leaves none |
| scanner (`scanner.c`, `fsm.h`, `token.c`) | buffer, state of the automaton, one-token backlog, line | `scanner_get_token`, `scanner_unget_token` | LL parser and expression parser read it in turns | some fifty states by hand; escapes put on the buffer and taken off again; numbers wider than an int; one token of backlog, guarded by an assertion release builds drop | the text is cut into the longest lexemes, tokens mean their text, no token is lost or read twice |
| LL grammar (`grammar.c`) | rules, LL table (sparse) | `grammar_init`, look-up | parser | the table is typed in by hand, apart from the rules | it refuses only what no program goes on with |
| LL parser (`parser.c`) | derivation stack, token, error code | `parse`, `rewrite_until_terminal`, `handle_semantics`, `handle_finished_semantics` | scanner, grammar, expression parser, analyzers | stack tops used without tests; a token goes to whoever is on top of the analyzer stack | the derivation stack is never empty before EOF; tokens and values reach the statement they are for |
| expression grammar (`expr_grammar.c`) | rules, precedence table | `expr_grammar_init`, `pt_map_token` | expression parser | fifteen rows of actions by hand | precedence, associativity, unary minus |
| expression parser (`expr_parser.c`, `ext_stack.c`) | stack of terminals, handles and nonterminals; last token | `parse_expression`, `ext_stack_shift`, `_push`, `_reduce` | scanner, semantic actions of expressions | pops one analyzer for each nonterminal and trusts that the two stacks match | code order is the order of the expression's tree; the stacks stay in step; it ends |
| semantic actions of expressions (`sem_analyzer.c` 486-1394) | value and state of each analyzer | `sem_expr_*` | emit code, pass types upwards | implicit conversions, also of the operand *below* the top of the data stack | the emitted code never meets a wrong type |
| semantic actions of statements (`sem_analyzer.c` 1396-3402) | a state machine per statement, parser-wide flags (`il_override`, `static_var_decl`, `step_found`), two C `static` variables | `sem_*` | symbol tables, instruction lists, each other through values | finished machines linger on the stack; states emit the labels that other states jump to | names mean what the text says, jumps go to the loop they name, flags are reset |
| symbol tables (`symtable.c`) | global, function and local tables; chains by hash; function signatures packed into strings | insert, find, remove, signature updates | semantic actions | keys with one hash; two strings per signature, found again by counting marks | a find sees what was inserted; a signature reads back as declared |
| three-address code (`3ac.c`) | three instruction lists | `il_add`, `generate_code` | semantic actions; the interpreter runs it | which list an instruction goes to; what the code does when it runs | the code of an accepted program runs without a fault and does what the text means |
| ids and buffers (`utils.c`, `buffer.c`) | seed, growing buffer | `generate_uid`, `concat`, `buffer_append_c`, `buffer_append_str` | scanner, symbol table, semantic actions | two growth policies of one buffer | ids differ; the buffer always holds a string of the length it keeps |
| lists (`dllist.c`), stacks and tables (`stack.c`, `sparse_table.c`) | pointers first, last, active; items | insert, delete, move, copy, free | everything | the ends, the last item and the active one; the active item is shared by nested searches; a copy shares its data | pointers agree with the order, every item and datum has one owner |
| built-in functions (`parser.c` 28-194) | code in the list of functions | `add_built_ins` | called by programs | written without a type checker; positions count from 1 here and from 0 there | each returns what the language says at every boundary |
| program (`main.c`), debugging (`debug.c`) | none of their own | | | pure input and output | |

## 2. Modules

    BlockStore  <== refines ==  MemoryManager  <- MemoryManager_proofs
    CursorLists <== refines ==  DLList  <- DLList_proofs

    Buffer <- Buffer_proofs
    Ascii, Buffer <- SymTable <- MCSymTable
    SymTable, Buffer_proofs <- SymTable_proofs
    Ascii, Buffer <- Scanner  \
                               MCScanner
              Ascii <- Lexemes /
    Scanner, Buffer_proofs  <- Scanner_proofs

    ExprGrammar <- ExprCode <- ExprParser \
                                           MCExprParser
                        ExprReference     /
    ExprParser <- ExprParser_proofs
    SequenceLemmas <- DLList_proofs, SymTable_proofs, ExprParser_proofs, Coupling

    Grammar <- LLParser <- MCLLParser

    ThreeAddressCode <- BuiltIns <- Compiler <- SemActions
    ThreeAddressCode <- Machine
       LLParser, SemActions <- Translator <- MCTranslator <- ProgramMeaning
                               Translator <- Coupling <- Translator_proofs
       Translator, Machine  <- Execution
       Execution, ProgramMeaning <- MCExecution
       Machine, BuiltIns    <- MCBuiltIns

* **BlockStore** is the abstract specification of a memory manager: a set of
  live blocks, its largest size so far, and one end.
* **MemoryManager** is `memory_manager.c`, one action per function and one for
  each way it fails. `heap` is external: what the C allocator has handed out.
  The blocks the compiler holds are exactly those. An action `mm_realloc_fails`
  models the failure of the C `realloc` together with the whole path of
  `mem_manager_free` and exit that follows it.
* **CursorLists** is the abstract specification of lists: sequences, each with
  the position of its active item or 0, and what every operation returns.
* **DLList** is `dllist.c` on a heap of items with `next`, `prev` and `data`.
  `dllist_length`, `dllist_free` and `dllist_copy` are a step per round of
  their loops (`pc` says where), since they move the active item that others
  see. `sem_value_copy` of a list is the copy and the loop that empties the old
  list. `chain` is history: the order the operations promise. The refinement
  maps `items` to the data along `chain` and `active` to the place of the
  active pointer.
* **Buffer** is `buffer.c` as functions of a record; a write outside the array
  sets `overrun`. **Ascii** has characters as codes.
* **Scanner** is `scanner.c`: `Moves` is the automaton, from a state to the
  characters it waits for, where each leads and what it adds to the buffer; a
  step reads one character. `Otherwise` is every other character, `EndState` a
  state that returns without reading. The file is open at its end: what is not
  read yet is chosen when it is read. The client is both parsers: it gives back
  a token at most once. Widths of `int` and `unsigned long` are constants.
* **Lexemes** describes the lexemes of the language and the value of each
  without an automaton, by the form of a whole text; `Viable` says that a text
  can go on to one.
* **SymTable** is `symtable.c` with functions in its items: djb2 with its
  overflow, chains in order, the two packed strings on `Buffer`. `declared` is
  history: the signatures as they were given.
* **ExprGrammar** is `expr_grammar.c`: rules, and the table as a function of
  the two terminals, from the order of the classes and the exceptions.
* **ExprCode** holds `sem_expr_*`: for every rule, from the values of the
  analyzers below, the type or the error code, and the stack instructions it
  emits. Instructions are given by what they do to a stack of *types*
  (`Signatures`, `Execute`, external), which is what the conversions are about.
* **ExprParser** is `parse_expression` with `ext_stack_*`, one action per
  branch. `data_stack` and `emitted` are the run of the code as it is emitted.
* **ExprReference** is a recursive-descent meaning of expressions, written from
  the priorities of the language and not from the table.
* **Grammar** is the rules and the LL table of `grammar.c`.
* **LLParser** is `parse()` alone, on any sequence of tokens: the scanner's
  backlog, the derivation stack, the calls of the expression parser and the
  semantic actions taken as steps that may fail.
* **ThreeAddressCode** is an instruction and its addresses; **BuiltIns** the
  code of `add_built_ins`, instruction by instruction.
* **Compiler** holds the state of `Parser` that semantic actions work on
  (symbol tables, analyzers, instruction lists, flags, seed) as one record
  `parser`, and the helpers of `sem_analyzer.c`, `3ac.c` and `utils.c` that read
  and change it. `generate_code` puts the lists together. Its tables are
  functions from keys to items, which is what SymTable is shown to keep.
* **SemActions** is the statements' state machines. Each is an operator from
  `(p, value)` to a return code and the new `p`, a disjunct of cases by state
  like the `SEM_STATE` blocks of the C function, with all the code it emits.
* **Translator** composes LLParser and SemActions: a rule with an action puts
  an analyzer on the stack, a match hands the token to `handle_semantics`,
  which is two actions, `FlushFinished` (one round of
  `handle_finished_semantics`) and `PassToken`, so that the states between them
  are visible. An expression is an operand, a minus and an operand, or a call
  with operands for arguments (ExprParser has the rest).
* **Coupling** says how the three stacks of `parse()` hang together: the symbols
  to be matched, the analyzers and the tables of symbols. `Places` numbers the
  places of the rules of every semantic action, `Rows` says in which states its
  analyzer may stand there; `TInv`, the inductive invariant of Translator, is
  built on them. `BInv` adds how they hang together with `open_blocks`, the
  blocks of the text that are open: `Nested` says that the symbols END, LOOP,
  NEXT and NT_DO_STMT_END on the stack close exactly those, from the inside out.
* **Machine** is the interpreter the code is for, external, modelled from the
  instructions `src/` uses: frames, data and call stack, labels, and the faults
  at which the interpreter stops. A value has a type and, where it is known,
  itself; a jump on an unknown value goes either way.
* **Execution** is `main`: translate, and if the program is accepted hand the
  code to the machine.
* **ProgramMeaning** is what a program does, recursively over its text, for
  programs over known integers and Booleans. It shares nothing with the
  translation but tokens and the types of constants.
* **SequenceLemmas** has the facts about sequences the library lacks: places
  after an insertion or a removal, fronts and rests, `FlattenSeq`, `Reverse`,
  sequences used as stacks, and induction over numbers. The modules ending in `_proofs` hold the theorems
  of section 4 about the module they are named for.
* The **MC** modules give the constants values and state the properties that
  compare a run with something computed from the text of the program.

Definitions whose name is that of a C function model it. Comments beginning
`Mutated:` mark variants of definitions, each a plausible bug, which serve to
test the properties: replacing the definition by its variant must break the
property it is listed with.

## 3. Runs

| Run | Question | Instance and why it suffices |
|---|---|---|
| `manager` | Do TypeOK, EachBlockRecordedOnce, NoBlockLeftAtEnd hold; does MemoryManager implement BlockStore? | four addresses, chunk of two: the table grows twice, holes open at the front, the middle and the end |
| `dllist` | Do pointers agree with the order; has every item and datum one owner, also while a list is moved; do the loops end; are the lists sequences with a cursor? | two lists, four items, three data: a list with a first, a middle and a last item, and a copy of one with two |
| `symtable` | Does a find see what was inserted; do packed signatures read back as declared and stay in their buffers? | three names of functions in two buckets, so that two share one; an initial buffer of two and chunk of one with names of one and three characters: both ways of growing, in turns; two parameters |
| `scanner` | Is the text cut into the longest lexemes; does each token mean its text; is an error given only where no lexeme goes on; is the end reached? | one alphabet for each part of the automaton, up to five characters beyond a beginning: numbers with exponents, three bases with digits of each and beyond, escapes 000 to 256 and past it on a full buffer, comments; every keyword with a character behind it; each of the 127 codes by itself; int of 5 and long of 9 bits so that both overflow |
| `expr_parser` | Do the two stacks stay in step; does the code ever meet a wrong type; is what is accepted, how much of it, and the order of the code, what the reference says? | all sequences up to four of seven operators and operands, or of seven tokens of calls, well formed or not; every pair of the thirteen binary operators with every prefix (precedence is a relation of pairs); operands of all types under two operators, one for each semantic action; calls with up to three arguments, nested, empty, with type errors |
| `expr_ends` | Does every expression end? | the sequences of calls |
| `ll_parser` | Is the derivation stack safe; does the table refuse only the hopeless; does `parse()` end? | every file of up to ten tokens of all the tokens there are, two nested blocks among them; `FIRST` sets are computed from the productions |
| `translator` | Does every jump, name, token, value and definition go where the text says; is the state clean where a statement starts? | families of programs: EXIT and CONTINUE of one or two loops, under two levels of eight kinds of blocks, before and after other statements and after a loop that ended; one name declared as shared, local, static, parameter and iterator in nestings of two blocks; every pair of six parameter lists and two types as declaration and definition with seven bodies, two functions with one's name a prefix of the other's; calls with arguments of each type; and programs that are refused, one for every error path |
| `builtins` | Does each built-in function return what the language says; what stops it? | strings of 0 to 3 characters, all indices and lengths from -2 to 5, whole and in halves (both ways of rounding), characters up to 256 |
| `machine` | Does the code of an accepted program run without a fault, with the types the translator believed; do functions leave one value; does a FOR run its rounds; does a program leave what its text means, going round no oftener? | every assignment operator on every pair of numeric types; thirteen blocks, alone, in FOR, before a loop; functions of one and two parameters with seven bodies and every combination of types of parameter, result, argument and variable, with a static variable, a FOR left by RETURN and a call of itself; FOR from three numbers to nine others by seven steps, both signs and 0, in both types; branches with every truth of two conditions, and in each kind of loop, with EXIT and CONTINUE of one or two loops. Programs of the last kind count *marks* in a shared number that only grows: a jump backwards after more marks than the text has is a loop that does not end. Calls nest twice and a FOR runs six rounds; no loop whose meaning is known needs more |

Two more runs show a *violation*, one finding each (section 5): `trans_exit`
and `machine_scopes`.

`MaxTokens` bounds the length of a file (LLParser), `Programs` the files of
Translator and Execution, `Texts` those of Scanner, `MaxParams` the parameters
in SymTable, `MaxCalls` and `MaxRounds` what Machine runs; nothing else is
bounded. `CHECK_DEADLOCK FALSE` where the program stops after its work, or
Machine at a bound.

**Fairness.** There is a single thread, and one that can take a step takes one:
`Terminates`, `ParseEnds`, `ScansToEnd` and `CallsEnd` assume `WF` of the
next-state relation. Input is never awaited: a read from the file succeeds or
ends. `LoopsEnd` assumes it only of the steps within an operation of DLList;
nothing obliges a client to call one.

**What is hidden on purpose.** Properties and inputs leave out, by a named
condition or by the choice of programs, what the code is known to do otherwise:

* `JumpsToTheNamedLoop` and `NamesMeanWhatTheTextSays`: the analyzers of loops
  that have ended and were not flushed; an iterator is visible in the
  expression just after its loop (`sem_analyzer.c:334`).
* `LocalsInitialised`, a part of `CodeIsWellFormed`: local names that are also static in the function, which
  are defined in LF and initialised in GF (`sem_analyzer.c:381`).
* `RefusedHasNoMeaning`: a minus after AND, OR or NOT, which is not made unary
  (`expr_parser.c:44`). `RefusedOnlyIfHopeless`: later expressions of PRINT,
  which may not begin with a parenthesis or NOT (`grammar.c:259`).
* `JumpsLand`, another part of it: CONTINUE in a DO without a test jumps to a label that only a
  test emits (`sem_analyzer.c:2530`).
* `OnlyKnownFaults`, in `CallsGiveTheirMeaning`: `asc` lets the position just behind the string through
  (`parser.c:86`), and `chr` every number.
* `FunctionsLeaveOneValue` counts the two values a round of FOR leaves on the
  data stack (`sem_analyzer.c:3025`); without them it fails.
* The programs of `machine`: no SCOPE in a SCOPE (run `machine_scopes`), no
  declaration in a loop or of one name twice in a frame, which is a second
  DEFVAR; no call in a global initialiser, which runs before EXPR_VALUE
  exists; `\=` with numbers only, as the code does not look; no FOR in a
  function that calls itself, since iterator, end and step are global; no
  function named like a label of a built-in one; `substr` only in `builtins`,
  where its loops count with known values.
* Two static names may be one key (`oo` in `f`, `o` in `fo`,
  `sem_analyzer.c:311`); the second declaration is refused. A `realloc` that
  fails overwrites its slot before everything is freed
  (`memory_manager.c:126`); the action `mm_realloc_fails` does so.

The C `static` variable of `sem_exit` and of `sem_continue` is one field
(`last_loop_type`): only one of the two is ever between its first token and its
EOL. The token that these two create for the loop's id has no token number in
the code (`sem_analyzer.c:3081`); it is modelled as none of the numbers.

## 4. What is proved

`MemoryManager_proofs` proves, for every set of addresses not containing NULL
and every positive chunk:

* `TypeCorrect`: `Spec => []TypeOK`. The used slots fit the table with one to
  spare.
* `BlocksRecordedOnce`: `Spec => []EachBlockRecordedOnce`.
* `NothingLeftAtEnd`: `Spec => []NoBlockLeftAtEnd`.
* `ManagerImplementsBlockStore`: `Spec => Store!Spec`, with `live <- heap` and
  `peak <- max_blocks`.

The inductive invariant `IInv` is the three invariants and
`UsedSlotsCountBlocks`: while running the heap is finite and has `first_free`
blocks. Without the last one the refinement fails, since `max_blocks` is
computed from `first_free` and the abstract `peak` from the number of live
blocks. Two lemmas carry the argument: `RoomForOneMore` (after
`memory_expand`, slot `first_free` exists and the old slots are unchanged) and
`HoleFilled` (after the swap in `mm_free` the slots hold the other blocks, each
once); then one lemma for each operation, and `NextPreserves` puts them
together.

`Translator_proofs` proves of `parse()` with the semantic actions, for any set of
programs of any length (that the programs are sequences of tokens of the scanner
is the only assumption):

* `TokensReachTheirStatements`: `TSpec => TokensReachTheirStatement`.
* `StatementsSayNothing`: `TSpec => StatementsLeaveParentsAlone`.
* `StatementsStartCleanly`: `TSpec => []StatementsStartClean`, from
  `AcceptedLeavesNothing` (`TSpec => []NothingLeft`), `FlagsAreReset`
  (`TSpec => []NoFlagsLeft`) and `OpenBlocksAreRun` (`TInv /\ BInv => OpenBlocksRun`).

`parse()` hands a token to whatever analyzer is on the top, and the value of a
finished one to whatever is below it. That this is right is a fact about the
derivation stack: `TInv` says that every symbol on it is at some place of the
rule of some analyzer (`Placed`), those of a rule in its order and of deeper
analyzers below those of higher ones (`Ordered`); that the state of an
unfinished analyzer is one in which it may be at the place its rule has come
to, with what lies above it (`Standing`); that values of expressions and
parameters lie only on the top, above one that takes them (`Voiced`); that a
statement with no symbol left waits for the EOL that ends it (`Lined`); that
the tables are those of the analyzers in a state with a table (`Sums`); and that
a flag belongs to the topmost analyzer (`FlagsKept`). Each part is needed for
another: without the places a token could come in a state that ignores it,
without the states a place says nothing of the tables.

The proof has a lemma for every semantic action (`...Acts`: what it does with
each token and value it may get), for the rules of the grammar (`...Unfold`: which
places they put on the stack), and for every action of `TNext` (`...Keeps`). One
case does not fit: the IF behind END belongs to an analyzer that has finished at
END already, so the token goes to the block around it, which ignores it
(`IFIsClosed`).

`open_blocks` is computed from the tokens alone, so `OpenBlocksRun` compares two
accounts of the program that share no step. `BInv` is what ties both to the
derivation stack: each symbol there that closes a block closes the one it was
opened with (`Nested`), an END that is matched still has its keyword to come, a
keyword at the start of a line is about to open a block (`Tracked`), and
which of the two a keyword is can be told from the word before it, on the stack
(`Adjacent`) as in the text (`Following`). A function is the outermost block
(`Outermost`), and its analyzer, once over, stays only to the end of its line
(`DefsGone`); otherwise the code of the statements behind it would go to its
list. Of the grammar the proof needs which rules open a block (`OpenersOpen`),
that a rule puts the closing symbol of that block, and no other, on the stack,
and what stands next to what in productions (`RulesRun`, `RulesJoin`).
At a statement, then, an analyzer is unfinished, and has a table, just when its
place is one of `OpenPlaces`, between the word that opens its block and the
one that closes it (`HeldAtStatement`); and going up the stack, an
induction over the symbols, those passed that close a block are as many as the
tables below (`AllReached`), so that the d-th table is that of the d-th block
(`BlocksAreHeld`).

The end of `Translator_proofs` proves of the parser alone, for any set of tokens and files
of any length:

* `TypeCorrect`: `Spec => []TypeOK`. With a token in hand the backlog is empty,
  so `scanner_unget_token` overwrites nothing although its assertion is
  compiled out, and at most one token more than the file has is read.
* `StackNeverRunsOut`: `Spec => []EOFAtBottom`. `stack_top` is used without a
  test in `parse` and `rewrite_until_terminal`; EOF lies at the bottom of the
  derivation stack, and nowhere else, until EOF is matched.

Here `IInv` adds `TokenInStep`: in the expression parser the nonterminal it
replaces is on the top, so the pop after it takes that one; what the analyzers
are given is what was matched last; and once the file is read to its bound, EOF
is in hand or in the backlog. The proof needs two facts of the grammar, both
proved from all of its productions: EOF occurs in none of them and is no
nonterminal (`RulesProper`), and lemmas on sequences that have EOF last
(`PopSymbol`, `PopEOF`, `PushSymbols`).

`DLList_proofs` proves, for any items, lists and data (the only assumption is
that NULL is none of the items and data):

* `ListsStayLinked`: `Spec => []LinksAgree`.
* `DataHaveOneOwner`: `Spec => []OwnedOnce`.
* `ListsAreSequences`: `Spec => ImplementsCursorLists`, step by step: what an
  operation returns and whom it leaves active is what it would be on a sequence.

`IInv` adds to the first two what the loops know between two rounds
(`LoopsOnTheirWay`): counting has counted the items behind the active one,
freeing works on the first one, copying has copied those before it; and when
two items may share their data (`DataSharedByCopies`): only an item and its
copy, while `sem_value_copy` moves a list. Without the former a step of a loop
could find no active item; without the latter the loop that empties the old
list would free data the new one keeps. Insertions and deletions are lemmas on
pointers and an order (`Spliced`, `LinkAt`, `DeletesAt`), used for every place.

`Buffer_proofs` proves `AppendingIsConcatenation`: a buffer that holds a string
of the length it keeps holds, after `buffer_append_str` or `buffer_append_c`,
that string with the addition behind it, and nothing is written outside the
array, for every chunk and every size. The next two modules rest on it.

`SymTable_proofs` proves, for any keys, any names of characters 1 to 127, any
number of buckets, any width of the hash and any sizes of the buffer:

* `AFindSeesAll`: `Spec => []KeysInTheirChainOnce`. That djb2 gives a bucket
  that exists is an induction over the characters of the key.
* `SignaturesStayStrings`: `Spec => []SignaturesAreStrings`.
* `DeclarationsReadBack`: `Spec => []SignaturesReadBack`.

Here `IInv` says how a signature is packed (`Signed`): there are places in the
string of names, each behind a mark but the first, at which the names begin,
and the marks are as many as the names. That the accessor finds the n-th name
by counting n-1 marks is an induction over names. `CodeAssumption` states that
the letters of types and the mark are characters and differ, and that no name
has a mark in it (the scanner gives identifiers of letters, digits and `_`):
characters as codes, which TLC computes on every run.

`Scanner_proofs` proves `BufferStaysAString`: `Spec => []BufferHoldsString` for
files of any text without binary zeros (`TextAssumption`). `IInv` adds that the
buffer holds at least the digits of an escape that the state implies, which
`DropDigits` cuts off without a look, and the proof goes through every move of
the automaton: none but those three states keeps a digit of an escape, and none
keeps a zero.

`ExprParser_proofs` proves, for expressions of any length over any tokens, any
variables and functions of the four types:

* `AnalyzersFollowNonterminals`: `Spec => []AnalyzersMatchNonterminals`.
* `CodeLeavesWhatAnalyzersClaim`: `Spec => []DataStackMatchesAnalyzers`.

`Agreement` is the inductive invariant. Its first part is an order-preserving
function from the analyzers to the nonterminals they belong to (`Owns`); that
the two counts agree would not tell a reduction which analyzers are its own.
Its second is the form of the extended stack (`Shape`): what lies below a
handle marker, or a nonterminal on the top, is a token or the end; a handle is
then a whole production, and `ext_stack_reduce` removes no item of another one.
Its third is that the data stack is what the analyzers claim, in their order.
For each semantic action a lemma shows that the code it emits, run on any stack
that has its operands on the top, replaces them by a value of the type it
claims (`Delivers`), for all types the action accepts and through all
conversions; the code of a rule appended to the code so far is their
composition (`ReachesInTurn`), an induction over instructions. The assumptions
are that variables and functions have types of the language, and that tokens,
nonterminals and markers are different values of their enumerations.

Induction is over numbers (`Induction` in SequenceLemmas), from the library's
well-ordering of Nat: its induction theorems take an operator as parameter and
cannot be used by the provers at hand.

Only model-checked, and why:

* `LongestLexemes`, `ErrorsAreHopeless` and `TokensMeanTheirText` relate the
  automaton to a grammar of whole texts; `AcceptedMeansReference`,
  `RefusedHasNoMeaning` and `RefusedOnlyIfHopeless` a parser to a recursive
  description. What a recursive operator computes is out of the prover's reach.
* `JumpsToTheNamedLoop`: the loops among the open blocks would have to be
  counted along the chain that EXIT and CONTINUE walk.
* `CodeIsWellFormed`, `NamesMeanWhatTheTextSays` and `DeclarationsAreKept`
  compare what was translated with the lists of instructions as a whole or with
  the text of the program.
* What the machine does with code: `CallsGiveTheirMeaning`, `RunsWithoutFault`
  and the others of the `builtins` and `machine` runs.
* Liveness (`LoopsEnd`, `ScansToEnd`, `Terminates`, `ParseEnds`, `CallsEnd`):
  the prover has no rule for fairness, which rests on ENABLED.

## 5. Findings

| Run | Source | Program | Against |
|---|---|---|---|
| `trans_exit` | `sem_analyzer.c:284` | `EXIT DO` just after `LOOP`, in no loop, is accepted and jumps backwards to the end of that loop | `test/test_files/syntax/loops/23.code:1` |
| `machine_scopes` | `sem_analyzer.c:1974` | in a SCOPE within a SCOPE the local variables of the outer one are in another frame, so `PRINT a` stops the interpreter | `test/test_files/syntax/basic/10.code:1`, `test/parser.cpp:128` |

A finished analyzer leaves the stack when the *next* token is handed over, and
searches of the stack in between do not ask whether an analyzer has finished:
the cause of `trans_exit`, and of the iterator that is still visible after its
loop. Other disagreements met while modelling are the conditions listed in
section 3.

## 6. Not modelled, and the plan

Not modelled: opening the file in `main.c` and its exit codes, `debug.c`
(printing for developers), the text of instructions (a real constant is printed
with `%g`, six digits), the digits of generated ids, `sparse_table.c` (a map
that is filled once and then read) and `stack.c` (sequences where it is used);
`buffer_set_str`, which nothing calls. The backlog appears twice, in Scanner
and in LLParser, where tokens are not spelled; the two models are not composed.
ExprParser and Translator are not composed either: an expression leaves one
value of its type, `ResultHandedOver` (a part of `DataStackMatchesAnalyzers`), and that is what
Translator takes from it.

What is left of the proofs about `Translator`:

1. `JumpsToTheNamedLoop`, which follows from `BlocksAreHeld` with the loops in the
   chain of analyzers that EXIT and CONTINUE walk along;
2. `CodeIsWellFormed`: labels carry the uid of their statement, so that an
   invariant on the uids in use would do.
