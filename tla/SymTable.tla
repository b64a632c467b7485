------------------------------ MODULE SymTable ------------------------------
(***************************************************************************)
(* src/src/symtable.c: the hash table of functions.  Items with one hash   *)
(* are chained; the types of the parameters are packed into one string and *)
(* their names into another, each with a mark behind it.  The table of     *)
(* variables is the same code with an item that holds a type only.         *)
(***************************************************************************)
EXTENDS Ascii, Buffer, SequencesExt

CONSTANTS
    Key,                \* names of functions, as codes
    Name,               \* names of parameters, as codes
    Type,               \* the keywords a parameter is declared with
    NoType,             \* END_OF_TERMINALS
    BucketCount,
    ULONG_MAX,          \* the largest unsigned long
    BUFFER_INIT_SIZE,
    MaxParams           \* parameters in the whole table

ASSUME SizeAssumption == BucketCount \in Nat \ {0} /\ ULONG_MAX \in Nat /\ BUFFER_INIT_SIZE \in Nat
ASSUME NameAssumption == \A n \in Key \cup Name : n \in Seq(1 .. 127) /\ n # << >>

VARIABLES
    ptr,                \* the chains of items, by bucket; << >> once freed
    declared            \* history: by name, the signatures that were declared

vars == <<ptr, declared>>

Mark == Code("#")
TypeChar == [KW_INTEGER |-> Code("i"), KW_DOUBLE |-> Code("d"), KW_STRING |-> Code("s"),
             KW_BOOLEAN |-> Code("b")]

\* What is asked of the codes of characters: a letter for each type, none of
\* them the end of a string, and no mark in a name.
ASSUME CodeAssumption ==
    /\ \A t \in DOMAIN TypeChar : TypeChar[t] \in 1 .. 127
    /\ \A t, u \in DOMAIN TypeChar : TypeChar[t] = TypeChar[u] => t = u
    /\ Mark \in 1 .. 127 /\ \A n \in Name : \A i \in DOMAIN n : n[i] # Mark
ASSUME TypeAssumption == Type \subseteq DOMAIN TypeChar /\ NoType \notin Type

\* djb2
hash_func(key) ==
    LET hash[i \in 0 .. Len(key)] ==
            IF i = 0 THEN 5381 % (ULONG_MAX + 1) ELSE (hash[i - 1] * 33 + key[i]) % (ULONG_MAX + 1)
    IN  hash[Len(key)]

Bucket(key) == hash_func(key) % BucketCount
Buckets == 0 .. BucketCount - 1

Init ==
    /\ ptr = [b \in Buckets |-> << >>]
    /\ declared = << >>
-----------------------------------------------------------------------------
(* Look-up: the item of the chain with the key                             *)

\* Mutated: the first item of the chain will do.
SameBucket(item, key) == Bucket(item.key) = Bucket(key)

HasKey(item, key) == item.key = key

Places(key) == {i \in DOMAIN ptr[Bucket(key)] : HasKey(ptr[Bucket(key)][i], key)}
Found(key) == ptr # << >> /\ Places(key) # {}
htab_find(key) == ptr[Bucket(key)][Min(Places(key))]
-----------------------------------------------------------------------------
(* The signature of a function, in the item                                *)

alloc_func_item(key) ==
    [key |-> key, ret_type |-> NoType, params_num |-> 0, defined |-> FALSE,
     param_types |-> buffer_init(BUFFER_INIT_SIZE), param_names |-> buffer_init(BUFFER_INIT_SIZE)]

func_get_param(item, idx) ==
    IF idx > item.params_num THEN NoType
    ELSE CHOOSE t \in DOMAIN TypeChar : TypeChar[t] = item.param_types.str[idx - 1]

Marks(item) == {i \in 0 .. item.param_names.len : item.param_names.str[i] = Mark}

\* Where the next name goes; the marks are not counted past the parameters.
func_get_param_idx(item) == Min({Cardinality(Marks(item)), item.params_num}) + 1

NameEnd(item, from) == Min({i \in DOMAIN item.param_names.str :
                              i >= from /\ item.param_names.str[i] = Mark})

\* A name begins behind the mark of the one before, and has a character.
func_get_param_name(item, idx) ==
    LET start[k \in 1 .. idx] == IF k = 1 THEN 0 ELSE NameEnd(item, start[k - 1] + 1) + 1
    IN  [i \in 1 .. NameEnd(item, start[idx]) - start[idx] |->
            item.param_names.str[start[idx] + i - 1]]
-----------------------------------------------------------------------------
(* Operations.  Callers take the item from a find or an insert.            *)

Update(key, item) == ptr' = [ptr EXCEPT ![Bucket(key)][Min(Places(key))] = item]
Forgotten(key) == [k \in DOMAIN declared \ {key} |-> declared[k]]
NoParams == [types |-> << >>, names |-> << >>, ret_type |-> NoType, defined |-> FALSE]

\* Mutated: the chain is not searched.
InsertAlways(key) == TRUE

IsNew(key) == ~Found(key)

\* An insert of a key that is there returns its item.
htab_func_insert(key) ==
    /\ ptr # << >> /\ IsNew(key)
    /\ ptr' = [ptr EXCEPT ![Bucket(key)] = Append(@, alloc_func_item(key))]
    /\ declared' = [k \in DOMAIN declared \cup {key} |-> IF k = key THEN NoParams ELSE declared[k]]

\* not called by the compiler
htab_func_remove(key) ==
    /\ Found(key)
    /\ ptr' = [ptr EXCEPT ![Bucket(key)] = RemoveAt(@, Min(Places(key)))]
    /\ declared' = Forgotten(key)

WithParam(item, type) ==
    [item EXCEPT !.params_num = @ + 1, !.param_types = buffer_append_c(@, TypeChar[type])]

\* A bound on the parameters in the whole table
Stored == FlattenSeq([b \in 1 .. BucketCount |-> ptr[b - 1]])
RoomForAParam == FoldSeq(LAMBDA item, n : item.params_num + n, 0, Stored) < MaxParams

\* The head of a function: its parameters first, then the type of its result
func_add_param(key, type) ==
    /\ Found(key) /\ htab_find(key).ret_type = NoType
    /\ RoomForAParam
    /\ Update(key, WithParam(htab_find(key), type))
    /\ declared' = [declared EXCEPT ![key].types = Append(@, type)]

func_set_ret_type(key, type) ==
    /\ Found(key) /\ htab_find(key).ret_type = NoType
    /\ Update(key, [htab_find(key) EXCEPT !.ret_type = type])
    /\ declared' = [declared EXCEPT ![key].ret_type = type]

\* A definition names no more parameters than there are: sem_func_def
\* compares the type with that of the index first.
func_store_param_name(key, name) ==
    /\ Found(key)
    /\ LET item == htab_find(key)
       IN  /\ func_get_param(item, func_get_param_idx(item)) # NoType
           /\ Update(key, [item EXCEPT !.param_names =
                              buffer_append_c(buffer_append_str(@, name), Mark)])
    /\ declared' = [declared EXCEPT ![key].names = Append(@, name)]

func_set_defined(key) ==
    /\ Found(key)
    /\ Update(key, [htab_find(key) EXCEPT !.defined = TRUE])
    /\ declared' = [declared EXCEPT ![key].defined = TRUE]

htab_func_free ==
    /\ ptr # << >>
    /\ ptr' = << >>
    /\ declared' = << >>

Next ==
    \/ \E key \in Key :
         \/ htab_func_insert(key) \/ htab_func_remove(key) \/ func_set_defined(key)
         \/ \E type \in Type : func_add_param(key, type) \/ func_set_ret_type(key, type)
         \/ \E name \in Name : func_store_param_name(key, name)
    \/ htab_func_free

Spec == Init /\ [][Next]_vars
-----------------------------------------------------------------------------
(* Every function is in the chain of its hash, and in it once, so that a   *)
(* find that stops at the first item sees all there is.                    *)
KeysInTheirChainOnce ==
    ptr # << >> =>
        \A b \in Buckets : \A i, j \in DOMAIN ptr[b] :
            /\ Bucket(ptr[b][i].key) = b
            /\ ptr[b][i].key = ptr[b][j].key => i = j

(* The two strings of a signature are C strings of the kept length,        *)
(* whichever of the two ways of growing a buffer made room for them.       *)
SignaturesAreStrings ==
    ptr # << >> =>
        \A b \in Buckets : \A i \in DOMAIN ptr[b] :
            HoldsString(ptr[b][i].param_types) /\ HoldsString(ptr[b][i].param_names)

(* What the accessors read in the table is what was declared: the packed   *)
(* types and names are sequences, whatever their lengths, and functions    *)
(* with one hash do not share them.                                        *)
Read(key) ==
    LET item == htab_find(key)
    IN  [types |-> [i \in 1 .. item.params_num |-> func_get_param(item, i)],
         names |-> [i \in 1 .. func_get_param_idx(item) - 1 |-> func_get_param_name(item, i)],
         ret_type |-> item.ret_type, defined |-> item.defined]

SignaturesReadBack ==
    ptr # << >> => \A key \in Key : /\ Found(key) <=> key \in DOMAIN declared
                                   /\ Found(key) => Read(key) = declared[key]
=============================================================================
