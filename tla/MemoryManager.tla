--------------------------- MODULE MemoryManager ---------------------------
(***************************************************************************)
(* src/src/memory_manager.c: every block the compiler allocates goes       *)
(* through mm_malloc, mm_realloc and mm_free.  The manager keeps the       *)
(* addresses in a growing array; the used slots are the first first_free   *)
(* ones, and mm_free fills the hole with the last used slot.  The C        *)
(* library's malloc, realloc and free are external: any address not in     *)
(* use may come back, and any request may fail.                            *)
(***************************************************************************)
EXTENDS Naturals, FiniteSets

CONSTANTS
    Addr,           \* addresses malloc and realloc can return
    Null,           \* NULL, also the content of a slot nobody wrote
    MEMORY_CHUNK    \* slots added when the array is full (100 in the code)

ASSUME AddrAssumption == Null \notin Addr
ASSUME ChunkAssumption == MEMORY_CHUNK \in Nat \ {0}

VARIABLES
    memory,         \* the slots, indexed from 0 as in C
    first_free,     \* number of used slots
    size,           \* number of slots
    max_blocks,     \* high-water mark of first_free
    heap,           \* external: addresses the C allocator has handed out
    phase           \* "running", "freed" (normal end) or "intern_error"

vars == <<memory, first_free, size, max_blocks, heap, phase>>

Used == 0 .. (first_free - 1)
Recorded == {memory[i] : i \in Used}

Max2(a, b) == IF a < b THEN b ELSE a
-----------------------------------------------------------------------------
(* mem_manager_init, malloc having succeeded *)
Init ==
    /\ memory = [i \in 0 .. (MEMORY_CHUNK - 1) |-> Null]
    /\ first_free = 0
    /\ size = MEMORY_CHUNK
    /\ max_blocks = 0
    /\ heap = {}
    /\ phase = "running"

\* Mutated: the table grows after it has overflowed.
TableFullTooLate == first_free > size

(* The test of get_free_memory_block: one slot is always kept unused *)
TableFull == first_free >= size - 1

(* memory_expand, when get_free_memory_block needs it *)
SizeForOneMore == IF TableFull THEN size + MEMORY_CHUNK ELSE size
TableForOneMore ==
    [i \in 0 .. (SizeForOneMore - 1) |-> IF i < size THEN memory[i] ELSE Null]

\* Mutated: the high-water mark is taken before the slot is.
TakeSlotMarkedEarly(p) ==
    /\ memory' = [TableForOneMore EXCEPT ![first_free] = p]
    /\ size' = SizeForOneMore
    /\ first_free' = first_free + 1
    /\ max_blocks' = Max2(max_blocks, first_free)

(* get_free_memory_block: the slot it returns holds the block p *)
TakeSlot(p) ==
    /\ memory' = [TableForOneMore EXCEPT ![first_free] = p]
    /\ size' = SizeForOneMore
    /\ first_free' = first_free + 1
    /\ max_blocks' = Max2(max_blocks, first_free + 1)

mm_malloc(p) ==
    /\ phase = "running"
    /\ p \in Addr \ heap
    /\ TakeSlot(p)
    /\ heap' = heap \cup {p}
    /\ UNCHANGED phase

(* malloc returned NULL: the slot stays NULL, everything is freed, exit(99) *)
mm_malloc_fails ==
    /\ phase = "running"
    /\ memory' = [TableForOneMore EXCEPT ![first_free] = Null]
    /\ size' = SizeForOneMore
    /\ max_blocks' = Max2(max_blocks, first_free + 1)
    /\ first_free' = 0
    /\ heap' = heap \ Recorded
    /\ phase' = "intern_error"

(* the array itself cannot grow: exit(99) at once, nothing is freed *)
memory_expand_fails ==
    /\ phase = "running"
    /\ TableFull
    /\ phase' = "intern_error"
    /\ UNCHANGED <<memory, first_free, size, max_blocks, heap>>

(* memory_block_find: the first used slot that holds p *)
HoldsFirst(i, p) ==
    /\ i \in Used
    /\ memory[i] = p
    /\ \A j \in Used : memory[j] = p => i <= j

mm_realloc(p, q) ==
    /\ phase = "running"
    /\ q \in (Addr \ heap) \cup {p}
    /\ \E i \in Used :
        /\ HoldsFirst(i, p)
        /\ memory' = [memory EXCEPT ![i] = q]
    /\ heap' = (heap \ {p}) \cup {q}
    /\ UNCHANGED <<first_free, size, max_blocks, phase>>

(* realloc returned NULL: the slot loses p, all other blocks are freed *)
mm_realloc_fails(p) ==
    /\ phase = "running"
    /\ \E i \in Used :
        /\ HoldsFirst(i, p)
        /\ memory' = [memory EXCEPT ![i] = Null]
        /\ heap' = heap \ {memory'[j] : j \in Used}
    /\ first_free' = 0
    /\ phase' = "intern_error"
    /\ UNCHANGED <<size, max_blocks>>

\* Mutated: the last used slot is cut off whichever slot was freed.
FillHoleWithoutSwap(i, last) == memory

(* memory_block_swap of the freed slot with the last used one *)
FillHole(i, last) == [memory EXCEPT ![i] = memory[last], ![last] = memory[i]]

mm_free(p) ==
    /\ phase = "running"
    /\ \E i \in Used :
        /\ HoldsFirst(i, p)
        /\ memory' = FillHole(i, first_free - 1)
    /\ heap' = heap \ {p}
    /\ first_free' = first_free - 1
    /\ UNCHANGED <<size, max_blocks, phase>>

(* mm_free or mm_realloc of an address that is not recorded: exit(99) *)
memory_block_find_fails(p) ==
    /\ phase = "running"
    /\ p \notin Recorded
    /\ phase' = "intern_error"
    /\ UNCHANGED <<memory, first_free, size, max_blocks, heap>>

\* Mutated: the loop stops one block early.
mem_manager_free_all_but_last ==
    /\ phase = "running"
    /\ heap' = heap \ {memory[i] : i \in 0 .. (first_free - 2)}
    /\ first_free' = 0
    /\ phase' = "freed"
    /\ UNCHANGED <<memory, size, max_blocks>>

mem_manager_free ==
    /\ phase = "running"
    /\ heap' = heap \ Recorded
    /\ first_free' = 0
    /\ phase' = "freed"
    /\ UNCHANGED <<memory, size, max_blocks>>

Next ==
    \/ \E p \in Addr : \/ mm_malloc(p)
                       \/ mm_free(p)
                       \/ mm_realloc_fails(p)
                       \/ memory_block_find_fails(p)
    \/ \E p, q \in Addr : mm_realloc(p, q)
    \/ mm_malloc_fails
    \/ memory_expand_fails
    \/ mem_manager_free

Spec == Init /\ [][Next]_vars
-----------------------------------------------------------------------------
(* Type invariant: the slots are exactly 0 .. size-1 and the used ones fit *)
(* the array with one to spare, so memory[first_free] can be written.      *)
TypeOK ==
    /\ size \in Nat \ {0}
    /\ first_free \in 0 .. (size - 1)
    /\ memory \in [0 .. (size - 1) -> Addr \cup {Null}]
    /\ max_blocks \in Nat
    /\ heap \subseteq Addr
    /\ phase \in {"running", "freed", "intern_error"}

(* While the compiler runs, every block it holds is recorded in exactly    *)
(* one slot and every recorded address is a block it holds: no block can   *)
(* be lost by the swap in mm_free or freed twice by mem_manager_free.      *)
EachBlockRecordedOnce ==
    phase = "running" =>
        /\ Recorded = heap
        /\ \A i, j \in Used : memory[i] = memory[j] => i = j

(* mem_manager_free at the end of main leaves no block behind. *)
NoBlockLeftAtEnd == phase = "freed" => heap = {}

(* The manager implements the store of live blocks, its high-water mark    *)
(* being the largest number of blocks ever live.                           *)
Store == INSTANCE BlockStore WITH live <- heap, peak <- max_blocks
ImplementsBlockStore == Store!Spec
=============================================================================
