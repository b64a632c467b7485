----------------------- MODULE MemoryManager_proofs -----------------------
(***************************************************************************)
(* Proofs about the memory manager, for any set of addresses and any       *)
(* positive chunk.  The inductive invariant adds to the checked ones that  *)
(* the used slots count the live blocks, which the high-water mark of the  *)
(* refinement needs.                                                       *)
(***************************************************************************)
EXTENDS MemoryManager, TLAPS, FiniteSetTheorems

UsedSlotsCountBlocks ==
    phase = "running" => IsFiniteSet(heap) /\ Cardinality(heap) = first_free

IInv ==
    /\ TypeOK
    /\ EachBlockRecordedOnce
    /\ UsedSlotsCountBlocks
    /\ NoBlockLeftAtEnd

USE AddrAssumption, ChunkAssumption
-----------------------------------------------------------------------------
(* The table prepared for one more block keeps the old slots and has an    *)
(* unwritten one at first_free (memory_expand).                            *)
LEMMA RoomForOneMore ==
    ASSUME TypeOK
    PROVE  /\ SizeForOneMore \in Nat \ {0}
           /\ first_free + 1 \in 0 .. (SizeForOneMore - 1)
           /\ TableForOneMore \in [0 .. (SizeForOneMore - 1) -> Addr \cup {Null}]
           /\ \A i \in Used : TableForOneMore[i] = memory[i]
<1>1. SizeForOneMore \in Nat \ {0} /\ first_free + 1 \in 0 .. (SizeForOneMore - 1)
      /\ size <= SizeForOneMore
  BY DEF TypeOK, SizeForOneMore, TableFull
<1>2. \A i \in Used : i \in 0 .. (size - 1) /\ i \in 0 .. (SizeForOneMore - 1)
  BY <1>1 DEF TypeOK, Used
<1>3. ASSUME NEW i \in 0 .. (SizeForOneMore - 1), i < size
      PROVE  memory[i] \in Addr \cup {Null}
  BY <1>1, <1>3 DEF TypeOK
<1>4. TableForOneMore \in [0 .. (SizeForOneMore - 1) -> Addr \cup {Null}]
  BY <1>3 DEF TableForOneMore
<1>5. \A i \in Used : TableForOneMore[i] = memory[i]
  BY <1>1, <1>2 DEF TableForOneMore, TypeOK
<1> QED BY <1>1, <1>4, <1>5

(* The slots after mm_free filled the hole hold the other blocks, each     *)
(* once (memory_block_swap).                                               *)
LEMMA HoleFilled ==
    ASSUME TypeOK, EachBlockRecordedOnce, phase = "running",
           NEW p, NEW i \in Used, HoldsFirst(i, p),
           NEW t, t = FillHole(i, first_free - 1)
    PROVE  /\ t \in [0 .. (size - 1) -> Addr \cup {Null}]
           /\ first_free - 1 \in 0 .. (size - 1)
           /\ {t[j] : j \in 0 .. (first_free - 2)} = heap \ {p}
           /\ \A j, k \in 0 .. (first_free - 2) : t[j] = t[k] => j = k
<1> DEFINE last == first_free - 1
<1>1. i \in 0 .. (size - 1) /\ last \in 0 .. (size - 1) /\ last \in Used /\ i <= last
      /\ Used \subseteq 0 .. (size - 1) /\ Used \subseteq Int
      /\ Used = 0 .. last /\ 0 .. (first_free - 2) = Used \ {last}
  BY DEF TypeOK, Used
<1>2. t \in [0 .. (size - 1) -> Addr \cup {Null}]
  BY <1>1 DEF TypeOK, FillHole
<1>3. \A j \in Used \ {last} : t[j] = IF j = i THEN memory[last] ELSE memory[j]
  BY <1>1 DEF TypeOK, FillHole
<1>4. \A j, k \in Used : memory[j] = memory[k] => j = k
  BY DEF EachBlockRecordedOnce
<1>5. memory[i] = p /\ heap = {memory[j] : j \in Used}
  BY DEF HoldsFirst, EachBlockRecordedOnce, Recorded
<1>6. \A j, k \in Used \ {last} : t[j] = t[k] => j = k
  BY <1>1, <1>3, <1>4
<1>7. ASSUME NEW j \in Used \ {last} PROVE t[j] \in heap \ {p}
  BY <1>1, <1>3, <1>4, <1>5
<1>8. ASSUME NEW b \in heap \ {p} PROVE \E j \in Used \ {last} : t[j] = b
  <2>1. PICK k \in Used : memory[k] = b
    BY <1>5
  <2>2. CASE k = last
    <3>1. i # last BY <2>1, <2>2, <1>5
    <3>2. t[i] = b BY <3>1, <2>1, <2>2, <1>3
    <3> QED BY <3>1, <3>2
  <2>3. CASE k # last
    BY <2>1, <2>3, <1>3, <1>5
  <2> QED BY <2>2, <2>3
<1>9. {t[j] : j \in Used \ {last}} = heap \ {p}
  BY <1>7, <1>8
<1> QED BY <1>1, <1>2, <1>6, <1>9
-----------------------------------------------------------------------------
LEMMA InitEstablishes == Init => IInv
<1> SUFFICES ASSUME Init PROVE IInv
  OBVIOUS
<1>1. TypeOK
  BY DEF Init, TypeOK
<1>2. IsFiniteSet(heap) /\ Cardinality(heap) = 0
  BY FS_EmptySet DEF Init
<1>3. Used = {}
  BY DEF Init, Used
<1> QED BY <1>1, <1>2, <1>3
       DEF Init, IInv, EachBlockRecordedOnce, Recorded, UsedSlotsCountBlocks, NoBlockLeftAtEnd

LEMMA MallocPreserves ==
    ASSUME IInv, NEW p \in Addr, mm_malloc(p)
    PROVE  IInv'
<1> USE DEF IInv, mm_malloc, TakeSlot
<1>1. TypeOK /\ phase = "running" /\ phase' = "running" /\ p \in Addr \ heap
  OBVIOUS
<1>2. TypeOK'
  BY <1>1, RoomForOneMore DEF TypeOK, Max2
<1>3. /\ Used' = Used \cup {first_free} /\ first_free \notin Used
      /\ first_free \in 0 .. (SizeForOneMore - 1)
  BY <1>1, RoomForOneMore DEF TypeOK, Used
<1>4. /\ \A i \in Used : memory'[i] = memory[i]
      /\ memory'[first_free] = p
  <2>1. \A i \in Used : i # first_free /\ i \in 0 .. (SizeForOneMore - 1)
    BY <1>1, RoomForOneMore DEF TypeOK, Used
  <2> QED BY <1>1, <1>3, <2>1, RoomForOneMore
<1>5. EachBlockRecordedOnce'
  BY <1>1, <1>3, <1>4 DEF EachBlockRecordedOnce, Recorded
<1>6. UsedSlotsCountBlocks'
  BY <1>1, FS_AddElement DEF UsedSlotsCountBlocks
<1> QED BY <1>1, <1>2, <1>5, <1>6 DEF NoBlockLeftAtEnd

LEMMA ReallocPreserves ==
    ASSUME IInv, NEW p \in Addr, NEW q \in Addr, mm_realloc(p, q)
    PROVE  IInv'
<1> USE DEF IInv, mm_realloc
<1>1. TypeOK /\ EachBlockRecordedOnce /\ phase = "running" /\ phase' = "running"
  OBVIOUS
<1>2. PICK i \in Used : HoldsFirst(i, p) /\ memory' = [memory EXCEPT ![i] = q]
  OBVIOUS
<1>3. Used' = Used /\ Used \subseteq 0 .. (size - 1)
  BY <1>1 DEF Used, TypeOK
<1>4. \A j \in Used : memory'[j] = IF j = i THEN q ELSE memory[j]
  BY <1>1, <1>2, <1>3 DEF TypeOK
<1>5. /\ memory[i] = p /\ heap = {memory[j] : j \in Used} /\ p \in heap
      /\ \A j, k \in Used : memory[j] = memory[k] => j = k
  BY <1>1, <1>2 DEF HoldsFirst, EachBlockRecordedOnce, Recorded
<1>6. TypeOK'
  BY <1>1, <1>2, <1>3 DEF TypeOK
<1>7. EachBlockRecordedOnce'
  <2>1. ASSUME NEW j \in Used PROVE memory'[j] \in heap'
    BY <1>4, <1>5
  <2>2. ASSUME NEW b \in heap' PROVE \E j \in Used : memory'[j] = b
    <3>1. CASE b = q BY <3>1, <1>4
    <3>2. CASE b # q
      <4>1. PICK j \in Used : memory[j] = b BY <3>2, <1>5
      <4>2. j # i BY <4>1, <3>2, <1>5
      <4> QED BY <4>1, <4>2, <1>4
    <3> QED BY <3>1, <3>2
  <2>3. \A j, k \in Used : memory'[j] = memory'[k] => j = k
    <3> SUFFICES ASSUME NEW j \in Used, NEW k \in Used, memory'[j] = memory'[k]
                 PROVE  j = k
      OBVIOUS
    <3>1. \A n \in Used \ {i} : memory[n] \in heap \ {p}
      BY <1>5
    <3> QED BY <1>4, <1>5, <3>1
  <2>4. Recorded' = heap'
    BY <2>1, <2>2, <1>3 DEF Recorded
  <2> QED BY <2>3, <2>4, <1>3 DEF EachBlockRecordedOnce
<1>8. UsedSlotsCountBlocks'
  <2>1. /\ IsFiniteSet(heap) /\ Cardinality(heap) = first_free
    BY <1>1 DEF UsedSlotsCountBlocks
  <2>2. /\ IsFiniteSet(heap \ {p}) /\ Cardinality(heap \ {p}) = first_free - 1
    BY <2>1, <1>5, FS_RemoveElement
  <2>3. q \notin heap \ {p}
    OBVIOUS
  <2>4. /\ IsFiniteSet(heap') /\ Cardinality(heap') = first_free - 1 + 1
    BY <2>2, <2>3, FS_AddElement
  <2> QED BY <2>4, <1>1 DEF UsedSlotsCountBlocks, TypeOK
<1> QED BY <1>1, <1>6, <1>7, <1>8 DEF NoBlockLeftAtEnd

LEMMA FreePreserves ==
    ASSUME IInv, NEW p \in Addr, mm_free(p)
    PROVE  IInv'
<1> USE DEF IInv, mm_free
<1>1. TypeOK /\ EachBlockRecordedOnce /\ phase = "running" /\ phase' = "running"
  OBVIOUS
<1>2. PICK i \in Used : HoldsFirst(i, p) /\ memory' = FillHole(i, first_free - 1)
  OBVIOUS
<1>3. /\ memory' \in [0 .. (size - 1) -> Addr \cup {Null}]
      /\ first_free - 1 \in 0 .. (size - 1)
      /\ {memory'[j] : j \in 0 .. (first_free - 2)} = heap \ {p}
      /\ \A j, k \in 0 .. (first_free - 2) : memory'[j] = memory'[k] => j = k
  BY <1>1, <1>2, HoleFilled
<1>4. Used' = 0 .. (first_free - 2)
  BY <1>1 DEF Used, TypeOK
<1>5. TypeOK'
  BY <1>1, <1>3 DEF TypeOK
<1>6. EachBlockRecordedOnce'
  BY <1>3, <1>4 DEF EachBlockRecordedOnce, Recorded
<1>7. p \in heap
  BY <1>1, <1>2 DEF HoldsFirst, EachBlockRecordedOnce, Recorded
<1>8. UsedSlotsCountBlocks'
  BY <1>1, <1>7, FS_RemoveElement DEF UsedSlotsCountBlocks
<1> QED BY <1>1, <1>5, <1>6, <1>8 DEF NoBlockLeftAtEnd

(* The steps that end the program: only the types and the empty heap of a  *)
(* normal end are left to show.                                            *)
Ends ==
    \/ \E p \in Addr : mm_realloc_fails(p) \/ memory_block_find_fails(p)
    \/ mm_malloc_fails
    \/ memory_expand_fails
    \/ mem_manager_free

LEMMA EndsPreserves ==
    ASSUME IInv, Ends
    PROVE  IInv'
<1>1. TypeOK /\ EachBlockRecordedOnce /\ phase = "running"
  BY DEF IInv, Ends, mm_realloc_fails, memory_block_find_fails, mm_malloc_fails,
         memory_expand_fails, mem_manager_free
<1>2. CASE \E p \in Addr : mm_realloc_fails(p)
  <2>1. PICK p \in Addr : mm_realloc_fails(p) BY <1>2
  <2>2. PICK i \in Used : memory' = [memory EXCEPT ![i] = Null]
    BY <2>1 DEF mm_realloc_fails
  <2>3. TypeOK'
    BY <1>1, <2>1, <2>2 DEF TypeOK, mm_realloc_fails, Used
  <2> QED BY <2>1, <2>3 DEF IInv, mm_realloc_fails, EachBlockRecordedOnce,
             UsedSlotsCountBlocks, NoBlockLeftAtEnd
<1>3. CASE \E p \in Addr : memory_block_find_fails(p)
  <2>1. TypeOK'
    BY <1>1, <1>3 DEF TypeOK, memory_block_find_fails
  <2> QED BY <1>3, <2>1 DEF IInv, memory_block_find_fails, EachBlockRecordedOnce,
             UsedSlotsCountBlocks, NoBlockLeftAtEnd
<1>4. CASE mm_malloc_fails
  <2>1. TypeOK'
    BY <1>1, <1>4, RoomForOneMore DEF TypeOK, mm_malloc_fails, Max2
  <2> QED BY <1>4, <2>1 DEF IInv, mm_malloc_fails, EachBlockRecordedOnce,
             UsedSlotsCountBlocks, NoBlockLeftAtEnd
<1>5. CASE memory_expand_fails
  <2>1. TypeOK'
    BY <1>1, <1>5 DEF TypeOK, memory_expand_fails
  <2> QED BY <1>5, <2>1 DEF IInv, memory_expand_fails, EachBlockRecordedOnce,
             UsedSlotsCountBlocks, NoBlockLeftAtEnd
<1>6. CASE mem_manager_free
  <2>1. TypeOK'
    BY <1>1, <1>6 DEF TypeOK, mem_manager_free
  <2>2. heap' = {}
    BY <1>1, <1>6 DEF EachBlockRecordedOnce, mem_manager_free
  <2> QED BY <1>6, <2>1, <2>2 DEF IInv, mem_manager_free, EachBlockRecordedOnce,
             UsedSlotsCountBlocks, NoBlockLeftAtEnd
<1> QED BY <1>2, <1>3, <1>4, <1>5, <1>6 DEF Ends

LEMMA NextPreserves == IInv /\ [Next]_vars => IInv'
<1> SUFFICES ASSUME IInv, [Next]_vars PROVE IInv'
  OBVIOUS
<1>1. ASSUME NEW p \in Addr, mm_malloc(p) PROVE IInv'
  BY <1>1, MallocPreserves
<1>2. ASSUME NEW p \in Addr, mm_free(p) PROVE IInv'
  BY <1>2, FreePreserves
<1>3. ASSUME NEW p \in Addr, NEW q \in Addr, mm_realloc(p, q) PROVE IInv'
  BY <1>3, ReallocPreserves
<1>4. CASE Ends
  BY <1>4, EndsPreserves
<1>5. CASE UNCHANGED vars
  BY <1>5 DEF vars, IInv, TypeOK, EachBlockRecordedOnce, Recorded, Used,
              UsedSlotsCountBlocks, NoBlockLeftAtEnd
<1> QED BY <1>1, <1>2, <1>3, <1>4, <1>5 DEF Next, Ends

LEMMA SpecInvariant == Spec => []IInv
  BY InitEstablishes, NextPreserves, PTL DEF Spec
-----------------------------------------------------------------------------
(* The table of blocks has the shape the C code relies on: a used part     *)
(* that never fills the array.                                             *)
THEOREM TypeCorrect == Spec => []TypeOK
<1>1. IInv => TypeOK BY DEF IInv
<1> QED BY <1>1, SpecInvariant, PTL

(* mm_malloc, mm_realloc and mm_free keep every live block in exactly one  *)
(* used slot, however many blocks there are.                               *)
THEOREM BlocksRecordedOnce == Spec => []EachBlockRecordedOnce
<1>1. IInv => EachBlockRecordedOnce BY DEF IInv
<1> QED BY <1>1, SpecInvariant, PTL

(* A normal end of the program leaves no block allocated.                  *)
THEOREM NothingLeftAtEnd == Spec => []NoBlockLeftAtEnd
<1>1. IInv => NoBlockLeftAtEnd BY DEF IInv
<1> QED BY <1>1, SpecInvariant, PTL
-----------------------------------------------------------------------------
LEMMA InitRefines == Init => Store!Init
  BY DEF Init, Store!Init

LEMMA NextRefines == IInv /\ [Next]_vars => [Store!Next]_(Store!storeVars)
<1> SUFFICES ASSUME IInv, [Next]_vars PROVE [Store!Next]_(Store!storeVars)
  OBVIOUS
<1> USE DEF Store!Next, Store!storeVars
<1>1. TypeOK /\ EachBlockRecordedOnce /\ UsedSlotsCountBlocks
  BY DEF IInv
<1>2. ASSUME NEW p \in Addr, mm_malloc(p) PROVE Store!Allocate(p)
  <2>1. Cardinality(heap') = first_free + 1
    BY <1>1, <1>2, FS_AddElement DEF mm_malloc, UsedSlotsCountBlocks
  <2>2. Store!Cardinality(heap') = Cardinality(heap')
    BY DEF Store!Cardinality, Cardinality
  <2> QED BY <1>2, <2>1, <2>2 DEF mm_malloc, TakeSlot, Max2, Store!Allocate, Store!Larger
<1>3. ASSUME NEW p \in Addr, mm_free(p) PROVE Store!Release(p)
  BY <1>1, <1>3
     DEF mm_free, HoldsFirst, EachBlockRecordedOnce, Recorded, Store!Release
<1>4. ASSUME NEW p \in Addr, NEW q \in Addr, mm_realloc(p, q) PROVE Store!Reallocate(p, q)
  BY <1>1, <1>4
     DEF mm_realloc, HoldsFirst, EachBlockRecordedOnce, Recorded, Store!Reallocate
<1>5. CASE Ends
  <2>1. max_blocks' >= max_blocks
    BY <1>1, <1>5 DEF Ends, TypeOK, Max2, mm_realloc_fails, memory_block_find_fails,
       mm_malloc_fails, memory_expand_fails, mem_manager_free
  <2>2. phase = "running" /\ heap' \subseteq heap
        /\ (phase' = "intern_error" \/ (phase' = "freed" /\ heap' = {}))
    BY <1>1, <1>5 DEF Ends, EachBlockRecordedOnce, mm_realloc_fails,
       memory_block_find_fails, mm_malloc_fails, memory_expand_fails, mem_manager_free
  <2>3. Store!Close
    BY <2>1, <2>2 DEF Store!Close
  <2> QED BY <2>3
<1>6. CASE UNCHANGED vars
  BY <1>6 DEF vars
<1> QED BY <1>2, <1>3, <1>4, <1>5, <1>6 DEF Next, Ends

(* To its callers the manager is a set of live blocks: malloc never hands  *)
(* out a live block, realloc and free touch only the block they are given. *)
THEOREM ManagerImplementsBlockStore == Spec => ImplementsBlockStore
<1> QED BY InitRefines, NextRefines, SpecInvariant, PTL DEF Spec, ImplementsBlockStore, Store!Spec
=============================================================================
