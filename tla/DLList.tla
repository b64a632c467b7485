------------------------------- MODULE DLList -------------------------------
(***************************************************************************)
(* src/src/dllist.c: doubly linked lists on the heap, with one active item *)
(* each, and the way sem_value_copy of src/src/sem_analyzer.c moves a list *)
(* into a copy.  The operations with a loop (length, copy, free) move the  *)
(* activity step by step; the rest are one step each.  succ and pred of a  *)
(* list without activity dereference NULL; every caller asks first.        *)
(***************************************************************************)
EXTENDS Naturals, FiniteSets, SequencesExt

CONSTANTS
    List,           \* addresses of lists
    Node,           \* addresses of items
    Data,           \* addresses of what items hold
    Null            \* NULL

ASSUME NullAssumption == Null \notin Node \cup Data

VARIABLES
    exists,         \* the lists that were initialised and not freed
    list,           \* DLList: pointers first, last and active of every list
    node,           \* DLListItem: data, next and prev of every item
    allocated,      \* the items on the heap
    alive,          \* data their owner has not freed
    result,         \* what the last operation returned, << >> if nothing
    pc,             \* the operation that is under way: [op, src, dst, n]
    chain           \* history: the items of every list in the order the
                    \* operations promise

vars == <<exists, list, node, allocated, alive, result, pc, chain>>

Idle == [op |-> "idle", src |-> Null, dst |-> Null, n |-> 0]
NoPointers == [first |-> Null, last |-> Null, active |-> Null]
Blank == [data |-> Null, next |-> Null, prev |-> Null]

Init ==
    /\ exists = {}
    /\ list = [l \in List |-> NoPointers]
    /\ node = [n \in Node |-> Blank]
    /\ allocated = {}
    /\ alive = {}
    /\ result = << >>
    /\ pc = Idle
    /\ chain = [l \in List |-> << >>]
-----------------------------------------------------------------------------
(* Pointers.  An assignment through NULL is skipped, as the code tests it. *)

SetNext(heap, n, to) == IF n = Null THEN heap ELSE [heap EXCEPT ![n].next = to]
SetPrev(heap, n, to) == IF n = Null THEN heap ELSE [heap EXCEPT ![n].prev = to]
Place(l, n) == CHOOSE k \in DOMAIN chain[l] : chain[l][k] = n

\* A new item between two, either of them NULL; the pointers of the list
\* follow.
Link(l, n, x, before, after, order) ==
    /\ n \in Node \ allocated
    /\ allocated' = allocated \cup {n}
    /\ node' = SetPrev(SetNext([node EXCEPT ![n] = [data |-> x, next |-> after, prev |-> before]],
                               before, n), after, n)
    /\ list' = [list EXCEPT ![l].first = IF before = Null THEN n ELSE @,
                            ![l].last = IF after = Null THEN n ELSE @]
    /\ chain' = [chain EXCEPT ![l] = order]
    /\ result' = << >>
    /\ UNCHANGED exists

insert_first(l, n, x) == Link(l, n, x, Null, list[l].first, <<n>> \o chain[l])
insert_last(l, n, x) == Link(l, n, x, list[l].last, Null, Append(chain[l], n))

\* Mutated: the successor of the active item keeps its predecessor.
post_insert_half(l, n, x) ==
    LET a == list[l].active
    IN  /\ n \in Node \ allocated
        /\ allocated' = allocated \cup {n}
        /\ node' = SetNext([node EXCEPT ![n] = [data |-> x, next |-> node[a].next, prev |-> a]], a, n)
        /\ list' = [list EXCEPT ![l].last = IF node[a].next = Null THEN n ELSE @]
        /\ chain' = [chain EXCEPT ![l] = InsertAt(@, Place(l, a) + 1, n)]
        /\ result' = << >>
        /\ UNCHANGED exists

post_insert(l, n, x) ==
    LET a == list[l].active
    IN  Link(l, n, x, a, node[a].next, InsertAt(chain[l], Place(l, a) + 1, n))

pre_insert(l, n, x) ==
    LET a == list[l].active
    IN  Link(l, n, x, node[a].prev, a, InsertAt(chain[l], Place(l, a), n))

\* An item leaves its list; the item called active is active then.
Unlink(l, n, active) ==
    /\ node' = [SetPrev(SetNext(node, node[n].prev, node[n].next), node[n].next, node[n].prev)
                    EXCEPT ![n] = Blank]
    /\ allocated' = allocated \ {n}
    /\ list' = [list EXCEPT ![l].first = IF @ = n THEN node[n].next ELSE @,
                            ![l].last = IF @ = n THEN node[n].prev ELSE @,
                            ![l].active = active]
    /\ chain' = [chain EXCEPT ![l] = RemoveAt(@, Place(l, n))]
    /\ result' = <<node[n].data>>
    /\ UNCHANGED exists

\* Mutated: every deletion at an end ends the activity.
UnlessEver(l, n) == Null

\* The active item, unless it is n
Unless(l, n) == IF list[l].active = n THEN Null ELSE list[l].active
delete_first(l) == Unlink(l, list[l].first, Unless(l, list[l].first))
delete_last(l) == Unlink(l, list[l].last, Unless(l, list[l].last))
delete_and_succ(l) == Unlink(l, list[l].active, node[list[l].active].next)
delete_and_pred(l) == Unlink(l, list[l].active, node[list[l].active].prev)

activate(l, n) ==
    /\ list' = [list EXCEPT ![l].active = n]
    /\ result' = << >>
    /\ UNCHANGED <<exists, node, allocated, chain>>

succ(l) == activate(l, node[list[l].active].next)
pred(l) == activate(l, node[list[l].active].prev)
-----------------------------------------------------------------------------
(* Operations of one step.  The caller allocates what it inserts and frees *)
(* what it gets back.                                                      *)

Ready(l) == pc = Idle /\ l \in exists
Active(l) == list[l].active # Null
Inserted(x) == x \in Data \ alive /\ alive' = alive \cup {x} /\ UNCHANGED pc
Deleted == alive' = alive \ ToSet(result') /\ UNCHANGED pc
Same == UNCHANGED <<alive, pc>>

dllist_init(l) ==
    /\ l \in List \ exists
    /\ exists' = exists \cup {l}
    /\ list' = [list EXCEPT ![l] = NoPointers]
    /\ result' = << >>
    /\ UNCHANGED <<node, allocated, alive, chain>>

NewList(l) == pc = Idle /\ dllist_init(l) /\ UNCHANGED pc

dllist_insert_first(l, n, x) == Ready(l) /\ insert_first(l, n, x) /\ Inserted(x)
dllist_insert_last(l, n, x) == Ready(l) /\ insert_last(l, n, x) /\ Inserted(x)
dllist_post_insert(l, n, x) == Ready(l) /\ Active(l) /\ post_insert(l, n, x) /\ Inserted(x)
dllist_pre_insert(l, n, x) == Ready(l) /\ Active(l) /\ pre_insert(l, n, x) /\ Inserted(x)
dllist_delete_first(l) == Ready(l) /\ list[l].first # Null /\ delete_first(l) /\ Deleted
dllist_delete_last(l) == Ready(l) /\ list[l].last # Null /\ delete_last(l) /\ Deleted
dllist_delete_and_succ(l) == Ready(l) /\ Active(l) /\ delete_and_succ(l) /\ Deleted
dllist_delete_and_pred(l) == Ready(l) /\ Active(l) /\ delete_and_pred(l) /\ Deleted

dllist_update(l, x) ==
    /\ Ready(l) /\ Active(l)
    /\ x \in Data \ alive
    /\ node' = [node EXCEPT ![list[l].active].data = x]
    /\ result' = <<node[list[l].active].data>>
    /\ alive' = (alive \ ToSet(result')) \cup {x}
    /\ UNCHANGED <<exists, list, allocated, chain, pc>>

\* post_insert, pre_insert, update and the deletions return at once from a
\* list that has no active item, or no item.
WithoutActive(l) == Ready(l) /\ ~Active(l) /\ activate(l, Null) /\ Same

dllist_activate_first(l) == Ready(l) /\ activate(l, list[l].first) /\ Same
dllist_activate_last(l) == Ready(l) /\ activate(l, list[l].last) /\ Same
dllist_succ(l) == Ready(l) /\ Active(l) /\ succ(l) /\ Same
dllist_pred(l) == Ready(l) /\ Active(l) /\ pred(l) /\ Same

\* dllist_get_first, dllist_get_last, dllist_get_active; dllist_empty and
\* dllist_active tell whether there is one.
DataOf(n) == IF n = Null THEN Null ELSE node[n].data
Ask(l) ==
    /\ Ready(l)
    /\ result' = <<DataOf(list[l].first), DataOf(list[l].last), DataOf(list[l].active)>>
    /\ UNCHANGED <<exists, list, node, allocated, chain>> /\ Same
-----------------------------------------------------------------------------
(* Operations with a loop: pc tells what comes next. *)

At(op) == pc.op = op
Goto(op) == pc' = [pc EXCEPT !.op = op]
Start(op, l, m) == pc' = [op |-> op, src |-> l, dst |-> m, n |-> 0]

\* activate_first, with which every loop begins
Rewind(op, next) ==
    /\ At(op)
    /\ activate(pc.src, list[pc.src].first)
    /\ Goto(next)
    /\ UNCHANGED alive

dllist_length(l) ==
    /\ Ready(l)
    /\ activate(l, list[l].first)
    /\ Start("length", l, Null)
    /\ UNCHANGED alive
Count ==
    /\ At("length") /\ Active(pc.src)
    /\ succ(pc.src)
    /\ pc' = [pc EXCEPT !.n = @ + 1]
    /\ UNCHANGED alive
Counted ==
    /\ At("length") /\ ~Active(pc.src)
    /\ result' = <<pc.n>>
    /\ pc' = Idle
    /\ UNCHANGED <<exists, list, node, allocated, alive, chain>>

dllist_free(l) ==
    /\ Ready(l)
    /\ activate(l, list[l].first)
    /\ Start("free", l, Null)
    /\ UNCHANGED alive

\* Mutated: the data stays with nobody.
FreeItemOnly == At("free") /\ Active(pc.src) /\ delete_and_succ(pc.src) /\ UNCHANGED <<pc, alive>>

FreeItem == At("free") /\ Active(pc.src) /\ delete_and_succ(pc.src) /\ Deleted

FreeList ==
    /\ At("free") /\ ~Active(pc.src)
    /\ exists' = exists \ {pc.src}
    /\ pc' = Idle
    /\ UNCHANGED <<list, node, allocated, alive, chain, result>>

\* sem_value_copy of a list: dllist_copy, after which both lists hold the
\* data, then the old list is emptied.  Node has room for the copies.
RoomToCopy(l) == Cardinality(Node \ allocated) >= Len(chain[l])
sem_value_copy(l, m) ==
    /\ Ready(l) /\ RoomToCopy(l)
    /\ dllist_init(m)
    /\ Start("copy", l, m)
CopyFirst == Rewind("copy", "insert")
CopyItem(n) ==
    /\ At("insert") /\ Active(pc.src)
    /\ IF list[pc.dst].first = Null THEN insert_first(pc.dst, n, DataOf(list[pc.src].active))
       ELSE insert_last(pc.dst, n, DataOf(list[pc.src].active))
    /\ Goto("advance")
    /\ UNCHANGED alive

\* Mutated: the activity of the old list stays where it is.
CopyAgain == At("advance") /\ Goto("insert") /\ activate(pc.src, list[pc.src].active) /\ UNCHANGED alive

CopyNext == At("advance") /\ succ(pc.src) /\ Goto("insert") /\ UNCHANGED alive
Copied ==
    /\ At("insert") /\ ~Active(pc.src)
    /\ Goto("copied")
    /\ UNCHANGED <<exists, list, node, allocated, alive, chain, result>>
DrainFirst == Rewind("copied", "drain")

DrainItem == At("drain") /\ Active(pc.src) /\ delete_and_succ(pc.src) /\ Same
Drained ==
    /\ At("drain") /\ ~Active(pc.src)
    /\ pc' = Idle
    /\ UNCHANGED <<exists, list, node, allocated, alive, chain, result>>

LoopStep ==
    \/ Count \/ Counted \/ FreeItem \/ FreeList
    \/ CopyFirst \/ (\E n \in Node : CopyItem(n)) \/ CopyNext \/ Copied
    \/ DrainFirst \/ DrainItem \/ Drained

Next ==
    \/ \E l \in List :
        \/ NewList(l)
        \/ \E n \in Node, x \in Data :
              \/ dllist_insert_first(l, n, x) \/ dllist_insert_last(l, n, x)
              \/ dllist_post_insert(l, n, x) \/ dllist_pre_insert(l, n, x)
        \/ dllist_delete_first(l) \/ dllist_delete_last(l)
        \/ dllist_delete_and_succ(l) \/ dllist_delete_and_pred(l)
        \/ \E x \in Data : dllist_update(l, x)
        \/ dllist_activate_first(l) \/ dllist_activate_last(l)
        \/ dllist_succ(l) \/ dllist_pred(l) \/ WithoutActive(l) \/ Ask(l)
        \/ dllist_length(l) \/ dllist_free(l) \/ \E m \in List : sem_value_copy(l, m)
    \/ LoopStep

Spec == Init /\ [][Next]_vars /\ WF_vars(LoopStep)
-----------------------------------------------------------------------------
(* Whatever the order of operations, the pointers of every list are those  *)
(* of its items in order: first and last at the ends, next and prev        *)
(* between neighbours and NULL at the ends, and active one of them or NULL.*)
ItemOf(l, k) == IF k \in DOMAIN chain[l] THEN chain[l][k] ELSE Null
LinksAgree ==
    \A l \in List :
        /\ list[l].first = ItemOf(l, 1)
        /\ list[l].last = ItemOf(l, Len(chain[l]))
        /\ list[l].active \in ToSet(chain[l]) \cup {Null}
        /\ \A k \in DOMAIN chain[l] :
              /\ node[chain[l][k]].next = ItemOf(l, k + 1)
              /\ node[chain[l][k]].prev = ItemOf(l, k - 1)

(* Every item on the heap is in one list, at one place: none is lost, none *)
(* is freed and still linked, no two lists share one.  A list that does    *)
(* not exist has none.                                                     *)
ItemsOwnedOnce ==
    /\ allocated = UNION {ToSet(chain[l]) : l \in exists}
    /\ \A l \in List \ exists : chain[l] = << >>
    /\ \A l, m \in List : \A j \in DOMAIN chain[l], k \in DOMAIN chain[m] :
          chain[l][j] = chain[m][k] => l = m /\ j = k

(* Data is held by one item, from the insertion until it is handed back or *)
(* freed with its list, so that nobody frees it twice or never; while a    *)
(* list is moved the two lists share it, and only then.                    *)
Holders(x) == {n \in allocated : node[n].data = x}
Moving == pc.op \in {"insert", "advance", "copied", "drain"}
DataOwnedOnce ==
    /\ alive = {node[n].data : n \in allocated}
    /\ \A x \in alive :
          \/ Cardinality(Holders(x)) = 1
          \/ Moving /\ \A n \in Holders(x) : n \in ToSet(chain[pc.src]) \cup ToSet(chain[pc.dst])

(* Every item has one list and every datum one item.                       *)
OwnedOnce == ItemsOwnedOnce /\ DataOwnedOnce

(* Counting, copying and freeing come to an end.                           *)
LoopsEnd == pc # Idle ~> pc = Idle

(* The lists are sequences with an active position; what an operation      *)
(* returns and whom it leaves active is what the sequences say.            *)
Items(l) == [k \in DOMAIN chain[l] |-> node[chain[l][k]].data]
Cursor(l) == IF list[l].active = Null THEN 0 ELSE Place(l, list[l].active)
sequences == [l \in List |-> Items(l)]
cursors == [l \in List |-> Cursor(l)]

Abstract == INSTANCE CursorLists WITH items <- sequences, active <- cursors
ImplementsCursorLists == Abstract!Spec
=============================================================================
