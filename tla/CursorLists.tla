----------------------------- MODULE CursorLists -----------------------------
(***************************************************************************)
(* What src/src/dllist.h promises: every list is a sequence with at most   *)
(* one active item, known by its position, 0 if there is none.  An item    *)
(* keeps its activity when others come and go around it, and a list is     *)
(* without activity when its active item was deleted from an end.          *)
(***************************************************************************)
EXTENDS Naturals, SequencesExt

CONSTANTS
    List,           \* the lists that can exist
    Data,           \* what items hold
    Null            \* no data

VARIABLES
    exists,         \* the lists that exist
    items,          \* of every list
    active,         \* position of its active item, 0 for none
    result          \* what the last operation returned, << >> if nothing

vars == <<exists, items, active, result>>

Init ==
    /\ exists = {}
    /\ items = [l \in List |-> << >>]
    /\ active = [l \in List |-> 0]
    /\ result = << >>

\* The list becomes s with its k-th item active, and r is returned.
Becomes(l, s, k, r) ==
    /\ l \in exists
    /\ items' = [items EXCEPT ![l] = s]
    /\ active' = [active EXCEPT ![l] = k]
    /\ result' = r
    /\ UNCHANGED exists

dllist_init(l) ==
    /\ l \notin exists
    /\ exists' = exists \cup {l}
    /\ result' = << >>
    /\ UNCHANGED <<items, active>>

\* Nothing is left in a list that goes.
dllist_free(l) ==
    /\ l \in exists
    /\ items[l] = << >> /\ active[l] = 0
    /\ exists' = exists \ {l}
    /\ UNCHANGED <<items, active, result>>
-----------------------------------------------------------------------------
InsertFirst(l, x) ==
    Becomes(l, <<x>> \o items[l], IF active[l] = 0 THEN 0 ELSE active[l] + 1, << >>)

InsertLast(l, x) == Becomes(l, Append(items[l], x), active[l], << >>)

PostInsert(l, x) ==
    active[l] # 0 /\ Becomes(l, InsertAt(items[l], active[l] + 1, x), active[l], << >>)

PreInsert(l, x) ==
    active[l] # 0 /\ Becomes(l, InsertAt(items[l], active[l], x), active[l] + 1, << >>)

DeleteFirst(l) ==
    /\ items[l] # << >>
    /\ Becomes(l, Tail(items[l]), IF active[l] = 0 THEN 0 ELSE active[l] - 1, <<Head(items[l])>>)

DeleteLast(l) ==
    /\ items[l] # << >>
    /\ Becomes(l, Front(items[l]), IF active[l] = Len(items[l]) THEN 0 ELSE active[l],
               <<Last(items[l])>>)

DeleteAndSucc(l) ==
    /\ active[l] # 0
    /\ Becomes(l, RemoveAt(items[l], active[l]),
               IF active[l] = Len(items[l]) THEN 0 ELSE active[l], <<items[l][active[l]]>>)

DeleteAndPred(l) ==
    /\ active[l] # 0
    /\ Becomes(l, RemoveAt(items[l], active[l]), active[l] - 1, <<items[l][active[l]]>>)

Update(l, x) ==
    active[l] # 0 /\ Becomes(l, [items[l] EXCEPT ![active[l]] = x], active[l], <<items[l][active[l]]>>)

\* An operation on the active item does nothing if there is none, and a
\* deletion does nothing to an empty list.
Nothing(l) ==
    /\ active[l] = 0
    /\ Becomes(l, items[l], 0, << >>)

Activate(l, k, r) == k \in 0 .. Len(items[l]) /\ Becomes(l, items[l], k, r)
ActivateFirst(l) == Activate(l, IF items[l] = << >> THEN 0 ELSE 1, << >>)
ActivateLast(l) == Activate(l, Len(items[l]), << >>)
Succ(l) == active[l] # 0 /\ Activate(l, (active[l] + 1) % (Len(items[l]) + 1), << >>)
Pred(l) == active[l] # 0 /\ Activate(l, active[l] - 1, << >>)

\* What the list holds at its ends and at its active item
ItemAt(s, k) == IF k \in DOMAIN s THEN s[k] ELSE Null
Ask(l) ==
    Becomes(l, items[l], active[l],
            <<ItemAt(items[l], 1), ItemAt(items[l], Len(items[l])), ItemAt(items[l], active[l])>>)

\* The length is counted with the activity, which is lost.
Length(l) == Activate(l, 0, <<Len(items[l])>>)

Next ==
    \E l \in List :
        \/ dllist_init(l) \/ dllist_free(l)
        \/ \E x \in Data : InsertFirst(l, x) \/ InsertLast(l, x) \/ PostInsert(l, x)
                           \/ PreInsert(l, x) \/ Update(l, x)
        \/ DeleteFirst(l) \/ DeleteLast(l) \/ DeleteAndSucc(l) \/ DeleteAndPred(l)
        \/ ActivateFirst(l) \/ ActivateLast(l) \/ Succ(l) \/ Pred(l)
        \/ Nothing(l) \/ Ask(l) \/ Length(l)

Spec == Init /\ [][Next]_vars
=============================================================================
