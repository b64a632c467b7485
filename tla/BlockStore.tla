----------------------------- MODULE BlockStore -----------------------------
(***************************************************************************)
(* What the memory manager promises the rest of the compiler: a set of     *)
(* live blocks.  Allocation adds a block nobody holds, reallocation trades *)
(* one live block for another, freeing removes exactly the named block,    *)
(* and the store is closed once, either by the normal end of the program   *)
(* or by an internal error.                                                *)
(***************************************************************************)
EXTENDS Naturals, FiniteSets

CONSTANT Addr     \* the addresses the C allocator can return

VARIABLES
    live,         \* blocks handed out and not yet given back
    peak,         \* the largest number of blocks ever live at once
    phase         \* "running", "freed" or "intern_error"

storeVars == <<live, peak, phase>>

Larger(a, b) == IF a < b THEN b ELSE a

Init ==
    /\ live = {}
    /\ peak = 0
    /\ phase = "running"

Allocate(p) ==
    /\ phase = "running"
    /\ p \notin live
    /\ live' = live \cup {p}
    /\ peak' = Larger(peak, Cardinality(live'))
    /\ UNCHANGED phase

Reallocate(p, q) ==
    /\ phase = "running"
    /\ p \in live
    /\ q \notin live \ {p}
    /\ live' = (live \ {p}) \cup {q}
    /\ UNCHANGED <<peak, phase>>

Release(p) ==
    /\ phase = "running"
    /\ p \in live
    /\ live' = live \ {p}
    /\ UNCHANGED <<peak, phase>>

\* The store closes: nothing is handed out any more.  An internal error may
\* leave blocks behind for the operating system, a normal end may not.
Close ==
    /\ phase = "running"
    /\ \/ phase' = "freed" /\ live' = {}
       \/ phase' = "intern_error" /\ live' \subseteq live
    /\ peak' >= peak

Next ==
    \/ \E p \in Addr : Allocate(p) \/ Release(p)
    \/ \E p, q \in Addr : Reallocate(p, q)
    \/ Close

Spec == Init /\ [][Next]_storeVars
=============================================================================
