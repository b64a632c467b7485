SPECIFICATION Spec
CONSTANTS
    List = {l1, l2}
    Node = {n1, n2, n3, n4}
    Data = {d1, d2, d3}
    Null = Null
CHECK_DEADLOCK FALSE
INVARIANTS
    LinksAgree
    OwnedOnce
PROPERTIES
    LoopsEnd
    ImplementsCursorLists
