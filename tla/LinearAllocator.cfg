CONSTANTS
    HeapStart = 16
    HeapSize = 124
    NodeSize = 20
    Requests = {0, 25}
    Alignments = {1, 16}
SPECIFICATION Spec
INVARIANTS TypeOK ListWellFormed Coalesced BlocksDisjoint NoLeak OverrunBelowPadding
PROPERTY HeapRefined
CHECK_DEADLOCK FALSE
