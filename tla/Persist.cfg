\* Two calls of persist_sync at any interleaving, killed and cut off by power
\* failures anywhere; the promises of an atomic file are made for calls that
\* have not overlapped.
CONSTANTS
    Writers = {w1, w2}
    Values = {v1, v2}
    NoValue = NoValue
    Inodes = {i1, i2, i3}
    NoInode = NoInode
SPECIFICATION Spec
SYMMETRY Symmetry
INVARIANTS DatabaseStays
PROPERTIES ResultsAreTrue FileSteps
