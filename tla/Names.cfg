\* Two processes run, start, refresh and remove two containers that may be
\* given one name; config.json is read and written at any interleaving, and
\* processes are killed.
CONSTANTS
    Ids = {c1, c2}
    Names = {n1, n2}
    Procs = {p1, p2}
    NoId = NoId
    NoName = NoName
SPECIFICATION Spec
SYMMETRY Symmetry
INVARIANTS NamesUnique ConfigComesBack
