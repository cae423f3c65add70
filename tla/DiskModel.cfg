SPECIFICATION Spec
CONSTANTS
    Kinds = {"disk_inventory"}
    Times = {1, 2, 3}
    Texts = {a, b}
    Ids = {s1}
    Blank = Blank
SYMMETRY Symmetry
INVARIANT DiskModelNewest
CHECK_DEADLOCK FALSE
