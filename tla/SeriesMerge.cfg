SPECIFICATION Spec
CONSTANTS
    Kinds = {"mysql", "flagged", "java", "elasticsearch", "role", "disk_inventory", "java_inventory", "elasticsearch_inventory", "rabbitmq_inventory", "single_inventory"}
    Times = {1, 2, 3}
    Texts = {a, b}
    Ids = {s1, s2}
    Blank = Blank
SYMMETRY Symmetry
INVARIANTS
    EntryInv
    NewestAgreed
    DiskIdentityExact
    JavaFailsForCause
CHECK_DEADLOCK FALSE
