\* Two sessions on one table: all that is tracked or joined is so per table.
CONSTANTS
    Sessions = {s1, s2}
    Tables = {t1}
    Supers = {admin}
    Others = {alice}

SPECIFICATION Spec
SYMMETRY Symmetry

INVARIANTS
    RoleBelieved
    KnownAreJoined
