\* One session: what the tracker makes of a view after a restart.
CONSTANTS
    Sessions = {s1}
    Tables = {t1}
    Supers = {admin}
    Others = {alice}

SPECIFICATION Spec

INVARIANT NonTablesIgnored
