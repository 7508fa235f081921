CONSTANTS
    Clients = {c1, c2}
    folders = folders
    documents = documents
    NoTable = NoTable
    Tables <- TwoTables
    Columns <- TwoColumns
    Grants = {viewer}
    MaxRows = 3
    MaxRefs = 2
    MaxInh = 2
    MaxMoves = 1

SPECIFICATION Spec

INVARIANTS
    RevokedIsGone
    Revocable
    SourceHolds
    

SYMMETRY Symmetry
