--------------------------- MODULE MCAccessRules ---------------------------
(***************************************************************************)
(* AccessRules for TLC, on two tables like those of the repository's demo: *)
(* a document is in a folder, and may belong to another document.  So a    *)
(* document can inherit a grant in two ways (as a row of ccc can in        *)
(* tests/sql/binding_test.sql), and one that is moved can close a cycle.   *)
(***************************************************************************)
EXTENDS AccessRules, TLC

CONSTANTS folders, documents

TwoTables  == {folders, documents}
TwoColumns == {<<folders, documents>>, <<documents, documents>>}

Symmetry == Permutations(Clients)
=============================================================================
