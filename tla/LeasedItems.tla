----------------------------- MODULE LeasedItems -----------------------------
(***************************************************************************)
(* What a PersistentDeque promises to those who consume it, leaving out    *)
(* the order: "The caller will exclusively hold an element without         *)
(* deleting it until Pop() is called.  [If] the processing of the element  *)
(* abruptly terminates before completion, the element will be              *)
(* automatically released so other callers can process it."                *)
(* (persistent-deque.h)                                                    *)
(***************************************************************************)
CONSTANTS
    Items,    \* every item there may be
    Holders,  \* those who take items
    None      \* no item

VARIABLES
    items,  \* the items there are
    added,  \* every item there has been
    lease   \* the item each holder holds

vars == <<items, added, lease>>

Init ==
    /\ items = {}
    /\ added = {}
    /\ lease = [h \in Holders |-> None]

\* A new item, one that has not been there before.
Add(item) ==
    /\ item \notin added
    /\ items' = items \cup {item}
    /\ added' = added \cup {item}
    /\ UNCHANGED lease

\* A holder takes an item that is there and that nobody holds.
Take(h, item) ==
    /\ lease[h] = None
    /\ item \in items
    /\ \A other \in Holders : lease[other] # item
    /\ lease' = [lease EXCEPT ![h] = item]
    /\ UNCHANGED <<items, added>>

\* The item becomes free again: by Release, an error or a crash.
GiveBack(h) ==
    /\ lease[h] # None
    /\ lease' = [lease EXCEPT ![h] = None]
    /\ UNCHANGED <<items, added>>

\* The item is gone for good.
Finish(h) ==
    /\ lease[h] # None
    /\ items' = items \ {lease[h]}
    /\ lease' = [lease EXCEPT ![h] = None]
    /\ UNCHANGED added

Next ==
    \/ \E item \in Items : Add(item)
    \/ \E h \in Holders : \/ \E item \in Items : Take(h, item)
                          \/ GiveBack(h)
                          \/ Finish(h)

Spec == Init /\ [][Next]_vars
=============================================================================
