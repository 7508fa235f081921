---------------------------- MODULE AccessRules ----------------------------
(***************************************************************************)
(* The tables of access rules, and what the translated access commands and *)
(* the trigger of the schema do to them.  BIND grants a role on one row: a *)
(* reference, and a binding of the row itself.  A row inherits the         *)
(* bindings of the rows it points to, by the inheritances: the trigger     *)
(* copies them whenever the row is inserted or updated, each copy with the *)
(* reference of the binding it comes from.  UNBIND deletes the reference,  *)
(* and the foreign keys take every copy along, however far it has come.    *)
(*                                                                         *)
(* Tables are under access control from the start.  The database is at     *)
(* read committed: the trigger copies what it sees, and its foreign keys   *)
(* are tested when it is done.  A row of any table has an id of its own.   *)
(***************************************************************************)
EXTENDS Naturals, FiniteSets

CONSTANTS
    Clients,   \* those who change rows
    Tables,    \* the tables under access control
    NoTable,   \* what the inheritance 0 is from and to
    Columns,   \* <<s, t>>: the rows of table t have a column that points to s
    Grants,    \* a role for a principal, that a binding may give
    MaxRows,   \* bound: rows inserted, in all tables
    MaxRefs,   \* bound: references made
    MaxInh,    \* bound: inheritances created
    MaxMoves   \* bound: rows that an update makes point elsewhere

ASSUME TablesAssumption == NoTable \notin Tables /\ Columns \subseteq Tables \X Tables
ASSUME BoundsAssumption ==
    MaxRows \in Nat /\ MaxRefs \in Nat /\ MaxInh \in Nat /\ MaxMoves \in Nat

VARIABLES
    table,     \* the table of each row, NoTable for a row that is not there
    up,        \* the rows that each row's columns point to
    refs,      \* __access_binding_refs__
    origin,    \* the row a reference was made for
    inherits,  \* __access_inheritances__
    bindings,  \* every T__access_bindings__
    work,      \* the INSERT or UPDATE that each client is in
    seqs,      \* the sequences: the last row, reference and inheritance
    strayed,   \* history: the rows that an update has made point elsewhere
    lost       \* history: <<row, reference>> that the row has lost, not by UNBIND

vars == <<table, up, refs, origin, inherits, bindings, work, seqs, strayed, lost>>

RowIds == 1..MaxRows
RefIds == 1..MaxRefs

Rows == {r \in RowIds : table[r] # NoTable}

\* Which row has a binding with which reference, its own or an inherited one.
Held(B) == {<<b.row, b.ref>> : b \in B}

Inheritance == [id : 1..MaxInh, src : Tables, dst : Tables]

\* The special reference for bindings that a row has of its own.
Self == [id |-> 0, src |-> NoTable, dst |-> NoTable]

Binding == [row : RowIds, inh : 0..MaxInh, ref : RefIds, grant : Grants]

\* What a client is doing: the row, its table, where it points to, its copies.
Work == [op : {"none", "insert", "update"}, row : 0..MaxRows, table : Tables \cup {NoTable},
         up : SUBSET RowIds, copies : SUBSET Binding]

NoWork == [op |-> "none", row |-> 0, table |-> NoTable, up |-> {}, copies |-> {}]

TypeOK ==
    /\ table \in [RowIds -> Tables \cup {NoTable}]
    /\ up \in [RowIds -> SUBSET RowIds]
    /\ refs \in SUBSET RefIds
    /\ origin \in [RefIds -> 0..MaxRows]
    /\ inherits \in SUBSET (Inheritance \cup {Self})
    /\ bindings \in SUBSET Binding
    /\ work \in [Clients -> Work]
    /\ seqs \in [row : 0..MaxRows, ref : 0..MaxRefs, inh : 0..MaxInh]
    /\ strayed \in SUBSET RowIds
    /\ lost \in SUBSET (RowIds \X RefIds)

Init ==
    /\ table = [r \in RowIds |-> NoTable]
    /\ up = [r \in RowIds |-> {}]
    /\ refs = {}
    /\ origin = [x \in RefIds |-> 0]
    /\ inherits = {Self}
    /\ bindings = {}
    /\ work = [c \in Clients |-> NoWork]
    /\ seqs = [row |-> 0, ref |-> 0, inh |-> 0]
    /\ strayed = {}
    /\ lost = {}

-----------------------------------------------------------------------------
(* The trigger __set_access_bindings__ *)

\* What _src_query finds: the row of the source table that the row points to.
Sources(i, pointed) == {s \in pointed \cap Rows : table[s] = i.src}

\* The inheritances the trigger goes through.
Inherited(t) == {i \in inherits : i.dst = t}

\* The bindings it copies through one of them.
Found(i, pointed) == {b \in bindings : b.row \in Sources(i, pointed)}

Copied(i, r, pointed) ==
    {[row |-> r, inh |-> i.id, ref |-> b.ref, grant |-> b.grant] : b \in Found(i, pointed)}

Copies(t, r, pointed) == UNION {Copied(i, r, pointed) : i \in Inherited(t)}

\* Two bindings of the source with one reference cannot be copied: the INSERT
\* would affect one row a second time.
TriggerFails(t, pointed) ==
    \E i \in Inherited(t) : \E b, d \in Found(i, pointed) : b # d /\ b.ref = d.ref

\* Mutant: the trigger deletes the row's bindings of every inheritance.
ReplacedAll(w) ==
    {b \in bindings : ~(b.row = w.row /\ w.copies # {})} \cup w.copies

\* An inheritance through which something was copied gives the row exactly the
\* copies; the others leave the row's bindings as they are.
Replaced(w) ==
    {b \in bindings : ~(b.row = w.row /\ \E d \in w.copies : d.inh = b.inh)} \cup w.copies

\* Mutant: a copy may name a reference that is gone.
RefsUnchecked(w) == \A b \in w.copies : \E i \in inherits : i.id = b.inh

\* The foreign keys of the copies.
KeysHold(w) ==
    \A b \in w.copies : b.ref \in refs /\ \E i \in inherits : i.id = b.inh

-----------------------------------------------------------------------------
(* A client changes a row *)

\* A column points to one row at most.
MayPoint(t, pointed) ==
    /\ \A p \in pointed : <<table[p], t>> \in Columns
    /\ \A p, q \in pointed : table[p] = table[q] => p = q

\* The row is new, or it points and will point where it always did.
Steady(w) == w.op = "update" => w.row \notin strayed /\ w.up = up[w.row]

\* The rows that are being moved.
Moving == {work[c].row : c \in {e \in Clients : ~Steady(work[e])}}

\* The rows that no statement has locked: a row is locked until its client is done.
Unlocked == {r \in Rows : \A c \in Clients : work[c].row # r}

\* The row gets the next value of a sequence, and the trigger copies what it
\* sees; or it fails, and the value is lost.
BeginInsert(c, t, pointed) ==
    LET r == seqs.row + 1 IN
    /\ r \in RowIds
    /\ MayPoint(t, pointed)
    /\ seqs' = [seqs EXCEPT !.row = r]
    /\ work' = [work EXCEPT ![c] =
                  IF TriggerFails(t, pointed) THEN NoWork
                  ELSE [op |-> "insert", row |-> r, table |-> t, up |-> pointed,
                        copies |-> Copies(t, r, pointed)]]
    /\ UNCHANGED <<table, up, refs, origin, inherits, bindings, strayed, lost>>

\* The trigger copies what it sees; where it fails, nothing happens.
BeginUpdate(c, r, pointed) ==
    /\ MayPoint(table[r], pointed)
    /\ ~TriggerFails(table[r], pointed)
    /\ pointed # up[r] => Cardinality(strayed \cup Moving) < MaxMoves
    /\ work' = [work EXCEPT ![c] =
                  [op |-> "update", row |-> r, table |-> table[r], up |-> pointed,
                   copies |-> Copies(table[r], r, pointed)]]
    /\ UNCHANGED <<table, up, refs, origin, inherits, bindings, seqs, strayed, lost>>

Begin(c) ==
    /\ work[c] = NoWork
    /\ \/ \E t \in Tables, pointed \in SUBSET Rows : BeginInsert(c, t, pointed)
       \/ \E r \in Unlocked, pointed \in SUBSET Rows : BeginUpdate(c, r, pointed)

\* What the row loses to its trigger: whatever is replaced if it was moved, else
\* what a row that it points to has lost.
Forgone(w) ==
    {p \in Held(bindings) \ Held(Replaced(w)) :
        ~Steady(w) \/ \E s \in w.up : <<s, p[2]>> \in lost}

\* The change is there, with its copies, if their keys hold.
Commit(c) ==
    LET w == work[c] IN
    /\ w.op # "none"
    /\ KeysHold(w)
    /\ table' = [table EXCEPT ![w.row] = w.table]
    /\ up' = [up EXCEPT ![w.row] = w.up]
    /\ bindings' = Replaced(w)
    /\ work' = [work EXCEPT ![c] = NoWork]
    /\ strayed' = IF Steady(w) THEN strayed ELSE strayed \cup {w.row}
    /\ lost' = lost \cup Forgone(w)
    /\ UNCHANGED <<refs, origin, inherits, seqs>>

\* It fails, because a key does not hold or for any other reason.
Abort(c) ==
    /\ work[c].op # "none"
    /\ work' = [work EXCEPT ![c] = NoWork]
    /\ UNCHANGED <<table, up, refs, origin, inherits, bindings, seqs, strayed, lost>>

\* The row's bindings go with it; the references made for it stay.
DeleteRow(r) ==
    /\ r \in Unlocked
    /\ table' = [table EXCEPT ![r] = NoTable]
    /\ up' = [up EXCEPT ![r] = {}]
    /\ bindings' = {b \in bindings : b.row # r}
    /\ lost' = lost \cup (Held(bindings) \ Held(bindings'))
    /\ UNCHANGED <<refs, origin, inherits, work, seqs, strayed>>

-----------------------------------------------------------------------------
(* The access commands *)

\* Mutant: a grant that somebody has is given again by its reference.
SameRef(g) ==
    IF \E b \in bindings : b.grant = g
    THEN (CHOOSE b \in bindings : b.grant = g).ref ELSE seqs.ref + 1

\* The reference of a new binding, from a sequence.
NewRef(g) == seqs.ref + 1

\* BIND ACCESS ROLE: the row, no other, gets a binding.
BindAccessRole(r, g) ==
    LET x == NewRef(g) IN
    /\ x \in RefIds
    /\ refs' = refs \cup {x}
    /\ origin' = [origin EXCEPT ![x] = r]
    /\ bindings' = bindings \cup {[row |-> r, inh |-> 0, ref |-> x, grant |-> g]}
    /\ seqs' = [seqs EXCEPT !.ref = x]
    /\ UNCHANGED <<table, up, inherits, work, strayed, lost>>

\* The references of the row's own bindings with this role and principal.
GivenHere(r, g) ==
    {b.ref : b \in {d \in bindings : d.row = r /\ d.grant = g /\ d.inh = 0}}

\* UNBIND ACCESS ROLE: the references are deleted, and by ON DELETE CASCADE
\* every binding that has one of them.
UnbindAccessRole(r, g) ==
    LET gone == GivenHere(r, g) IN
    /\ gone # {}
    /\ refs' = refs \ gone
    /\ origin' = [x \in RefIds |-> IF x \in gone THEN 0 ELSE origin[x]]
    /\ bindings' = {b \in bindings : b.ref \notin gone}
    /\ lost' = {p \in lost : p[2] \notin gone}
    /\ UNCHANGED <<table, up, inherits, work, seqs, strayed>>

\* CREATE ACCESS INHERITANCE: no row is looked at before it is changed.
CreateAccessInheritance(s, t) ==
    /\ \A i \in inherits : ~(i.src = s /\ i.dst = t)
    /\ seqs.inh < MaxInh
    /\ seqs' = [seqs EXCEPT !.inh = @ + 1]
    /\ inherits' = inherits \cup {[id |-> seqs.inh + 1, src |-> s, dst |-> t]}
    /\ UNCHANGED <<table, up, refs, origin, bindings, work, strayed, lost>>

\* Mutant: nothing protects the special reference.
Unprotected(S) == S

\* What a DELETE FROM __access_inheritances__ may delete: the rule
\* __protect_self_inheritance_ref__ exempts the special reference.
Deletable(S) == S \ {Self}

DeleteInheritances(S) ==
    LET gone == Deletable(S) IN
    /\ inherits' = inherits \ gone
    /\ bindings' = {b \in bindings : \A i \in gone : i.id # b.inh}
    /\ lost' = lost \cup (Held(bindings) \ Held(bindings'))
    /\ UNCHANGED <<table, up, refs, origin, work, seqs, strayed>>

Next ==
    \/ \E c \in Clients : Begin(c) \/ Commit(c) \/ Abort(c)
    \/ \E r \in Rows : \/ DeleteRow(r)
                      \/ \E g \in Grants : BindAccessRole(r, g) \/ UnbindAccessRole(r, g)
    \/ \E col \in Columns : CreateAccessInheritance(col[1], col[2])
    \/ \E S \in SUBSET inherits \ {{}} : DeleteInheritances(S)

Spec == Init /\ [][Next]_vars

-----------------------------------------------------------------------------
(* Properties *)

\* Once UNBIND has deleted a reference, no row anywhere has a binding with it:
\* a copy that the trigger made of what it saw before does not outlive it.
RevokedIsGone == \A b \in bindings : b.ref \in refs

\* A grant can be taken back as long as the row it was made on is there: the
\* row's own binding, which UNBIND needs to find the reference, is never lost
\* to the trigger or to a DELETE of inheritances.
Revocable ==
    \A x \in refs : origin[x] \in Rows =>
        \E b \in bindings : b.row = origin[x] /\ b.inh = 0 /\ b.ref = x

\* What a row may have inherited through i: what a row it points to, of the
\* inheritance's source, has; or what a row it points to had and has lost.
Came(i, pointed, x) ==
    \E s \in pointed : \/ s \in Sources(i, pointed) /\ <<s, x>> \in Held(bindings)
                       \/ <<s, x>> \in lost

\* Nobody inherits what the row he inherits from never had: of a row that points
\* where it always did, each inherited binding is one that a row it points to has,
\* or had until a deletion, of a row or an inheritance, or a move took it away.
SourceHolds ==
    \A b \in bindings, i \in inherits :
        b.inh = i.id /\ i # Self /\ b.row \notin strayed => Came(i, up[b.row], b.ref)

\* Two inheritances, from two tables, bring a binding to one row.
Diamond(b, d) ==
    \E i, j \in inherits \ {Self} :
        /\ i.id = b.inh /\ j.id = d.inh /\ i.src # j.src
        /\ i.dst = table[b.row] /\ j.dst = table[b.row]

\* A moved row has had the reference.
Roamed(x) == \E m \in strayed : <<m, x>> \in Held(bindings) \cup lost

\* A binding comes back to the row it is from, which takes a row that was made to
\* point to a newer one.
Cycle(b, d) ==
    /\ 0 \in {b.inh, d.inh} /\ origin[b.ref] = b.row
    /\ Roamed(b.ref)

\* A row has a grant twice, and with it the rows that point to it can no longer be
\* inserted or updated because the trigger fails, only by a diamond or by a cycle:
\* not by a race of two triggers, nor by an update that copies again.
TwiceTwoWays ==
    \A b, d \in bindings :
        b # d /\ b.row = d.row /\ b.ref = d.ref => Diamond(b, d) \/ Cycle(b, d)

-----------------------------------------------------------------------------
(* What makes these inductive *)

\* The sequences are ahead of all they have given.
Numbered ==
    /\ \A r \in Rows : r <= seqs.row
    /\ \A x \in refs : x <= seqs.ref /\ origin[x] <= seqs.row
    /\ \A i \in inherits : i.id <= seqs.inh
    /\ \A i, j \in inherits : i.id = j.id \/ (i.src = j.src /\ i.dst = j.dst) => i = j
    /\ Self \in inherits

\* A row is worked on by one client; an insert's row is not there yet.
WorkApart ==
    \A c \in Clients :
        LET w == work[c] IN
        /\ w.op = "none" <=> w = NoWork
        /\ w # NoWork => w.row \in 1..seqs.row /\ w.table \in Tables
        /\ \A e \in Clients \ {c} : w # NoWork => work[e].row # w.row
        /\ w.op = "insert" => w.row \notin Rows /\ \A x \in refs : origin[x] # w.row
        /\ w.op = "update" => w.row \in Rows /\ w.table = table[w.row]

\* A binding's keys, and what a copy of it must have in common with it.
KeysOK ==
    \A b \in bindings :
        /\ b.row \in Rows /\ b.ref \in refs
        /\ b.inh = 0 => b.row = origin[b.ref]
        /\ \E i \in inherits : i.id = b.inh /\ (i # Self => i.dst = table[b.row])

\* The copies that the trigger has made may name what is gone, and otherwise
\* are as bindings are.
CopiesOK ==
    \A c \in Clients : \A b \in work[c].copies :
        /\ b.row = work[c].row /\ b.ref <= seqs.ref /\ b.inh \in 1..seqs.inh
        /\ \A i \in inherits : i.id = b.inh => i.dst = work[c].table

\* One reference, one grant: what UPDATE leaves alone is what it would set.
OneGrant ==
    LET All == bindings \cup UNION {work[c].copies : c \in Clients}
    IN  \A b, d \in All : b.ref = d.ref => b.grant = d.grant

\* What a row inherits was given to an older one, but for what has been with a row
\* that was moved: a row that was not points to older rows.
Older ==
    /\ \A r \in Rows \ strayed : \A s \in up[r] : s < r
    /\ \A b \in bindings : b.inh # 0 => origin[b.ref] < b.row \/ Roamed(b.ref)
    /\ \A c \in Clients :
         Steady(work[c]) =>
           /\ \A s \in work[c].up : s < work[c].row
           /\ \A b \in work[c].copies :
                b.ref \in refs => origin[b.ref] < b.row \/ Roamed(b.ref)

\* A copy that is underway came from where its row points, and what the trigger is
\* to replace without giving it again came from a row that has lost it.
CopiesCurrent ==
    \A c \in Clients :
        LET w == work[c] IN
        /\ \A b \in w.copies, i \in inherits :
             b.inh = i.id /\ b.ref \in refs => Came(i, w.up, b.ref)
        /\ \A b \in bindings :
             b.row = w.row /\ Steady(w) /\ (\E d \in w.copies : d.inh = b.inh) =>
               \/ \E d \in w.copies : d.inh = b.inh /\ d.ref = b.ref
               \/ \E s \in w.up : <<s, b.ref>> \in lost

IInv ==
    /\ TypeOK /\ Numbered /\ WorkApart /\ KeysOK /\ CopiesOK /\ OneGrant /\ Older
    /\ Revocable /\ SourceHolds /\ CopiesCurrent
=============================================================================
