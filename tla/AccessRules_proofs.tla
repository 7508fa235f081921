------------------------- MODULE AccessRules_proofs -------------------------
(***************************************************************************)
(* Proofs about the access rules, for any clients, tables and columns and  *)
(* any length of the sequences.  The argument: a reference is never given  *)
(* twice, so one that UNBIND deletes is gone from every row, and from what *)
(* a trigger still holds once its foreign keys are tested; what a row has  *)
(* of its own has inheritance 0, which no trigger touches and no DELETE    *)
(* takes; and what it inherits comes from rows that are older, but for     *)
(* what a moved row has had.  What a row has lost is kept on record until  *)
(* UNBIND: nothing a row could have inherited is forgotten (Remembers).    *)
(***************************************************************************)
EXTENDS AccessRules, TLAPS

LEMMA InitInv == Init => IInv
  <1> SUFFICES ASSUME Init PROVE IInv
    OBVIOUS
  <1> USE TablesAssumption, BoundsAssumption DEF Init, Rows, RowIds, RefIds
  <1>1. NoWork \in Work
    BY DEF NoWork, Work
  <1>2. TypeOK
    <2>1. seqs \in [row : 0..MaxRows, ref : 0..MaxRefs, inh : 0..MaxInh]
      OBVIOUS
    <2>2. /\ table \in [RowIds -> Tables \cup {NoTable}]
          /\ up \in [RowIds -> SUBSET RowIds]
          /\ origin \in [RefIds -> 0..MaxRows]
      OBVIOUS
    <2>3. strayed = {} /\ lost = {}
      OBVIOUS
    <2>4. work \in [Clients -> Work]
      BY <1>1
    <2> QED
      BY <2>1, <2>2, <2>3, <2>4 DEF TypeOK
  <1>3. Rows = {} /\ bindings = {} /\ \A c \in Clients : work[c] = NoWork
    OBVIOUS
  <1>4. \A c \in Clients : work[c].copies = {} /\ work[c].up = {} /\ work[c].op = "none"
    BY <1>3 DEF NoWork
  <1>5. Numbered
    BY <1>3 DEF Numbered, Self
  <1>6. WorkApart
    BY <1>3, <1>4 DEF WorkApart, NoWork
  <1>7. KeysOK /\ CopiesOK /\ Revocable /\ SourceHolds
    BY <1>3, <1>4 DEF KeysOK, CopiesOK, Revocable, SourceHolds
  <1>8. OneGrant
    BY <1>3, <1>4 DEF OneGrant
  <1>9. Older /\ CopiesCurrent
    BY <1>3, <1>4 DEF Older, CopiesCurrent
  <1> QED
    BY <1>2, <1>5, <1>6, <1>7, <1>8, <1>9 DEF IInv

\* The set C holds what the trigger copies for the row r of table t: each copy
\* has a source, and each binding of a source is copied.
Sourced(C, t, r, pointed) ==
    /\ \A b \in C :
         \E i \in inherits, d \in bindings :
           /\ i.dst = t /\ i.id = b.inh /\ i # Self /\ d.row \in Sources(i, pointed)
           /\ b.row = r /\ b.ref = d.ref /\ b.grant = d.grant
    /\ \A i \in inherits, d \in bindings :
         i.dst = t /\ d.row \in Sources(i, pointed) =>
           \E b \in C : b.inh = i.id /\ b.ref = d.ref

LEMMA CopiesFrom ==
    ASSUME TypeOK, NEW t, t # NoTable, NEW r \in RowIds, NEW pointed \in SUBSET RowIds
    PROVE  /\ Copies(t, r, pointed) \in SUBSET Binding
           /\ Sourced(Copies(t, r, pointed), t, r, pointed)
  <1>1. \A i \in inherits : i.dst = t => i # Self /\ i.id \in 0..MaxInh
    BY BoundsAssumption DEF TypeOK, Self, Inheritance
  <1>2. \A b \in Copies(t, r, pointed) : \E i \in inherits, d \in bindings :
            /\ i.dst = t /\ d.row \in Sources(i, pointed)
            /\ b = [row |-> r, inh |-> i.id, ref |-> d.ref, grant |-> d.grant]
    BY DEF Copies, Copied, Inherited, Found
  <1>3. \A i \in inherits, d \in bindings :
            i.dst = t /\ d.row \in Sources(i, pointed) =>
              [row |-> r, inh |-> i.id, ref |-> d.ref, grant |-> d.grant] \in Copies(t, r, pointed)
    BY DEF Copies, Copied, Inherited, Found
  <1>4. Copies(t, r, pointed) \in SUBSET Binding
    BY <1>1, <1>2 DEF TypeOK, Binding
  <1>5. \A b \in Copies(t, r, pointed) :
          \E i \in inherits, d \in bindings :
            /\ i.dst = t /\ i.id = b.inh /\ i # Self /\ d.row \in Sources(i, pointed)
            /\ b.row = r /\ b.ref = d.ref /\ b.grant = d.grant
    <2> TAKE b \in Copies(t, r, pointed)
    <2>1. PICK i \in inherits, d \in bindings :
            /\ i.dst = t /\ d.row \in Sources(i, pointed)
            /\ b = [row |-> r, inh |-> i.id, ref |-> d.ref, grant |-> d.grant]
      BY <1>2
    <2> QED
      BY <1>1, <2>1
  <1>6. \A i \in inherits, d \in bindings :
          i.dst = t /\ d.row \in Sources(i, pointed) =>
            \E b \in Copies(t, r, pointed) : b.inh = i.id /\ b.ref = d.ref
    BY <1>3
  <1> QED
    BY <1>4, <1>5, <1>6 DEF Sourced

LEMMA HeldFacts ==
    ASSUME NEW B, NEW r, NEW x
    PROVE  <<r, x>> \in Held(B) <=> \E b \in B : b.row = r /\ b.ref = x
  BY DEF Held

\* A reference that is not deleted stays where it is held, or the loss is noted;
\* and a row that is no source any more has lost all that it held.
Remembers ==
    /\ \A s : \A x \in refs' : <<s, x>> \in lost => <<s, x>> \in lost'
    /\ \A s : \A x \in refs' :
         <<s, x>> \in Held(bindings) => <<s, x>> \in Held(bindings)' \/ <<s, x>> \in lost'
    /\ \A i, pointed : \A x \in refs' : \A s \in Sources(i, pointed) :
         <<s, x>> \in Held(bindings) => s \in Sources(i, pointed)' \/ <<s, x>> \in lost'
    /\ strayed \subseteq strayed'

LEMMA CameStays ==
    ASSUME Remembers, NEW x \in refs'
    PROVE  /\ \A i, pointed : Came(i, pointed, x) => Came(i, pointed, x)'
           /\ Roamed(x) => Roamed(x)'
  <1>1. ASSUME NEW i, NEW pointed, Came(i, pointed, x)
        PROVE  Came(i, pointed, x)'
    BY <1>1 DEF Came, Remembers
  <1>2. ASSUME Roamed(x) PROVE Roamed(x)'
    BY <1>2 DEF Roamed, Remembers
  <1> QED
    BY <1>1, <1>2

\* An access command and a deletion, of a row or of inheritances, give a row nothing
\* but a binding of its own, and leave alone what is there.
GivesNothing ==
    /\ \A b \in bindings' : b \in bindings \/ b.inh = 0
    /\ \A b \in bindings' : b.inh # 0 => b.ref \in refs
    /\ \A i \in inherits' : i # Self => i.id # 0
    /\ \A i \in inherits' \ inherits :
         /\ \A b \in bindings : b.inh # i.id
         /\ \A c \in Clients : \A b \in work[c].copies : b.inh # i.id
    /\ Rows' \subseteq Rows
    /\ \A r \in Rows' : up'[r] = up[r]
    /\ \A x \in refs \cap refs' : origin'[x] = origin[x]
    /\ \A c \in Clients : \A b \in work[c].copies : b.ref \in refs' => b.ref \in refs
    /\ UNCHANGED <<work, strayed>>

LEMMA NothingGiven ==
    ASSUME IInv, Remembers, GivesNothing, WorkApart', KeysOK'
    PROVE  SourceHolds' /\ CopiesCurrent' /\ Older'
  <1> USE DEF IInv, GivesNothing
  <1>1. \A b \in bindings' : b.row \in Rows' /\ b.ref \in refs'
    BY DEF KeysOK
  <1>2. \A c \in Clients : Steady(work[c])' => Steady(work[c])
    BY DEF Steady, WorkApart
  <1>3. SourceHolds'
    <2> SUFFICES ASSUME NEW b \in bindings', NEW i \in inherits', b.inh = i.id, i # Self,
                        b.row \notin strayed'
                 PROVE  Came(i, up[b.row], b.ref)'
      BY DEF SourceHolds
    <2>1. b \in bindings /\ i \in inherits /\ up'[b.row] = up[b.row]
      BY <1>1
    <2>2. Came(i, up[b.row], b.ref)
      BY <2>1 DEF SourceHolds
    <2> QED
      BY <1>1, <2>1, <2>2, CameStays
  <1>4. CopiesCurrent'
    <2> SUFFICES ASSUME NEW c \in Clients
                 PROVE  LET w == work[c] IN
                   /\ \A b \in w.copies, i \in inherits' :
                        b.inh = i.id /\ b.ref \in refs' => Came(i, w.up, b.ref)'
                   /\ \A b \in bindings' :
                        b.row = w.row /\ Steady(w)' /\ (\E d \in w.copies : d.inh = b.inh) =>
                          \/ \E d \in w.copies : d.inh = b.inh /\ d.ref = b.ref
                          \/ \E s \in w.up : <<s, b.ref>> \in lost'
      BY DEF CopiesCurrent
    <2> DEFINE w == work[c]
    <2>0. work'[c] = w
      OBVIOUS
    <2>1. ASSUME NEW b \in w.copies, NEW i \in inherits', b.inh = i.id, b.ref \in refs'
          PROVE  Came(i, w.up, b.ref)'
      <3>1. Came(i, w.up, b.ref)
        BY <2>1 DEF CopiesCurrent
      <3>2. w' = w
        BY <2>0
      <3> HIDE DEF w
      <3> QED
        BY <2>1, <3>1, <3>2, CameStays
    <2>2. ASSUME NEW b \in bindings', b.row = w.row, Steady(w)', NEW d \in w.copies, d.inh = b.inh
          PROVE  \/ \E e \in w.copies : e.inh = b.inh /\ e.ref = b.ref
                 \/ \E s \in w.up : <<s, b.ref>> \in lost'
      <3>1. b \in bindings
        BY <2>2 DEF CopiesOK
      <3>2. \/ \E e \in w.copies : e.inh = b.inh /\ e.ref = b.ref
            \/ \E s \in w.up : <<s, b.ref>> \in lost
        BY <1>2, <2>2, <3>1 DEF CopiesCurrent
      <3> QED
        BY <1>1, <3>2 DEF Remembers
    <2> QED
      BY <2>1, <2>2
  <1>5. Older'
    <2>1. \A r \in Rows' \ strayed' : \A s \in up'[r] : s < r
      BY DEF Older
    <2>2. ASSUME NEW b \in bindings', b.inh # 0
          PROVE  origin'[b.ref] < b.row \/ Roamed(b.ref)'
      <3>1. b \in bindings /\ b.ref \in refs \cap refs'
        BY <1>1, <2>2
      <3>2. origin[b.ref] < b.row \/ Roamed(b.ref)
        BY <2>2, <3>1 DEF Older
      <3> QED
        BY <3>1, <3>2, CameStays
    <2>3. ASSUME NEW c \in Clients, Steady(work[c])'
          PROVE  /\ \A s \in work[c].up : s < work[c].row
                 /\ \A b \in work[c].copies :
                      b.ref \in refs' => origin'[b.ref] < b.row \/ Roamed(b.ref)'
      <3>1. Steady(work[c])
        BY <1>2, <2>3
      <3>2. ASSUME NEW b \in work[c].copies, b.ref \in refs'
            PROVE  origin'[b.ref] < b.row \/ Roamed(b.ref)'
        <4>1. origin[b.ref] < b.row \/ Roamed(b.ref)
          BY <3>1, <3>2 DEF Older
        <4> QED
          BY <3>2, <4>1, CameStays
      <3> QED
        BY <3>1, <3>2 DEF Older
    <2> QED
      BY <2>1, <2>2, <2>3 DEF Older
  <1> QED
    BY <1>3, <1>4, <1>5

\* A client begins a change w, or gives one up.  What it needs to know of w is
\* that its copies are what the trigger found.
LEMMA SetWork ==
    ASSUME IInv, TypeOK', NEW c \in Clients, NEW w \in Work,
           work' = [work EXCEPT ![c] = w],
           UNCHANGED <<table, up, refs, origin, inherits, bindings, strayed, lost>>,
           seqs'.row >= seqs.row, seqs'.ref = seqs.ref, seqs'.inh = seqs.inh,
           w.op = "none" <=> w = NoWork,
           w # NoWork =>
             /\ w.row \in 1..seqs'.row /\ w.table \in Tables
             /\ \A e \in Clients \ {c} : work[e].row # w.row
             /\ w.up \in SUBSET Rows
             /\ Sourced(w.copies, w.table, w.row, w.up),
           w.op = "insert" => w.row > seqs.row,
           w.op = "update" => w.row \in Rows /\ w.table = table[w.row]
    PROVE  IInv'
  <1> USE DEF IInv, RowIds, RefIds, Sourced
  <1>0. /\ Rows' = Rows /\ Rows \in SUBSET (1..MaxRows)
        /\ \A i, pointed : Sources(i, pointed)' = Sources(i, pointed)
    BY DEF Rows, Sources
  <1>3. /\ \A i, pointed, x : Came(i, pointed, x)' <=> Came(i, pointed, x)
        /\ \A x : Roamed(x)' <=> Roamed(x)
        /\ Steady(work[c])' <=> Steady(w)
        /\ \A e \in Clients \ {c} : Steady(work[e])' <=> Steady(work[e])
    <2>1. work'[c] = w /\ \A e \in Clients \ {c} : work'[e] = work[e]
      BY DEF TypeOK
    <2>2. Held(bindings)' = Held(bindings)
      BY DEF Held
    <2>3. \A i, pointed, x : Came(i, pointed, x)' <=> Came(i, pointed, x)
      BY <1>0, <2>2 DEF Came
    <2>4. \A x : Roamed(x)' <=> Roamed(x)
      BY <2>2 DEF Roamed
    <2>5. Steady(work[c])' <=> Steady(w)
      BY <2>1 DEF Steady
    <2>6. \A e \in Clients \ {c} : Steady(work[e])' <=> Steady(work[e])
      BY <2>1 DEF Steady
    <2> QED
      BY <2>3, <2>4, <2>5, <2>6
  <1>1. /\ \A e \in Clients : work'[e] = IF e = c THEN w ELSE work[e]
        /\ \A e \in Clients : work[e] \in Work /\ work[e].row \in 0..MaxRows
        /\ w.row \in 0..MaxRows
    BY DEF TypeOK, Work
  <1>2. w = NoWork => w.copies = {} /\ w.up = {} /\ w.row = 0 /\ w.op = "none"
    BY DEF NoWork
  <1>4. \A b \in w.copies :
          /\ b.row = w.row
          /\ \E i \in inherits, d \in bindings :
               /\ i.dst = w.table /\ i.id = b.inh /\ i # Self /\ d.row \in Sources(i, w.up)
               /\ b.ref = d.ref /\ b.grant = d.grant
    BY <1>2
  <1>5. \A b \in bindings, i \in inherits :
          b.row \in Sources(i, w.up) => b.row \in w.up /\ w # NoWork
    BY <1>2 DEF Sources
  <1>6. Numbered'
    BY <1>0 DEF Numbered, TypeOK
  <1>7. WorkApart'
    <2> SUFFICES ASSUME NEW e \in Clients
                 PROVE  LET v == work'[e] IN
                        /\ v.op = "none" <=> v = NoWork
                        /\ v # NoWork => v.row \in 1..seqs'.row /\ v.table \in Tables
                        /\ \A f \in Clients \ {e} : v # NoWork => work'[f].row # v.row
                        /\ v.op = "insert" => v.row \notin Rows /\ \A x \in refs : origin[x] # v.row
                        /\ v.op = "update" => v.row \in Rows /\ v.table = table[v.row]
      BY <1>0 DEF WorkApart
    <2>1. CASE e = c
      <3>1. \A r \in Rows : r <= seqs.row
        BY DEF Numbered
      <3>2. \A x \in refs : origin[x] <= seqs.row
        BY DEF Numbered
      <3> QED
        BY <2>1, <3>1, <3>2, <1>0, <1>1, <1>2 DEF TypeOK
    <2>2. CASE e # c
      <3>1. work[e] # NoWork => work[e].row \in 1..seqs.row
        BY DEF WorkApart
      <3>2. work[e] # NoWork => work[e].row # w.row
        <4>1. CASE w = NoWork
          BY <4>1, <3>1, <1>2
        <4>2. CASE w # NoWork
          BY <4>2, <2>2
        <4> QED
          BY <4>1, <4>2
      <3> QED
        BY <2>2, <3>1, <3>2, <1>0, <1>1 DEF WorkApart, TypeOK
    <2> QED
      BY <2>1, <2>2
  <1>8. KeysOK' /\ Revocable' /\ SourceHolds'
    BY <1>0, <1>3 DEF KeysOK, Revocable, SourceHolds
  <1>9. CopiesOK'
    <2>1. \A b \in w.copies : /\ b.row = w.row /\ b.ref <= seqs.ref /\ b.inh \in 1..seqs.inh
                             /\ \A i \in inherits : i.id = b.inh => i.dst = w.table
      <3> TAKE b \in w.copies
      <3>1. PICK i \in inherits, d \in bindings :
               /\ i.dst = w.table /\ i.id = b.inh /\ i # Self /\ b.ref = d.ref
        BY <1>4
      <3>2. i.id \in 1..seqs.inh
        BY <3>1 DEF Numbered, TypeOK, Inheritance
      <3> QED
        BY <1>4, <3>1, <3>2 DEF Numbered, KeysOK
    <2> QED
      BY <1>1, <2>1 DEF CopiesOK
  <1>10. OneGrant'
    <2>1. \A b \in w.copies : \E d \in bindings : d.ref = b.ref /\ d.grant = b.grant
      BY <1>4
    <2>2. \A b \in (bindings \cup UNION {work[e].copies : e \in Clients})' :
            \E d \in bindings \cup UNION {work[e].copies : e \in Clients} :
              d.ref = b.ref /\ d.grant = b.grant
      BY <1>1, <2>1
    <2> QED
      BY <2>2 DEF OneGrant
  <1>11. Older'
    <2>1. ASSUME Steady(w), NEW x \in w.up
          PROVE  x < w.row
      <3>1. x \in Rows /\ x <= seqs.row /\ w # NoWork
        BY <1>2, <2>1 DEF Numbered
      <3>2. CASE w.op = "update"
        BY <2>1, <3>2 DEF Older, Steady
      <3>3. CASE w.op = "insert"
        BY <1>0, <1>1, <3>1, <3>3 DEF TypeOK
      <3> QED
        BY <3>1, <3>2, <3>3 DEF Work
    <2>2. ASSUME Steady(w), NEW b \in w.copies
          PROVE  origin[b.ref] < b.row \/ Roamed(b.ref)
      <3>1. PICK i \in inherits, d \in bindings : d.row \in Sources(i, w.up) /\ b.ref = d.ref
        BY <1>4
      <3>2. d.row < w.row
        BY <1>5, <2>1, <2>2, <3>1
      <3>3. d.row \in Nat /\ b.row = w.row
        BY <1>4, <2>2 DEF TypeOK, Binding
      <3>4. origin[d.ref] = d.row \/ origin[d.ref] < d.row \/ Roamed(d.ref)
        BY DEF Older, KeysOK
      <3>5. origin[d.ref] \in Nat
        BY DEF TypeOK, Binding
      <3> QED
        BY <3>1, <3>2, <3>3, <3>4, <3>5, <1>1
    <2>3. ASSUME NEW e \in Clients, Steady(work[e])'
          PROVE  /\ \A x \in work'[e].up : x < work'[e].row
                 /\ \A b \in work'[e].copies :
                      b.ref \in refs => origin[b.ref] < b.row \/ Roamed(b.ref)
      <3>1. CASE e = c
        <4>1. work'[e] = w
          BY <1>1, <3>1
        <4>2. Steady(w)
          BY <1>3, <2>3, <3>1
        <4> QED
          BY <4>1, <4>2, <2>1, <2>2
      <3>2. CASE e # c
        <4>1. work'[e] = work[e]
          BY <1>1, <3>2
        <4>2. Steady(work[e])
          BY <1>3, <2>3, <3>2
        <4> QED
          BY <4>1, <4>2 DEF Older
      <3> QED
        BY <3>1, <3>2
    <2> QED
      BY <1>0, <1>3, <2>3 DEF Older
  <1>12. CopiesCurrent'
    <2> SUFFICES ASSUME NEW e \in Clients
                 PROVE  /\ \A b \in work'[e].copies, i \in inherits :
                             b.inh = i.id /\ b.ref \in refs => Came(i, work'[e].up, b.ref)
                        /\ \A b \in bindings :
                             /\ b.row = work'[e].row /\ Steady(work[e])'
                             /\ \E d \in work'[e].copies : d.inh = b.inh
                             => \/ \E d \in work'[e].copies : d.inh = b.inh /\ d.ref = b.ref
                                \/ \E x \in work'[e].up : <<x, b.ref>> \in lost
      BY <1>3 DEF CopiesCurrent
    <2>1. CASE e # c
      BY <2>1, <1>1, <1>3 DEF CopiesCurrent
    <2>2. CASE e = c
      <3>1. ASSUME NEW b \in w.copies, NEW i \in inherits, b.inh = i.id
            PROVE  Came(i, w.up, b.ref)
        <4>1. PICK j \in inherits, d \in bindings :
                 j.id = b.inh /\ d.row \in Sources(j, w.up) /\ b.ref = d.ref
          BY <1>4
        <4>2. i = j
          BY <3>1, <4>1 DEF Numbered
        <4>3. <<d.row, b.ref>> \in Held(bindings) /\ d.row \in w.up
          BY <4>1 DEF Held, Sources
        <4> QED
          BY <4>1, <4>2, <4>3 DEF Came
      <3>2. ASSUME NEW b \in bindings, b.row = w.row, Steady(w), NEW d \in w.copies, d.inh = b.inh
            PROVE  \/ \E f \in w.copies : f.inh = b.inh /\ f.ref = b.ref
                   \/ \E x \in w.up : <<x, b.ref>> \in lost
        <4>1. w # NoWork
          BY <1>2, <3>2
        <4>2. b.row \in Rows /\ b.row <= seqs.row
          BY DEF KeysOK, Numbered
        <4>3. w.op = "update"
          BY <4>1, <4>2, <3>2, <1>1 DEF Work, TypeOK
        <4>4. PICK i \in inherits : i.dst = w.table /\ i.id = b.inh /\ i # Self
          BY <1>4, <3>2
        <4>5. w.up = up[w.row] /\ w.row \notin strayed
          BY <3>2, <4>3 DEF Steady
        <4>6. Came(i, w.up, b.ref)
          BY <4>4, <4>5, <3>2 DEF SourceHolds
        <4>7. CASE \E x \in w.up : <<x, b.ref>> \in lost
          BY <4>7
        <4>8. CASE \E x \in w.up : x \in Sources(i, w.up) /\ <<x, b.ref>> \in Held(bindings)
          <5>1. PICK x \in w.up : x \in Sources(i, w.up) /\ <<x, b.ref>> \in Held(bindings)
            BY <4>8
          <5>2. PICK f \in bindings : f.row = x /\ f.ref = b.ref
            BY <5>1, HeldFacts
          <5> QED
            BY <4>1, <4>4, <5>1, <5>2
        <4> QED
          BY <4>6, <4>7, <4>8 DEF Came
      <3> QED
        BY <2>2, <1>1, <1>3, <3>1, <3>2
    <2> QED
      BY <2>1, <2>2
  <1> QED
    BY <1>6, <1>7, <1>8, <1>9, <1>10, <1>11, <1>12

LEMMA NoWorkFacts == NoWork \in Work
  BY BoundsAssumption DEF NoWork, Work

LEMMA AbortInv ==
    ASSUME IInv, NEW c \in Clients, Abort(c)
    PROVE  IInv'
  <1>1. work' = [work EXCEPT ![c] = NoWork]
    BY DEF Abort
  <1>2. UNCHANGED <<table, up, refs, origin, inherits, bindings, seqs, strayed, lost>>
    BY DEF Abort
  <1>3. TypeOK'
    BY <1>1, <1>2, NoWorkFacts DEF IInv, TypeOK
  <1>4. seqs.row >= seqs.row
    BY DEF IInv, TypeOK
  <1>5. NoWork.op = "none"
    BY DEF NoWork
  <1> QED
    BY <1>1, <1>2, <1>3, <1>4, <1>5, NoWorkFacts, SetWork

LEMMA BeginInsertInv ==
    ASSUME IInv, NEW c \in Clients, NEW t \in Tables, NEW pointed \in SUBSET Rows,
           BeginInsert(c, t, pointed)
    PROVE  IInv'
  <1> DEFINE r == seqs.row + 1
             W == [op |-> "insert", row |-> r, table |-> t, up |-> pointed,
                   copies |-> Copies(t, r, pointed)]
  <1>0. TypeOK /\ Rows \in SUBSET RowIds /\ t # NoTable
    BY TablesAssumption DEF IInv, Rows
  <1>1. /\ r \in RowIds /\ r \in Nat /\ seqs' = [seqs EXCEPT !.row = r]
        /\ UNCHANGED <<table, up, refs, origin, inherits, bindings, strayed, lost>>
    BY <1>0 DEF BeginInsert, TypeOK
  <1>2. /\ seqs'.row = r /\ seqs'.ref = seqs.ref /\ seqs'.inh = seqs.inh
        /\ seqs' \in [row : 0..MaxRows, ref : 0..MaxRefs, inh : 0..MaxInh]
        /\ seqs.row \in Nat /\ seqs'.row >= seqs.row
    <2>1. seqs.row \in Nat
      BY <1>0 DEF TypeOK
    <2>2. r \in 0..MaxRows /\ r >= seqs.row
      BY <1>1, <2>1, BoundsAssumption DEF RowIds
    <2> HIDE DEF r
    <2> QED
      BY <1>0, <1>1, <2>1, <2>2 DEF TypeOK
  <1>3. CASE work' = [work EXCEPT ![c] = NoWork]
    <2>1. TypeOK'
      BY <1>0, <1>1, <1>2, <1>3, NoWorkFacts DEF TypeOK
    <2>2. NoWork.op = "none"
      BY DEF NoWork
    <2> QED
      BY <1>1, <1>2, <1>3, <2>1, <2>2, NoWorkFacts, SetWork
  <1>4. CASE work' = [work EXCEPT ![c] = W]
    <2>1. /\ Copies(t, r, pointed) \in SUBSET Binding
          /\ Sourced(Copies(t, r, pointed), t, r, pointed)
      <3> HIDE DEF r
      <3> QED
        BY <1>0, <1>1, CopiesFrom
    <2>2. W \in Work /\ W.row = r /\ W.op = "insert" /\ W.table = t /\ W.up = pointed
          /\ W.copies = Copies(t, r, pointed)
      <3> HIDE DEF r
      <3> QED
        BY <1>0, <1>1, <2>1, BoundsAssumption DEF Work, RowIds
    <2>3. TypeOK'
      BY <1>0, <1>1, <1>2, <1>4, <2>2 DEF TypeOK
    <2>4. \A e \in Clients \ {c} : work[e].row # r
      BY <1>0, <1>2 DEF IInv, WorkApart, TypeOK, Work, NoWork
    <2>5. W # NoWork
      BY <2>2 DEF NoWork
    <2>6. W.row \in 1..seqs'.row /\ W.row > seqs.row
      BY <1>1, <1>2, <2>2
    <2> HIDE DEF W, r
    <2> QED
      BY <1>1, <1>2, <1>4, <2>1, <2>2, <2>3, <2>4, <2>5, <2>6, SetWork
  <1> QED
    BY <1>3, <1>4 DEF BeginInsert

LEMMA BeginUpdateInv ==
    ASSUME IInv, NEW c \in Clients, NEW r \in Unlocked, NEW pointed \in SUBSET Rows,
           BeginUpdate(c, r, pointed)
    PROVE  IInv'
  <1> DEFINE W == [op |-> "update", row |-> r, table |-> table[r], up |-> pointed,
                   copies |-> Copies(table[r], r, pointed)]
  <1>0. /\ TypeOK /\ Rows \in SUBSET RowIds /\ r \in Rows
        /\ table[r] # NoTable /\ table[r] \in Tables
    BY DEF IInv, Rows, Unlocked, TypeOK
  <1>1. /\ work' = [work EXCEPT ![c] = W]
        /\ UNCHANGED <<table, up, refs, origin, inherits, bindings, seqs, strayed, lost>>
    BY DEF BeginUpdate
  <1>2. /\ Copies(table[r], r, pointed) \in SUBSET Binding
        /\ Sourced(Copies(table[r], r, pointed), table[r], r, pointed)
    BY <1>0, CopiesFrom
  <1>3. W \in Work /\ W.row = r /\ W.op = "update" /\ W.table = table[r] /\ W.up = pointed
        /\ W.copies = Copies(table[r], r, pointed)
    BY <1>0, <1>2, BoundsAssumption DEF Work, RowIds
  <1> HIDE DEF W
  <1>4. TypeOK'
    BY <1>0, <1>1, <1>3 DEF TypeOK
  <1>5. \A e \in Clients \ {c} : work[e].row # r
    BY DEF Unlocked
  <1>6. W # NoWork
    BY <1>3 DEF NoWork
  <1>7. r \in 1..seqs'.row /\ seqs'.row >= seqs.row
    BY <1>0, <1>1 DEF IInv, Numbered, RowIds, TypeOK
  <1> QED
    BY <1>0, <1>1, <1>2, <1>3, <1>4, <1>5, <1>6, <1>7, SetWork

\* The change of a row, with its copies, is there.
LEMMA CommitInv ==
    ASSUME IInv, NEW c \in Clients, Commit(c)
    PROVE  IInv'
  <1> DEFINE w == work[c]
  <1> USE DEF IInv
  <1>1. /\ table' = [table EXCEPT ![w.row] = w.table]
        /\ up' = [up EXCEPT ![w.row] = w.up]
        /\ bindings' = Replaced(w)
        /\ work' = [work EXCEPT ![c] = NoWork]
        /\ strayed' = (IF Steady(w) THEN strayed ELSE strayed \cup {w.row})
        /\ lost' = lost \cup Forgone(w)
        /\ UNCHANGED <<refs, origin, inherits, seqs>>
        /\ KeysHold(w) /\ w.op # "none"
    BY DEF Commit
  <1>2. /\ w \in Work /\ w # NoWork /\ w.op \in {"insert", "update"}
        /\ w.row \in 1..seqs.row /\ w.table \in Tables /\ w.row \in RowIds
        /\ w.up \in SUBSET RowIds /\ w.copies \in SUBSET Binding
    <2>1. w \in Work /\ seqs.row \in 0..MaxRows
      BY DEF TypeOK
    <2>2. w # NoWork /\ w.row \in 1..seqs.row /\ w.table \in Tables
      BY <1>1 DEF WorkApart
    <2> HIDE DEF w
    <2> QED
      BY <1>1, <2>1, <2>2, BoundsAssumption DEF Work, RowIds
  <1>3. /\ w.op = "insert" => w.row \notin Rows /\ \A x \in refs : origin[x] # w.row
        /\ w.op = "update" => w.row \in Rows /\ w.table = table[w.row]
        /\ \A e \in Clients \ {c} : work[e].row # w.row
    BY <1>2 DEF WorkApart
  <1> HIDE DEF w
  <1>4. /\ Rows' = Rows \cup {w.row}
        /\ \A r \in Rows : table'[r] = table[r]
        /\ table'[w.row] = w.table
    BY <1>1, <1>2, <1>3, TablesAssumption DEF Rows, TypeOK
  <1>5. \A i, pointed : \A s \in Sources(i, pointed) : s \in Sources(i, pointed)'
    BY <1>4 DEF Sources
  <1>6. /\ \A b \in bindings' :
             \/ b \in w.copies
             \/ b \in bindings /\ ~(b.row = w.row /\ \E d \in w.copies : d.inh = b.inh)
        /\ w.copies \subseteq bindings'
        /\ \A b \in bindings :
             ~(b.row = w.row /\ \E d \in w.copies : d.inh = b.inh) => b \in bindings'
    <2>1. bindings' =
            {b \in bindings : ~(b.row = w.row /\ \E d \in w.copies : d.inh = b.inh)} \cup w.copies
      BY <1>1 DEF Replaced
    <2> QED
      BY <2>1
  <1>7. \A b \in w.copies :
          /\ b.row = w.row /\ b.ref \in refs /\ b.inh \in 1..seqs.inh
          /\ \E i \in inherits : i.id = b.inh
          /\ \A i \in inherits : i.id = b.inh => i.dst = w.table
    <2>1. \A b \in work[c].copies :
            /\ b.row = work[c].row /\ b.inh \in 1..seqs.inh
            /\ \A i \in inherits : i.id = b.inh => i.dst = work[c].table
      BY DEF CopiesOK
    <2> QED
      BY <1>1, <2>1 DEF KeysHold, w
  <1>8. /\ \A e \in Clients : work'[e] = IF e = c THEN NoWork ELSE work[e]
        /\ NoWork.copies = {} /\ NoWork.up = {} /\ NoWork.op = "none"
    BY <1>1 DEF TypeOK, NoWork
  <1>9. /\ \A r \in RowIds : up'[r] = IF r = w.row THEN w.up ELSE up[r]
        /\ Rows \in SUBSET RowIds
    BY <1>1, <1>2 DEF TypeOK, Rows
  <1>10. TypeOK'
    <2>1. bindings' \in SUBSET Binding
      BY <1>2, <1>6 DEF TypeOK
    <2>2. table' \in [RowIds -> Tables \cup {NoTable}] /\ up' \in [RowIds -> SUBSET RowIds]
      BY <1>1, <1>2 DEF TypeOK
    <2>3. work' \in [Clients -> Work]
      BY <1>1, NoWorkFacts DEF TypeOK
    <2>4. strayed' \in SUBSET RowIds
      BY <1>1, <1>2 DEF TypeOK
    <2>5. lost' \in SUBSET (RowIds \X RefIds)
      <3>1. Held(bindings) \in SUBSET (RowIds \X RefIds)
        BY DEF Held, TypeOK, Binding
      <3> QED
        BY <1>1, <3>1 DEF Forgone, TypeOK
    <2> QED
      BY <1>1, <2>1, <2>2, <2>3, <2>4, <2>5 DEF TypeOK
  <1>11. Numbered'
    BY <1>1, <1>2, <1>4 DEF Numbered, TypeOK
  <1>12. WorkApart'
    <2> SUFFICES ASSUME NEW e \in Clients
                 PROVE  LET v == work'[e] IN
                        /\ v.op = "none" <=> v = NoWork
                        /\ v # NoWork => v.row \in 1..seqs.row /\ v.table \in Tables
                        /\ \A f \in Clients \ {e} : v # NoWork => work'[f].row # v.row
                        /\ v.op = "insert" => v.row \notin Rows' /\ \A x \in refs : origin[x] # v.row
                        /\ v.op = "update" => v.row \in Rows' /\ v.table = table'[v.row]
      BY <1>1 DEF WorkApart
    <2>1. CASE e = c
      BY <2>1, <1>8
    <2>2. CASE e # c
      <3>1. work[e].row # w.row
        BY <1>3, <2>2
      <3>2. work[e] # NoWork => work[e].row # NoWork.row
        BY DEF WorkApart, NoWork
      <3> QED
        BY <2>2, <3>1, <3>2, <1>4, <1>8 DEF WorkApart
    <2> QED
      BY <2>1, <2>2
  <1>13. KeysOK'
    <2> SUFFICES ASSUME NEW b \in bindings'
                 PROVE  /\ b.row \in Rows' /\ b.ref \in refs
                        /\ b.inh = 0 => b.row = origin[b.ref]
                        /\ \E i \in inherits : i.id = b.inh /\ (i # Self => i.dst = table'[b.row])
      BY <1>1 DEF KeysOK
    <2>1. CASE b \in w.copies
      BY <2>1, <1>4, <1>7 DEF TypeOK
    <2>2. CASE b \in bindings
      BY <2>2, <1>4 DEF KeysOK
    <2> QED
      BY <2>1, <2>2, <1>6
  <1>14. CopiesOK'
    BY <1>1, <1>8 DEF CopiesOK
  <1>15. OneGrant'
    <2>1. (bindings \cup UNION {work[e].copies : e \in Clients})'
            \subseteq bindings \cup UNION {work[e].copies : e \in Clients}
      BY <1>6, <1>8 DEF w
    <2> QED
      BY <2>1 DEF OneGrant
  <1>16. Revocable'
    <2> SUFFICES ASSUME NEW x \in refs, origin[x] \in Rows'
                 PROVE  \E b \in bindings' : b.row = origin[x] /\ b.inh = 0 /\ b.ref = x
      BY <1>1 DEF Revocable
    <2>1. origin[x] \in Rows
      BY <1>2, <1>3, <1>4
    <2>2. PICK b \in bindings : b.row = origin[x] /\ b.inh = 0 /\ b.ref = x
      BY <2>1 DEF Revocable
    <2>3. \A d \in w.copies : d.inh # b.inh
      BY <1>7, <2>2 DEF TypeOK
    <2> QED
      BY <1>6, <2>2, <2>3
  <1>17. Remembers
    <2>1. ASSUME NEW x \in refs, NEW r, <<r, x>> \in Held(bindings), <<r, x>> \notin Held(bindings)'
          PROVE  <<r, x>> \in lost'
      <3>1. PICK d \in bindings : d.row = r /\ d.ref = x
        BY <2>1, HeldFacts
      <3>2. d \notin bindings'
        BY <2>1, <3>1 DEF Held
      <3>3. r = w.row /\ \E e \in w.copies : e.inh = d.inh
        BY <1>6, <3>1, <3>2
      <3>4. \A e \in w.copies : e.ref # x
        BY <1>6, <1>7, <2>1, <3>3 DEF Held
      <3>5. ~Steady(w) \/ \E s \in w.up : <<s, x>> \in lost
        BY <3>1, <3>3, <3>4 DEF CopiesCurrent, w
      <3>6. <<r, x>> \in Held(bindings) \ Held(Replaced(w))
        BY <1>1, <2>1 DEF Held
      <3>7. <<r, x>>[2] = x
        OBVIOUS
      <3> QED
        BY <1>1, <3>5, <3>6, <3>7 DEF Forgone
    <2> QED
      BY <1>1, <1>5, <2>1 DEF Remembers
  <1>18. \A e \in Clients \ {c} : work'[e] = work[e] /\ (Steady(work[e])' => Steady(work[e]))
    <2> TAKE e \in Clients \ {c}
    <2>1. work'[e] = work[e] /\ work[e].row # w.row
      BY <1>3, <1>8
    <2>2. work[e].op = "update" => work[e].row \in RowIds
      BY <1>9 DEF WorkApart
    <2> QED
      BY <1>1, <1>9, <2>1, <2>2 DEF Steady
  <1>19. SourceHolds'
    <2> SUFFICES ASSUME NEW b \in bindings', NEW i \in inherits, b.inh = i.id, i # Self,
                        b.row \notin strayed'
                 PROVE  Came(i, up[b.row], b.ref)'
      BY <1>1 DEF SourceHolds
    <2>1. Came(i, up'[b.row], b.ref) /\ b.ref \in refs
      <3>1. CASE b \in w.copies
        <4>1. b.ref \in refs /\ up'[b.row] = w.up
          BY <3>1, <1>2, <1>7, <1>9
        <4>2. Came(i, w.up, b.ref)
          BY <3>1, <4>1 DEF CopiesCurrent, w
        <4> QED
          BY <4>1, <4>2
      <3>2. CASE b \in bindings
        <4>1. b.row \in Rows /\ b.ref \in refs
          BY <3>2 DEF KeysOK
        <4>2. up'[b.row] = up[b.row] /\ b.row \notin strayed
          <5>1. CASE b.row = w.row
            <6>1. w.op = "update" /\ Steady(w)
              BY <1>1, <1>2, <1>3, <4>1, <5>1
            <6> QED
              BY <1>2, <1>9, <5>1, <6>1 DEF Steady
          <5>2. CASE b.row # w.row
            BY <1>1, <1>9, <4>1, <5>2
          <5> QED
            BY <5>1, <5>2
        <4>3. Came(i, up[b.row], b.ref)
          BY <3>2, <4>2 DEF SourceHolds
        <4> QED
          BY <4>1, <4>2, <4>3
      <3> QED
        BY <3>1, <3>2, <1>6
    <2> QED
      BY <1>1, <1>17, <2>1, CameStays
  <1>20. Older'
    <2>1. ASSUME NEW r \in Rows' \ strayed', NEW s \in up'[r]
          PROVE  s < r
      <3>1. CASE r = w.row
        <4>1. Steady(w) /\ up'[r] = w.up
          BY <1>1, <1>2, <1>9, <2>1, <3>1
        <4> QED
          BY <2>1, <3>1, <4>1 DEF Older, w
      <3>2. CASE r # w.row
        <4>1. r \in Rows \ strayed /\ up'[r] = up[r]
          BY <1>1, <1>4, <1>9, <2>1, <3>2
        <4> QED
          BY <2>1, <4>1 DEF Older
      <3> QED
        BY <3>1, <3>2
    <2>2. ASSUME NEW b \in bindings', b.inh # 0
          PROVE  origin[b.ref] < b.row \/ Roamed(b.ref)'
      <3>1. CASE b \in w.copies /\ ~Steady(w)
        <4>1. w.row \in strayed' /\ <<w.row, b.ref>> \in Held(bindings)'
          BY <1>1, <1>7, <3>1 DEF Held
        <4> QED
          BY <4>1 DEF Roamed
      <3>2. CASE (b \in w.copies /\ Steady(w)) \/ b \in bindings
        <4>1. b.ref \in refs
          BY <3>2, <1>7 DEF KeysOK
        <4>2. origin[b.ref] < b.row \/ Roamed(b.ref)
          BY <2>2, <3>2, <4>1 DEF Older, w
        <4> QED
          BY <1>1, <1>17, <4>1, <4>2, CameStays
      <3> QED
        BY <3>1, <3>2, <1>6
    <2>3. ASSUME NEW e \in Clients, Steady(work[e])'
          PROVE  /\ \A s \in work'[e].up : s < work'[e].row
                 /\ \A b \in work'[e].copies :
                      b.ref \in refs => origin[b.ref] < b.row \/ Roamed(b.ref)'
      <3>1. CASE e = c
        BY <3>1, <1>8
      <3>2. CASE e # c
        <4>1. work'[e] = work[e] /\ Steady(work[e])
          BY <1>18, <2>3, <3>2
        <4>2. ASSUME NEW b \in work[e].copies, b.ref \in refs
              PROVE  origin[b.ref] < b.row \/ Roamed(b.ref)'
          <5>1. origin[b.ref] < b.row \/ Roamed(b.ref)
            BY <4>1, <4>2 DEF Older
          <5> QED
            BY <1>1, <1>17, <4>2, <5>1, CameStays
        <4> QED
          BY <4>1, <4>2 DEF Older
      <3> QED
        BY <3>1, <3>2
    <2> QED
      BY <1>1, <2>1, <2>2, <2>3 DEF Older
  <1>21. CopiesCurrent'
    <2> SUFFICES ASSUME NEW e \in Clients
                 PROVE  /\ \A b \in work'[e].copies, i \in inherits :
                             b.inh = i.id /\ b.ref \in refs => Came(i, work[e].up, b.ref)'
                        /\ \A b \in bindings' :
                             b.row = work'[e].row /\ Steady(work[e])'
                               /\ (\E d \in work'[e].copies : d.inh = b.inh) =>
                               \/ \E d \in work'[e].copies : d.inh = b.inh /\ d.ref = b.ref
                               \/ \E s \in work'[e].up : <<s, b.ref>> \in lost'
      BY <1>1 DEF CopiesCurrent
    <2>1. CASE e = c
      BY <2>1, <1>8
    <2>2. CASE e # c
      <3>1. work'[e] = work[e] /\ work[e].row # w.row
        BY <2>2, <1>3, <1>8
      <3>2. ASSUME NEW b \in work[e].copies, NEW i \in inherits, b.inh = i.id, b.ref \in refs
            PROVE  Came(i, work[e].up, b.ref)'
        <4>1. Came(i, work'[e].up, b.ref)
          BY <3>1, <3>2 DEF CopiesCurrent
        <4> QED
          BY <1>1, <1>17, <3>2, <4>1, CameStays
      <3>3. ASSUME NEW b \in bindings', b.row = work[e].row, Steady(work[e])',
                   NEW d \in work[e].copies, d.inh = b.inh
            PROVE  \/ \E f \in work[e].copies : f.inh = b.inh /\ f.ref = b.ref
                   \/ \E s \in work[e].up : <<s, b.ref>> \in lost'
        <4>1. b \in bindings
          BY <3>1, <3>3, <1>6, <1>7
        <4>2. Steady(work[e])
          BY <1>18, <2>2, <3>3
        <4> QED
          BY <1>1, <3>3, <4>1, <4>2 DEF CopiesCurrent
      <3> QED
        BY <3>1, <3>2, <3>3
    <2> QED
      BY <2>1, <2>2
  <1> QED
    BY <1>10, <1>11, <1>12, <1>13, <1>14, <1>15, <1>16, <1>19, <1>20, <1>21

LEMMA DeleteRowInv ==
    ASSUME IInv, NEW r \in Rows, DeleteRow(r)
    PROVE  IInv'
  <1> USE DEF IInv
  <1>1. /\ table' = [table EXCEPT ![r] = NoTable]
        /\ up' = [up EXCEPT ![r] = {}]
        /\ bindings' = {b \in bindings : b.row # r}
        /\ lost' = lost \cup (Held(bindings) \ Held(bindings'))
        /\ UNCHANGED <<refs, origin, inherits, work, seqs, strayed>>
        /\ \A c \in Clients : work[c].row # r
    BY DEF DeleteRow, Unlocked
  <1>2. /\ Rows' = Rows \ {r} /\ r \in RowIds
        /\ \A s \in Rows' : s \in RowIds /\ table'[s] = table[s] /\ up'[s] = up[s]
    BY <1>1 DEF Rows, TypeOK
  <1>3. TypeOK'
    <2>1. lost' \subseteq lost \cup Held(bindings)
      BY <1>1
    <2>2. lost' \in SUBSET (RowIds \X RefIds)
      BY <2>1 DEF TypeOK, Held, Binding
    <2> QED
      BY <1>1, <1>2, <2>2 DEF TypeOK
  <1>4. Numbered' /\ WorkApart'
    BY <1>1, <1>2 DEF Numbered, WorkApart
  <1>5. KeysOK'
    BY <1>1, <1>2 DEF KeysOK
  <1>6. CopiesOK' /\ OneGrant'
    BY <1>1 DEF CopiesOK, OneGrant
  <1>7. Revocable'
    BY <1>1, <1>2 DEF Revocable
  <1>8. Remembers
    <2>1. \A s, x : <<s, x>> \in Held(bindings) => <<s, x>> \in Held(bindings') \/ <<s, x>> \in lost'
      BY <1>1
    <2>2. \A s, x : <<s, x>> \in Held(bindings') => s # r
      BY <1>1, HeldFacts
    <2>3. \A i, pointed : \A s \in Sources(i, pointed) : s # r => s \in Sources(i, pointed)'
      BY <1>2 DEF Sources
    <2> QED
      BY <1>1, <2>1, <2>2, <2>3 DEF Remembers, Held
  <1>9. SourceHolds' /\ CopiesCurrent' /\ Older'
    <2>1. \A i \in inherits' : i # Self => i.id # 0
      BY <1>1 DEF TypeOK, Inheritance
    <2>2. \A b \in bindings : b.ref \in refs
      BY DEF KeysOK
    <2>3. GivesNothing
      BY <1>1, <1>2, <2>1, <2>2 DEF GivesNothing
    <2> QED
      BY <1>4, <1>5, <1>8, <2>3, NothingGiven
  <1> QED
    BY <1>3, <1>4, <1>5, <1>6, <1>7, <1>9

\* The reference of a new binding is in no binding and no copy.
LEMMA BindInv ==
    ASSUME IInv, NEW r \in Rows, NEW g \in Grants, BindAccessRole(r, g)
    PROVE  IInv'
  <1> DEFINE x == seqs.ref + 1
             n == [row |-> r, inh |-> 0, ref |-> x, grant |-> g]
  <1> USE DEF IInv
  <1>1. /\ x \in RefIds
        /\ refs' = refs \cup {x}
        /\ origin' = [origin EXCEPT ![x] = r]
        /\ bindings' = bindings \cup {n}
        /\ seqs' = [seqs EXCEPT !.ref = x]
        /\ UNCHANGED <<table, up, inherits, work, strayed, lost>>
    BY DEF BindAccessRole, NewRef
  <1>2. /\ n.row = r /\ n.inh = 0 /\ n.ref = x /\ n.grant = g
        /\ r \in RowIds /\ n \in Binding
    BY <1>1, BoundsAssumption DEF Rows, Binding
  <1>3. /\ seqs.ref \in Nat /\ x \in 0..MaxRefs /\ x > seqs.ref
        /\ seqs'.row = seqs.row /\ seqs'.ref = x /\ seqs'.inh = seqs.inh
        /\ seqs' \in [row : 0..MaxRows, ref : 0..MaxRefs, inh : 0..MaxInh]
    <2>1. seqs.ref \in Nat
      BY DEF TypeOK
    <2>2. x \in 0..MaxRefs /\ x > seqs.ref
      BY <1>1, <2>1, BoundsAssumption DEF RefIds
    <2> HIDE DEF x
    <2> QED
      BY <1>1, <2>1, <2>2 DEF TypeOK
  <1> HIDE DEF n, x
  <1>4. /\ Rows' = Rows
        /\ \A i, pointed : Sources(i, pointed)' = Sources(i, pointed)
    BY <1>1 DEF Rows, Sources
  <1>5. /\ \A y \in RefIds : y # x => origin'[y] = origin[y]
        /\ origin'[x] = r
        /\ \A y \in refs : y # x /\ y \in RefIds
        /\ \A b \in bindings : b.ref # x /\ b.ref \in RefIds
        /\ \A c \in Clients : \A b \in work[c].copies : b.ref # x /\ b.ref \in RefIds
    <2>1. \A y \in refs : y # x
      BY <1>3 DEF Numbered
    <2>2. \A b \in bindings : b.ref # x /\ b.ref \in RefIds
      BY <1>3, <2>1 DEF KeysOK, TypeOK, Binding
    <2>3. ASSUME NEW c \in Clients, NEW b \in work[c].copies
          PROVE  b.ref # x /\ b.ref \in RefIds
      <3>1. b \in Binding
        BY <2>3 DEF TypeOK, Work
      <3>2. b.ref <= seqs.ref
        BY <2>3 DEF CopiesOK
      <3> QED
        BY <1>3, <3>1, <3>2 DEF Binding
    <2> QED
      BY <1>1, <1>2, <2>1, <2>2, <2>3 DEF TypeOK
  <1>6. TypeOK'
    BY <1>1, <1>2, <1>3, BoundsAssumption DEF TypeOK, RowIds
  <1>7. Numbered'
    <2>1. r <= seqs.row
      BY DEF Numbered
    <2>2. \A y \in refs : y \in Nat /\ y <= x
      BY <1>3, <1>5 DEF Numbered, RefIds
    <2> QED
      BY <1>1, <1>3, <1>4, <1>5, <2>1, <2>2 DEF Numbered, RefIds
  <1>8. WorkApart'
    <2>1. \A c \in Clients : work[c].op = "insert" => work[c].row # r
      BY DEF WorkApart
    <2> QED
      BY <1>1, <1>3, <1>4, <1>5, <2>1 DEF WorkApart
  <1>9. KeysOK'
    <2>1. \A b \in bindings : /\ b.row \in Rows /\ b.ref \in refs
                             /\ b.inh = 0 => b.row = origin'[b.ref]
                             /\ \E i \in inherits : i.id = b.inh /\ (i # Self => i.dst = table[b.row])
      BY <1>5 DEF KeysOK
    <2>2. Self \in inherits /\ Self.id = 0
      BY DEF Numbered, Self
    <2> QED
      BY <1>1, <1>2, <1>4, <1>5, <2>1, <2>2 DEF KeysOK
  <1>10. CopiesOK'
    <2>1. \A c \in Clients : \A b \in work[c].copies : b.ref <= x
      BY <1>3, <1>5 DEF CopiesOK, RefIds
    <2> QED
      BY <1>1, <1>3, <2>1 DEF CopiesOK
  <1>11. OneGrant'
    <2>1. \A b \in bindings \cup UNION {work[c].copies : c \in Clients} : b.ref # n.ref
      BY <1>2, <1>5
    <2>2. (bindings \cup UNION {work[c].copies : c \in Clients})'
            = (bindings \cup UNION {work[c].copies : c \in Clients}) \cup {n}
      BY <1>1
    <2> QED
      BY <2>1, <2>2 DEF OneGrant
  <1>12. Revocable'
    BY <1>1, <1>2, <1>4, <1>5 DEF Revocable
  <1>13. Remembers
    BY <1>1, <1>4 DEF Remembers, Held
  <1>14. SourceHolds' /\ CopiesCurrent' /\ Older'
    <2>1. \A i \in inherits' : i # Self => i.id # 0
      BY <1>1 DEF TypeOK, Inheritance
    <2>2. \A b \in bindings' : b \in bindings \/ b.inh = 0
      BY <1>1, <1>2
    <2>3. \A y \in refs \cap refs' : origin'[y] = origin[y]
      BY <1>5
    <2>4. \A b \in bindings' : b.inh # 0 => b.ref \in refs
      BY <2>2 DEF KeysOK
    <2>5. \A c \in Clients : \A b \in work[c].copies : b.ref \in refs' => b.ref \in refs
      BY <1>1, <1>5
    <2>6. GivesNothing
      BY <1>1, <1>4, <2>1, <2>2, <2>3, <2>4, <2>5 DEF GivesNothing
    <2> QED
      BY <1>8, <1>9, <1>13, <2>6, NothingGiven
  <1> QED
    BY <1>6, <1>7, <1>8, <1>9, <1>10, <1>11, <1>12, <1>14

\* UNBIND takes all that has one of the references.
LEMMA UnbindInv ==
    ASSUME IInv, NEW r \in Rows, NEW g \in Grants, UnbindAccessRole(r, g)
    PROVE  IInv'
  <1> DEFINE gone == GivenHere(r, g)
  <1> USE DEF IInv
  <1>1. /\ refs' = refs \ gone
        /\ origin' = [x \in RefIds |-> IF x \in gone THEN 0 ELSE origin[x]]
        /\ bindings' = {b \in bindings : b.ref \notin gone}
        /\ lost' = {p \in lost : p[2] \notin gone}
        /\ UNCHANGED <<table, up, inherits, work, seqs, strayed>>
    BY DEF UnbindAccessRole
  <1> HIDE DEF gone
  <1>2. /\ Rows' = Rows
        /\ \A i, pointed : Sources(i, pointed)' = Sources(i, pointed)
    BY <1>1 DEF Rows, Sources
  <1>3. /\ \A x \in refs' : x \in refs /\ x \in RefIds /\ x \notin gone /\ origin'[x] = origin[x]
        /\ \A b \in bindings' : b \in bindings /\ b.ref \in refs'
    BY <1>1 DEF TypeOK, KeysOK
  <1>4. TypeOK'
    BY <1>1, BoundsAssumption DEF TypeOK
  <1>5. Numbered' /\ WorkApart'
    BY <1>1, <1>2, <1>3 DEF Numbered, WorkApart
  <1>6. KeysOK'
    BY <1>1, <1>2, <1>3 DEF KeysOK
  <1>7. CopiesOK' /\ OneGrant'
    BY <1>1, <1>3 DEF CopiesOK, OneGrant
  <1>8. Revocable'
    BY <1>1, <1>2, <1>3 DEF Revocable
  <1>9. Remembers
    <2>1. \A s : \A x \in refs' : <<s, x>> \in Held(bindings) => <<s, x>> \in Held(bindings')
      BY <1>1, <1>3, HeldFacts
    <2>2. \A s : \A x \in refs' : <<s, x>> \in lost => <<s, x>> \in lost'
      BY <1>1, <1>3
    <2> QED
      BY <1>1, <1>2, <2>1, <2>2 DEF Remembers, Held
  <1>10. SourceHolds' /\ CopiesCurrent' /\ Older'
    <2>1. \A i \in inherits' : i # Self => i.id # 0
      BY <1>1 DEF TypeOK, Inheritance
    <2>2. GivesNothing
      BY <1>1, <1>2, <1>3, <2>1 DEF GivesNothing
    <2> QED
      BY <1>5, <1>6, <1>9, <2>2, NothingGiven
  <1> QED
    BY <1>4, <1>5, <1>6, <1>7, <1>8, <1>10

\* Nothing has the number of a new inheritance.
LEMMA CreateInv ==
    ASSUME IInv, NEW s \in Tables, NEW t \in Tables, CreateAccessInheritance(s, t)
    PROVE  IInv'
  <1> DEFINE n == [id |-> seqs.inh + 1, src |-> s, dst |-> t]
  <1> USE DEF IInv
  <1>1. /\ seqs.inh < MaxInh
        /\ seqs' = [seqs EXCEPT !.inh = @ + 1]
        /\ inherits' = inherits \cup {n}
        /\ UNCHANGED <<table, up, refs, origin, bindings, work, strayed, lost>>
        /\ \A i \in inherits : ~(i.src = s /\ i.dst = t)
    BY DEF CreateAccessInheritance
  <1>2. /\ seqs.inh \in Nat /\ n \in Inheritance /\ n.id = seqs.inh + 1
        /\ n.src = s /\ n.dst = t
        /\ seqs'.row = seqs.row /\ seqs'.ref = seqs.ref /\ seqs'.inh = seqs.inh + 1
        /\ seqs' \in [row : 0..MaxRows, ref : 0..MaxRefs, inh : 0..MaxInh]
    BY <1>1, BoundsAssumption DEF TypeOK, Inheritance
  <1> HIDE DEF n
  <1>3. /\ Rows' = Rows
        /\ \A i, pointed : Sources(i, pointed)' = Sources(i, pointed)
    BY <1>1 DEF Rows, Sources
  <1>4. \A i \in inherits : i.id \in Nat /\ i.id # n.id /\ i.id <= seqs.inh
    BY <1>2 DEF Numbered, TypeOK, Inheritance, Self
  <1>5. /\ \A b \in bindings : b.inh # n.id
        /\ \A c \in Clients : \A b \in work[c].copies : b.inh # n.id
    <2>1. \A b \in bindings : b.inh # n.id
      BY <1>4 DEF KeysOK
    <2>2. \A c \in Clients : \A b \in work[c].copies : b.inh \in 1..seqs.inh
      BY DEF CopiesOK
    <2> QED
      BY <1>2, <2>1, <2>2
  <1>6. TypeOK'
    BY <1>1, <1>2 DEF TypeOK
  <1>7. Numbered'
    BY <1>1, <1>2, <1>3, <1>4 DEF Numbered
  <1>8. WorkApart' /\ Revocable'
    BY <1>1, <1>2, <1>3 DEF WorkApart, Revocable
  <1>9. KeysOK'
    BY <1>1, <1>3 DEF KeysOK
  <1>10. CopiesOK'
    <2>1. \A c \in Clients : \A b \in work[c].copies : b.inh \in 1..(seqs.inh + 1)
      BY <1>2 DEF CopiesOK
    <2> QED
      BY <1>1, <1>2, <1>5, <2>1 DEF CopiesOK
  <1>11. OneGrant'
    BY <1>1, <1>3 DEF OneGrant
  <1>12. Remembers
    BY <1>1, <1>3 DEF Remembers, Held
  <1>13. SourceHolds' /\ CopiesCurrent' /\ Older'
    <2>1. \A i \in inherits' : i # Self => i.id # 0
      BY <1>1, <1>2 DEF TypeOK, Inheritance
    <2>2. \A i \in inherits' : i \in inherits \/ i = n
      BY <1>1
    <2>3. \A b \in bindings : b.ref \in refs
      BY DEF KeysOK
    <2>4. GivesNothing
      BY <1>1, <1>3, <1>5, <2>1, <2>2, <2>3 DEF GivesNothing
    <2> QED
      BY <1>8, <1>9, <1>12, <2>4, NothingGiven
  <1> QED
    BY <1>6, <1>7, <1>8, <1>9, <1>10, <1>11, <1>13

\* The special reference stays, and with it what rows have of their own.
LEMMA DeleteInheritancesInv ==
    ASSUME IInv, NEW S \in SUBSET inherits, DeleteInheritances(S)
    PROVE  IInv'
  <1> DEFINE gone == Deletable(S)
  <1> USE DEF IInv
  <1>1. /\ inherits' = inherits \ gone
        /\ bindings' = {b \in bindings : \A i \in gone : i.id # b.inh}
        /\ lost' = lost \cup (Held(bindings) \ Held(bindings'))
        /\ UNCHANGED <<table, up, refs, origin, work, seqs, strayed>>
    BY DEF DeleteInheritances
  <1>2. \A i \in gone : i \in inherits /\ i # Self
    BY DEF Deletable
  <1> HIDE DEF gone
  <1>3. /\ Rows' = Rows
        /\ \A i, pointed : Sources(i, pointed)' = Sources(i, pointed)
    BY <1>1 DEF Rows, Sources
  <1>4. \A i \in gone : i.id # 0
    BY <1>2 DEF TypeOK, Inheritance
  <1>5. TypeOK'
    <2>1. lost' \subseteq lost \cup Held(bindings)
      BY <1>1
    <2>2. lost' \in SUBSET (RowIds \X RefIds)
      BY <2>1 DEF TypeOK, Held, Binding
    <2> QED
      BY <1>1, <2>2 DEF TypeOK
  <1>6. Numbered' /\ WorkApart'
    BY <1>1, <1>2, <1>3 DEF Numbered, WorkApart
  <1>7. KeysOK'
    BY <1>1, <1>3 DEF KeysOK
  <1>8. CopiesOK' /\ OneGrant'
    BY <1>1, <1>3 DEF CopiesOK, OneGrant
  <1>9. Revocable'
    BY <1>1, <1>3, <1>4 DEF Revocable
  <1>10. Remembers
    <2>1. \A s, x : <<s, x>> \in Held(bindings) => <<s, x>> \in Held(bindings') \/ <<s, x>> \in lost'
      BY <1>1
    <2> QED
      BY <1>1, <1>3, <2>1 DEF Remembers, Held
  <1>11. SourceHolds' /\ CopiesCurrent' /\ Older'
    <2>1. \A i \in inherits' : i # Self => i.id # 0
      BY <1>1 DEF TypeOK, Inheritance
    <2>2. \A b \in bindings : b.ref \in refs
      BY DEF KeysOK
    <2>3. GivesNothing
      BY <1>1, <1>3, <2>1, <2>2 DEF GivesNothing
    <2> QED
      BY <1>6, <1>7, <1>10, <2>3, NothingGiven
  <1> QED
    BY <1>5, <1>6, <1>7, <1>8, <1>9, <1>11

LEMMA StutterInv == IInv /\ UNCHANGED vars => IInv'
  <1> SUFFICES ASSUME IInv, UNCHANGED vars PROVE IInv'
    OBVIOUS
  <1> USE DEF vars, IInv
  <1>1. /\ TypeOK' /\ Numbered' /\ WorkApart' /\ KeysOK'
        /\ CopiesOK' /\ OneGrant' /\ Revocable'
    BY DEF TypeOK, Numbered, WorkApart, KeysOK, CopiesOK, OneGrant, Revocable, Rows
  <1>2. Remembers
    BY DEF Remembers, Held, Sources, Rows
  <1>3. GivesNothing
    <2>1. \A i \in inherits : i # Self => i.id # 0
      BY DEF TypeOK, Inheritance
    <2>2. \A b \in bindings : b.ref \in refs
      BY DEF KeysOK
    <2> QED
      BY <2>1, <2>2 DEF GivesNothing, Rows
  <1> QED
    BY <1>1, <1>2, <1>3, NothingGiven

\* Every step keeps the invariant.
THEOREM Invariance == Spec => []IInv
  <1>1. Init => IInv
    BY InitInv
  <1>2. IInv /\ [Next]_vars => IInv'
    <2> SUFFICES ASSUME IInv, Next PROVE IInv'
      BY StutterInv
    <2>1. ASSUME NEW c \in Clients, Begin(c) PROVE IInv'
      BY <2>1, BeginInsertInv, BeginUpdateInv DEF Begin
    <2>2. ASSUME NEW c \in Clients, Commit(c) PROVE IInv'
      BY <2>2, CommitInv
    <2>3. ASSUME NEW c \in Clients, Abort(c) PROVE IInv'
      BY <2>3, AbortInv
    <2>4. ASSUME NEW r \in Rows, DeleteRow(r) PROVE IInv'
      BY <2>4, DeleteRowInv
    <2>5. ASSUME NEW r \in Rows, NEW g \in Grants, BindAccessRole(r, g) PROVE IInv'
      BY <2>5, BindInv
    <2>6. ASSUME NEW r \in Rows, NEW g \in Grants, UnbindAccessRole(r, g) PROVE IInv'
      BY <2>6, UnbindInv
    <2>7. ASSUME NEW col \in Columns, CreateAccessInheritance(col[1], col[2]) PROVE IInv'
      BY <2>7, TablesAssumption, CreateInv
    <2>8. ASSUME NEW S \in SUBSET inherits, DeleteInheritances(S) PROVE IInv'
      BY <2>8, DeleteInheritancesInv
    <2> QED
      BY <2>1, <2>2, <2>3, <2>4, <2>5, <2>6, <2>7, <2>8 DEF Next
  <1> QED
    BY <1>1, <1>2, PTL DEF Spec

\* UNBIND is final: no copy that a trigger made of what it saw before outlives
\* the reference, because the copies' foreign keys are tested after it.
THEOREM Revoked == Spec => []RevokedIsGone
  <1>1. IInv => RevokedIsGone
    BY DEF IInv, KeysOK, RevokedIsGone
  <1> QED
    BY <1>1, Invariance, PTL

\* Neither the trigger nor a DELETE of inheritances takes a row's own binding.
THEOREM CanBeRevoked == Spec => []Revocable
  <1>1. IInv => Revocable
    BY DEF IInv
  <1> QED
    BY <1>1, Invariance, PTL

\* The trigger, racing with BIND, UNBIND, deletions and the triggers of other rows,
\* gives a row nothing that the row it inherits from did not have: what it inherits
\* and the other row no longer has is a loss on record.  Moved rows are excepted.
THEOREM NothingFromNowhere == Spec => []SourceHolds
  <1>1. IInv => SourceHolds
    BY DEF IInv
  <1> QED
    BY <1>1, Invariance, PTL

\* Two bindings of a row with one reference, on which the triggers of the rows that
\* point to it fail, take two inheritances into its table, or a row that was moved
\* and brought the row's own binding back to it.
THEOREM TwiceByDiamondOrCycle == Spec => []TwiceTwoWays
  <1>1. IInv => TwiceTwoWays
    <2> SUFFICES ASSUME IInv, NEW b \in bindings, NEW d \in bindings,
                        b # d, b.row = d.row, b.ref = d.ref
                 PROVE  Diamond(b, d) \/ Cycle(b, d)
      BY DEF TwiceTwoWays
    <2> USE DEF IInv
    <2>1. b \in Binding /\ d \in Binding
      BY DEF TypeOK
    <2>2. b.grant = d.grant
      BY DEF OneGrant
    <2>3. b.inh # d.inh
      BY <2>1, <2>2 DEF Binding
    <2>4. CASE 0 \in {b.inh, d.inh}
      <3>1. origin[b.ref] = b.row
        BY <2>4 DEF KeysOK
      <3>2. b.row \in Nat
        BY <2>1 DEF Binding, RowIds
      <3>3. Roamed(b.ref)
        BY <2>3, <2>4, <3>1, <3>2 DEF Older
      <3> QED
        BY <2>4, <3>1, <3>3 DEF Cycle
    <2>5. CASE 0 \notin {b.inh, d.inh}
      <3>1. PICK i \in inherits : i.id = b.inh /\ (i # Self => i.dst = table[b.row])
        BY DEF KeysOK
      <3>2. PICK j \in inherits : j.id = d.inh /\ (j # Self => j.dst = table[d.row])
        BY DEF KeysOK
      <3>3. i # Self /\ j # Self /\ i # j
        BY <2>3, <2>5, <3>1, <3>2 DEF Self
      <3>4. i.src # j.src
        BY <3>1, <3>2, <3>3 DEF Numbered
      <3> QED
        BY <3>1, <3>2, <3>3, <3>4 DEF Diamond
    <2> QED
      BY <2>4, <2>5
  <1> QED
    BY <1>1, Invariance, PTL
=============================================================================
