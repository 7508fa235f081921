---------------------------- MODULE Schema_proofs ----------------------------
(***************************************************************************)
(* Proofs about the proxy's beliefs, for any sets of sessions, tables and  *)
(* roles.  The argument: the tracker is told of a table before the client  *)
(* is, and forgets nothing but at a restart, when it reads the catalogue;  *)
(* a session's role changes only while its own request is at the server.   *)
(***************************************************************************)
EXTENDS Schema, TLAPS

\* What a statement may name.
LEMMA Names ==
    ASSUME TypeOK, NEW s \in Sessions
    PROVE  /\ Verb(s) \in {"create", "enable"} => Name(s) \in Tables \X {"table"}
           /\ Verb(s) = "select" => Name(s) \in Relations
           /\ Verb(s) = "set_role" => Name(s) \in Roles
  <1>1. req[s] = Nothing \/ req[s].of \in Statements
    BY DEF TypeOK, Requests
  <1>2. CASE req[s] = Nothing
    BY <1>2 DEF Nothing, Verb
  <1>3. CASE req[s].of \in Statements
    <2> DEFINE q == req[s].of
    <2>1. CASE q \in {"create", "enable"} \X (Tables \X {"table"})
      BY <2>1 DEF Verb, Name
    <2>2. CASE q \in {"drop"} \X (Tables \X {"table", "bindings"})
      BY <2>2 DEF Verb, Name
    <2>3. CASE q \in {"drop_view"} \X (Tables \X {"acls"})
      BY <2>3 DEF Verb, Name
    <2>4. CASE q \in {"select"} \X Relations
      BY <2>4 DEF Verb, Name
    <2>5. CASE q \in {"set_role"} \X Roles
      BY <2>5 DEF Verb, Name
    <2> QED
      BY <1>3, <2>1, <2>2, <2>3, <2>4, <2>5 DEF Statements
  <1> QED
    BY <1>1, <1>2, <1>3

LEMMA InitInv == Init => IInv
  <1> SUFFICES ASSUME Init
               PROVE  IInv
    OBVIOUS
  <1>1. TypeOK
    BY DEF Init, TypeOK, Places
  <1>2. \A s \in Sessions : pc[s] = "idle" /\ (rolsuper[s] <=> role[s] \in Supers)
    BY DEF Init
  <1>3. KnownAreTracked /\ RoleFollowed /\ KnownAreJoined
    BY <1>2 DEF Init, KnownAreTracked, RoleFollowed, KnownAreJoined
  <1> QED
    BY <1>1, <1>3 DEF IInv

\* A request that is over makes no claim of its session but the role's.
LEMMA ClearType ==
    ASSUME TypeOK, NEW s \in Sessions, Clear(s)
    PROVE  /\ pc' \in [Sessions -> Places]
           /\ req' \in [Sessions -> Requests \cup {Nothing}]
           /\ how' \in [Sessions -> {"as_is", "joined", "cascade"}]
           /\ answer' \in [Sessions -> {"none", "C", "N", "E", "T"}]
           /\ pc'[s] = "idle"
           /\ \A u \in Sessions \ {s} : /\ pc'[u] = pc[u] /\ req'[u] = req[u]
                                        /\ how'[u] = how[u] /\ answer'[u] = answer[u]
  BY DEF Clear, Goto, TypeOK, Places

LEMMA AskInv ==
    ASSUME IInv, NEW s \in Sessions, NEW statement \in Statements, Ask(s, statement)
    PROVE  IInv'
  <1>1. /\ req' = [req EXCEPT ![s] = [of |-> statement, relied |-> statement[2] \in known]]
        /\ pc' = [pc EXCEPT ![s] = "asked"]
        /\ pc[s] = "idle"
        /\ UNCHANGED <<catalog, relnames, role, rolsuper, how, answer, known, misled>>
    BY DEF Ask, Goto
  <1>2. TypeOK'
    BY <1>1 DEF IInv, TypeOK, Requests, Places
  <1>3. \A u \in Sessions \ {s} : pc'[u] = pc[u] /\ req'[u] = req[u]
    BY <1>1 DEF IInv, TypeOK
  <1>4. pc'[s] = "asked" /\ req'[s].relied = (statement[2] \in known) /\ req'[s].of = statement
    BY <1>1 DEF IInv, TypeOK
  <1>5. KnownAreTracked'
    <2>1. ASSUME NEW r \in known
          PROVE  Exist(r)
      BY DEF IInv, TypeOK, KnownAreTracked, Exist, Excluded
    <2>2. \A r : Exist(r)' = Exist(r)
      BY <1>1 DEF Exist, Excluded
    <2>3. SUFFICES ASSUME NEW u \in Sessions
                   PROVE  /\ /\ pc'[u] = "asked" /\ req'[u].of[1] = "select"
                             /\ req'[u].relied
                             => Exist(req'[u].of[2])
                          /\ /\ pc'[u] = "answered" /\ req'[u].of[1] = "create"
                             /\ answer[u] = "C"
                             => req'[u].of[2] \in relnames
      BY <1>1, <2>2 DEF IInv, KnownAreTracked, Verb, Name
    <2>4. CASE u = s
      BY <1>4, <2>1, <2>4
    <2>5. CASE u # s
      BY <1>3, <2>5 DEF IInv, KnownAreTracked, Verb, Name
    <2> QED
      BY <2>4, <2>5
  <1>6. RoleFollowed'
    BY <1>1, <1>3, <1>4 DEF IInv, RoleFollowed, Verb, Name
  <1>7. KnownAreJoined'
    BY <1>1, <1>3, <1>4 DEF IInv, KnownAreJoined, Verb
  <1> QED
    BY <1>2, <1>5, <1>6, <1>7 DEF IInv

\* The plugins join a query on a known table: the session's parameter is right.
LEMMA PreInv ==
    ASSUME IInv, NEW s \in Sessions, ApplyPreRequestPlugins(s)
    PROVE  IInv'
  <1>1. UNCHANGED <<catalog, relnames, role, rolsuper, req, known, misled>> /\ pc[s] = "asked"
    BY DEF ApplyPreRequestPlugins
  <1>2. TypeOK'
    BY <1>1 DEF ApplyPreRequestPlugins, Goto, IInv, TypeOK, Places
  <1>3. \A u \in Sessions \ {s} : pc'[u] = pc[u] /\ how'[u] = how[u] /\ answer'[u] = answer[u]
    BY DEF ApplyPreRequestPlugins, Goto, IInv, TypeOK
  <1>4. \/ pc'[s] = "answered" /\ answer'[s] = "E"
        \/ pc'[s] = "sent" /\ (MustJoin(s) => how'[s] = "joined")
    BY DEF ApplyPreRequestPlugins, Goto, IInv, TypeOK
  <1>5. KnownAreTracked'
    BY <1>1, <1>3, <1>4 DEF IInv, KnownAreTracked, Verb, Name, Exist, Excluded
  <1>6. RoleFollowed'
    BY <1>1, <1>3, <1>4 DEF IInv, RoleFollowed, Verb, Name
  <1>7. KnownAreJoined'
    <2>1. ASSUME Verb(s) = "select", req[s].relied, ~ misled[s], role[s] \in Others
          PROVE  MustJoin(s)
      BY <1>1, <2>1, RolesAssumption DEF IInv, RoleFollowed, KnownAreTracked, MustJoin
    <2> QED
      BY <1>1, <1>3, <1>4, <2>1 DEF IInv, KnownAreJoined, Verb
  <1> QED
    BY <1>2, <1>5, <1>6, <1>7 DEF IInv

\* What the server does to a session: its answer, or nothing if it is gone.
LEMMA AnswerInv ==
    ASSUME IInv, NEW s \in Sessions, NEW byte \in {"C", "N", "E", "T"}, Answer(s, byte),
           catalog' \subseteq Objects, known' \subseteq known \cap catalog',
           role' \in [Sessions -> Roles],
           \A u \in Sessions \ {s} : role'[u] = role[u],
           role'[s] = IF pc[s] = "sent" /\ Verb(s) = "set_role" /\ byte = "C"
                      THEN Name(s) ELSE role[s]
    PROVE  IInv'
  <1>1. UNCHANGED <<relnames, rolsuper, misled>>
    BY DEF Answer
  <1>2. /\ pc' \in [Sessions -> Places]
        /\ req' \in [Sessions -> Requests \cup {Nothing}]
        /\ how' \in [Sessions -> {"as_is", "joined", "cascade"}]
        /\ answer' \in [Sessions -> {"none", "C", "N", "E", "T"}]
        /\ \A u \in Sessions \ {s} : /\ pc'[u] = pc[u] /\ req'[u] = req[u]
                                     /\ how'[u] = how[u] /\ answer'[u] = answer[u]
        /\ \/ /\ pc[s] = "sent" /\ pc'[s] = "executed"
              /\ answer'[s] = byte /\ req'[s] = req[s]
           \/ pc[s] = "orphan" /\ pc'[s] = "idle"
    <2>1. CASE pc[s] = "sent"
      BY <2>1 DEF Answer, Goto, IInv, TypeOK, Places
    <2>2. CASE pc[s] = "orphan"
      BY <2>2, ClearType DEF Answer, IInv
    <2> QED
      BY <2>1, <2>2 DEF Answer
  <1>3. TypeOK'
    BY <1>1, <1>2 DEF IInv, TypeOK
  <1>4. KnownAreTracked'
    BY <1>1, <1>2 DEF IInv, KnownAreTracked, Verb, Name, Exist, Excluded
  <1>5. RoleFollowed'
    BY <1>1, <1>2 DEF IInv, RoleFollowed, Verb, Name
  <1>6. KnownAreJoined'
    BY <1>1, <1>2 DEF IInv, KnownAreJoined, Verb
  <1> QED
    BY <1>3, <1>4, <1>5, <1>6 DEF IInv

LEMMA ExecuteInv ==
    ASSUME IInv, NEW s \in Sessions,
           \/ ExecuteCreate(s) \/ ExecuteNothing(s) \/ ExecuteEnable(s) \/ ExecuteDrop(s)
           \/ ExecuteSelect(s) \/ ExecuteSetRole(s) \/ ExecuteFails(s)
    PROVE  IInv'
  <1>1. known \subseteq catalog /\ catalog \subseteq Objects /\ role \in [Sessions -> Roles]
    BY DEF IInv, TypeOK, KnownAreTracked
  <1>2. CASE ExecuteCreate(s)
    <2>1. Name(s) \in Objects
      BY <1>2, Names DEF ExecuteCreate, IInv, Objects, Relations
    <2> QED
      BY <1>1, <1>2, <2>1, AnswerInv DEF ExecuteCreate
  <1>3. CASE ExecuteNothing(s)
    BY <1>1, <1>3, AnswerInv DEF ExecuteNothing
  <1>4. CASE ExecuteEnable(s)
    <2>1. Name(s)[1] \in Tables
      BY <1>4, Names DEF ExecuteEnable, IInv
    <2>2. catalog \subseteq catalog' /\ catalog' \subseteq Objects
      BY <1>1, <1>4, <2>1 DEF ExecuteEnable, Objects, Relations, Object
    <2> QED
      BY <1>1, <1>4, <2>2, AnswerInv DEF ExecuteEnable
  <1>5. CASE ExecuteDrop(s)
    <2>1. catalog' \subseteq catalog
      BY <1>5 DEF ExecuteDrop
    <2>2. \A r \in known : r # Name(s) => r \in catalog'
      <3>1. \A r \in known : r[2] = "table" /\ r \in catalog
        BY <1>1 DEF IInv, TypeOK
      <3>2. \A r \in Dependents(s) : r[2] # "table"
        BY DEF Dependents, Object
      <3>3. \A r \in Own(Name(s)) : r = Name(s) \/ r[2] # "table"
        BY DEF Own, Object
      <3> QED
        BY <1>5, <3>1, <3>2, <3>3 DEF ExecuteDrop
    <2> QED
      BY <1>1, <1>5, <2>1, <2>2, AnswerInv DEF ExecuteDrop
  <1>6. CASE ExecuteSelect(s)
    BY <1>1, <1>6, AnswerInv DEF ExecuteSelect
  <1>7. CASE ExecuteSetRole(s)
    <2>1. Name(s) \in Roles
      BY <1>7, Names DEF ExecuteSetRole, IInv
    <2> QED
      BY <1>1, <1>7, <2>1, AnswerInv DEF ExecuteSetRole
  <1>8. CASE ExecuteFails(s)
    BY <1>1, <1>8, AnswerInv DEF ExecuteFails
  <1> QED
    BY <1>2, <1>3, <1>4, <1>5, <1>6, <1>7, <1>8

\* A table is tracked, and a role believed, before the client has its answer.
LEMMA PostInv ==
    ASSUME IInv, NEW s \in Sessions, ApplyPostResponsePlugins(s)
    PROVE  IInv'
  <1>1. UNCHANGED <<catalog, role, req, how, known>> /\ pc[s] = "executed"
    BY DEF ApplyPostResponsePlugins
  <1>2. pc' = [pc EXCEPT ![s] = "answered"]
    BY DEF ApplyPostResponsePlugins, Goto
  <1>3. relnames \subseteq relnames' /\ relnames' \subseteq Relations
    <2>1. Verb(s) \in {"create", "enable"} => Name(s) \in Tables \X {"table"}
      BY Names DEF IInv
    <2> QED
      BY <2>1 DEF ApplyPostResponsePlugins, AddRelName, Object, Relations, IInv, TypeOK
  <1>4. TypeOK'
    <2>1. pc' \in [Sessions -> Places]
      BY <1>2 DEF IInv, TypeOK, Places
    <2>2. misled' \in [Sessions -> BOOLEAN]
      BY DEF ApplyPostResponsePlugins, IInv, TypeOK
    <2>3. answer' \in [Sessions -> {"none", "C", "N", "E", "T"}]
      BY DEF ApplyPostResponsePlugins, IInv, TypeOK
    <2>4. rolsuper' \in [Sessions -> BOOLEAN]
      <3> DEFINE b == Name(s) \in Supers
      <3>1. b \in BOOLEAN
        OBVIOUS
      <3>2. rolsuper' = [rolsuper EXCEPT ![s] = b] \/ rolsuper' = rolsuper
        BY DEF ApplyPostResponsePlugins
      <3> HIDE DEF b
      <3> QED
        BY <3>1, <3>2 DEF IInv, TypeOK
    <2> QED
      BY <1>1, <1>3, <2>1, <2>2, <2>3, <2>4 DEF IInv, TypeOK
  <1>5. \A u \in Sessions \ {s} : /\ pc'[u] = pc[u] /\ answer'[u] = answer[u]
                                  /\ rolsuper'[u] = rolsuper[u] /\ misled'[u] = misled[u]
    BY <1>2 DEF ApplyPostResponsePlugins, IInv, TypeOK
  <1>6. KnownAreTracked'
    <2>1. pc'[s] = "answered"
      BY <1>2 DEF IInv, TypeOK
    <2>2. Verb(s) = "create" /\ answer'[s] = "C" => Name(s) \in relnames'
      <3>1. ASSUME Verb(s) = "create", answer'[s] = "C"
            PROVE  relnames' = AddRelName(Name(s))
        BY <3>1 DEF ApplyPostResponsePlugins, Succeeded
      <3>2. Verb(s) = "create" => ~ Excluded(Name(s))
        BY Names DEF IInv, Excluded
      <3> QED
        BY <3>1, <3>2 DEF AddRelName
    <2> QED
      BY <1>1, <1>3, <1>5, <2>1, <2>2 DEF IInv, KnownAreTracked, Verb, Name, Exist, Excluded
  <1>7. RoleFollowed'
    <2>1. CASE Verb(s) = "set_role" /\ answer[s] = "C"
      <3>1. role[s] = Name(s)
        BY <1>1, <2>1 DEF IInv, RoleFollowed
      <3>2. misled'[s] \/ (rolsuper'[s] <=> Name(s) \in Supers)
        BY <2>1 DEF ApplyPostResponsePlugins, Succeeded, IInv, TypeOK
      <3> QED
        BY <1>1, <1>2, <1>5, <3>1, <3>2 DEF IInv, TypeOK, RoleFollowed, Verb, Name
    <2>2. CASE ~ (Verb(s) = "set_role" /\ answer[s] = "C")
      <3>1. UNCHANGED <<rolsuper, misled>>
        BY <2>2 DEF ApplyPostResponsePlugins, Succeeded
      <3> QED
        BY <1>1, <1>2, <1>5, <2>2, <3>1 DEF IInv, TypeOK, RoleFollowed, Verb, Name
    <2> QED
      BY <2>1, <2>2
  <1>8. KnownAreJoined'
    BY <1>1, <1>2, <1>5 DEF IInv, TypeOK, KnownAreJoined, Verb
  <1> QED
    BY <1>4, <1>6, <1>7, <1>8 DEF IInv

LEMMA ForwardInv ==
    ASSUME IInv, NEW s \in Sessions, ForwardResponse(s)
    PROVE  IInv'
  <1>1. UNCHANGED <<catalog, relnames, role, rolsuper, misled>> /\ Clear(s) /\ pc[s] = "answered"
    BY DEF ForwardResponse
  <1>2. known' \subseteq (Tables \X {"table"}) \cap catalog \cap relnames
    <2>1. Verb(s) = "create" => Name(s) \in Tables \X {"table"}
      BY Names DEF IInv
    <2> QED
      BY <2>1 DEF ForwardResponse, IInv, TypeOK, KnownAreTracked
  <1>3. TypeOK'
    BY <1>1, <1>2, ClearType DEF IInv, TypeOK
  <1>4. KnownAreTracked'
    BY <1>1, <1>2, ClearType DEF IInv, KnownAreTracked, Verb, Name, Exist, Excluded
  <1>5. RoleFollowed'
    BY <1>1, ClearType DEF IInv, RoleFollowed, Verb, Name
  <1>6. KnownAreJoined'
    BY <1>1, ClearType DEF IInv, KnownAreJoined, Verb
  <1> QED
    BY <1>3, <1>4, <1>5, <1>6 DEF IInv

\* New sessions start with the role that was looked up.  Over a restart the
\* catalogue gives the tracker every table that is known.
LEMMA ReplaceInv ==
    ASSUME IInv, NEW S \in SUBSET Sessions, Replace(S),
           \/ UNCHANGED relnames
           \/ S = Sessions /\ relnames' = Refresh
    PROVE  IInv'
  <1>1. UNCHANGED <<catalog, known>>
    BY DEF Replace
  <1>2. /\ pc' \in [Sessions -> Places]
        /\ req' \in [Sessions -> Requests \cup {Nothing}]
        /\ how' \in [Sessions -> {"as_is", "joined", "cascade"}]
        /\ answer' \in [Sessions -> {"none", "C", "N", "E", "T"}]
        /\ misled' \in [Sessions -> BOOLEAN]
    BY DEF Replace, IInv, TypeOK, Places
  <1>3. PICK new \in [S -> Roles] :
          /\ role' = [s \in Sessions |-> IF s \in S THEN new[s] ELSE role[s]]
          /\ rolsuper' = [s \in Sessions |-> IF s \in S THEN new[s] \in Supers ELSE rolsuper[s]]
    BY DEF Replace
  <1>4. /\ role' \in [Sessions -> Roles]
        /\ rolsuper' \in [Sessions -> BOOLEAN]
        /\ \A s \in S : rolsuper'[s] <=> role'[s] \in Supers
        /\ \A s \in Sessions \ S : role'[s] = role[s] /\ rolsuper'[s] = rolsuper[s]
    <2>1. role' \in [Sessions -> Roles]
      BY <1>3 DEF IInv, TypeOK
    <2>2. rolsuper' \in [Sessions -> BOOLEAN]
      <3>1. \A s \in Sessions :
              (IF s \in S THEN new[s] \in Supers ELSE rolsuper[s]) \in BOOLEAN
        <4> TAKE s \in Sessions
        <4> DEFINE b == new[s] \in Supers
        <4>1. rolsuper[s] \in BOOLEAN
          BY DEF IInv, TypeOK
        <4>2. b \in BOOLEAN
          OBVIOUS
        <4> HIDE DEF b
        <4>3. (IF s \in S THEN b ELSE rolsuper[s]) \in BOOLEAN
          BY <4>1, <4>2
        <4> QED
          BY <4>3 DEF b
      <3> QED
        BY <1>3, <3>1, Zenon
    <2>3. \A s \in S : rolsuper'[s] <=> role'[s] \in Supers
      BY <1>3
    <2>4. \A s \in Sessions \ S : role'[s] = role[s] /\ rolsuper'[s] = rolsuper[s]
      BY <1>3
    <2> QED
      BY <2>1, <2>2, <2>3, <2>4
  <1>5. /\ \A s \in S : pc'[s] \in {"idle", "orphan"}
        /\ \A s \in Sessions \ S : /\ pc'[s] = pc[s] /\ req'[s] = req[s] /\ how'[s] = how[s]
                                   /\ answer'[s] = answer[s] /\ misled'[s] = misled[s]
    BY DEF Replace, IInv, TypeOK
  <1>6. known \subseteq relnames' /\ relnames' \subseteq Relations
    BY DEF Refresh, Excluded, IInv, TypeOK, KnownAreTracked, Relations
  <1>7. S = Sessions \/ UNCHANGED relnames
    OBVIOUS
  <1>8. TypeOK'
    BY <1>1, <1>2, <1>4, <1>6 DEF IInv, TypeOK
  <1>9. KnownAreTracked'
    BY <1>1, <1>5, <1>6, <1>7 DEF IInv, KnownAreTracked, Verb, Name, Exist, Excluded
  <1>10. RoleFollowed'
    BY <1>4, <1>5 DEF IInv, RoleFollowed, Verb, Name
  <1>11. KnownAreJoined'
    BY <1>4, <1>5 DEF IInv, KnownAreJoined, Verb
  <1> QED
    BY <1>8, <1>9, <1>10, <1>11 DEF IInv

LEMMA NextInv == IInv /\ [Next]_vars => IInv'
  <1> SUFFICES ASSUME IInv, [Next]_vars
               PROVE  IInv'
    OBVIOUS
  <1>1. CASE UNCHANGED vars
    BY <1>1 DEF vars, IInv, TypeOK, KnownAreTracked, RoleFollowed, KnownAreJoined, Verb, Name,
                Exist, Excluded
  <1>2. ASSUME NEW s \in Sessions, SessionStep(s)
        PROVE  IInv'
    <2>1. CASE EndSession(s)
      BY <2>1, ReplaceInv DEF EndSession
    <2> QED
      BY <1>2, <2>1, AskInv, PreInv, ExecuteInv, PostInv, ForwardInv DEF SessionStep
  <1>3. CASE Restart
    BY <1>3, ReplaceInv DEF Restart
  <1> QED
    BY <1>1, <1>2, <1>3 DEF Next

\* The inductive invariant of the proxy's beliefs.
THEOREM Invariance == Spec => []IInv
  BY InitInv, NextInv, PTL DEF Spec

\* A session's rolsuper is right between its requests (UpdateParametersPlugIn).
THEOREM RoleCorrect == Spec => []RoleBelieved
  <1>1. IInv => RoleBelieved
    BY DEF IInv, RoleFollowed, RoleBelieved
  <1> QED
    BY <1>1, Invariance, PTL

\* Queries on known tables are joined with the tables' views (AclQueryPlugIn).
THEOREM KnownJoined == Spec => []KnownAreJoined
  <1>1. IInv => KnownAreJoined
    BY DEF IInv
  <1> QED
    BY <1>1, Invariance, PTL
=============================================================================
