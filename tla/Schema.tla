-------------------------------- MODULE Schema --------------------------------
(***************************************************************************)
(* What the proxy believes of the database: the relations SchemaTracker    *)
(* knows, shared by all sessions, and each session's rolsuper parameter.   *)
(* The plugins read both before a request is forwarded and write both      *)
(* after its answer, while other sessions change the database.             *)
(*                                                                         *)
(* A request is one statement of the simple query protocol, outside of a   *)
(* transaction block.  The catalogue holds, of each table, the objects     *)
(* that the proxy's own commands make of it.                               *)
(***************************************************************************)
CONSTANTS
    Sessions,  \* sessions of the proxy
    Tables,    \* names of tables
    Supers,    \* roles that are superusers
    Others     \* roles that are not

ASSUME RolesAssumption == Supers \cap Others = {}

VARIABLES
    catalog,   \* what there is in the database
    relnames,  \* relnames_ of the SchemaTracker
    role,      \* the role each session has at the server
    rolsuper,  \* whether parameters_["rolsuper"] is "t"
    pc,        \* where each session's request is
    req,       \* the request
    how,       \* what the plugins made of it
    answer,    \* the first byte of the answer
    known,     \* history: the tables whose creator was told of it
    misled     \* history: the answer to a SET ROLE was replaced by an error

vars == <<catalog, relnames, role, rolsuper, pc, req, how, answer, known, misled>>

\* T, T__access_bindings__, T__acls__, and the foreign key of the second.
Object(t, kind) == <<t, kind>>
Relations == Tables \X {"table", "bindings", "acls"}
Objects == Relations \cup (Tables \X {"fkey"})

Roles == Supers \cup Others

\* What a client may ask, and what of.  SET ROLE is asked of the role.
Statements ==
         {"create", "enable"} \X (Tables \X {"table"})
    \cup {"drop"} \X (Tables \X {"table", "bindings"})
    \cup {"drop_view"} \X (Tables \X {"acls"})
    \cup {"select"} \X Relations
    \cup {"set_role"} \X Roles

\* relied is a history: the relation was known before the request.
Requests == [of : Statements, relied : BOOLEAN]
Nothing == [of |-> <<"none", "none">>, relied |-> FALSE]
Verb(s) == req[s].of[1]
Name(s) == req[s].of[2]

\* idle: none.          asked: received.      sent: forwarded to the server.
\* executed: answered by the server.          answered: to be forwarded back.
\* orphan: at the server, but its session is gone.
Places == {"idle", "asked", "sent", "executed", "answered", "orphan"}

TypeOK ==
    /\ catalog \subseteq Objects
    /\ relnames \subseteq Relations
    /\ role \in [Sessions -> Roles]
    /\ rolsuper \in [Sessions -> BOOLEAN]
    /\ pc \in [Sessions -> Places]
    /\ req \in [Sessions -> Requests \cup {Nothing}]
    /\ how \in [Sessions -> {"as_is", "joined", "cascade"}]
    /\ answer \in [Sessions -> {"none", "C", "N", "E", "T"}]
    /\ known \subseteq Tables \X {"table"}
    /\ misled \in [Sessions -> BOOLEAN]

\* main starts the proxy on an empty database; Restart on any other.  Initiate
\* has looked the session's role up.
Init ==
    /\ catalog = {}
    /\ relnames = {}
    /\ role \in [Sessions -> Roles]
    /\ rolsuper = [s \in Sessions |-> (role[s] \in Supers)]
    /\ pc = [s \in Sessions |-> "idle"]
    /\ req = [s \in Sessions |-> Nothing]
    /\ how = [s \in Sessions |-> "as_is"]
    /\ answer = [s \in Sessions |-> "none"]
    /\ known = {}
    /\ misled = [s \in Sessions |-> FALSE]

Goto(s, place) == pc' = [pc EXCEPT ![s] = place]

\* The request is over (ResetContext, or a new session).
Clear(s) ==
    /\ Goto(s, "idle")
    /\ req' = [req EXCEPT ![s] = Nothing]
    /\ how' = [how EXCEPT ![s] = "as_is"]
    /\ answer' = [answer EXCEPT ![s] = "none"]

-----------------------------------------------------------------------------
(* SchemaTracker *)

\* The suffixes "__acl__" and "__access_bindings__".  No relation ends in the
\* first: the views that ENABLE ACCESS CONTROL makes end in "__acls__".
Excluded(r) == r[2] = "bindings"

\* Mutant: the tracker starts empty.
RefreshNothing == {}

\* Tables and views alike (relkind is r, p, v, m or f).
Refresh == {r \in catalog \cap Relations : ~ Excluded(r)}

Exist(r) == r \in relnames /\ ~ Excluded(r)

AddRelName(r) == IF Excluded(r) THEN relnames ELSE relnames \cup {r}

-----------------------------------------------------------------------------
(* A request *)

Ask(s, statement) ==
    /\ pc[s] = "idle"
    /\ req' = [req EXCEPT ![s] = [of |-> statement, relied |-> statement[2] \in known]]
    /\ Goto(s, "asked")
    /\ UNCHANGED <<catalog, relnames, role, rolsuper, how, answer, known, misled>>

\* AclQueryPlugIn joins what is selected from with its view.
MustJoin(s) == Verb(s) = "select" /\ ~ rolsuper[s] /\ Exist(Name(s))

\* DropTablePlugIn drops the table and its bindings, and aborts.  That works if
\* nothing else depends on the two.
TestDrop(s) ==
    LET t == Name(s)[1]
    IN  /\ {Object(t, "table"), Object(t, "bindings")} \subseteq catalog
        /\ Object(t, "acls") \notin catalog

MayCascade(s) == Verb(s) = "drop" /\ Exist(Name(s)) /\ TestDrop(s)

\* The plugins rewrite the request, or refuse a table without a usable "id".
ApplyPreRequestPlugins(s) ==
    /\ pc[s] = "asked"
    /\ \/ /\ Verb(s) = "create"
          /\ answer' = [answer EXCEPT ![s] = "E"]
          /\ Goto(s, "answered")
          /\ UNCHANGED how
       \/ /\ how' = [how EXCEPT ![s] = IF MustJoin(s) THEN "joined"
                                       ELSE IF MayCascade(s) THEN "cascade" ELSE "as_is"]
          /\ Goto(s, "sent")
          /\ UNCHANGED answer
    /\ UNCHANGED <<catalog, relnames, role, rolsuper, req, known, misled>>

\* The server is done: the session has its answer, if the session is still there.
Answer(s, byte) ==
    /\ pc[s] \in {"sent", "orphan"}
    /\ IF pc[s] = "sent" THEN /\ Goto(s, "executed")
                              /\ answer' = [answer EXCEPT ![s] = byte]
                              /\ UNCHANGED <<req, how>>
                         ELSE Clear(s)
    /\ UNCHANGED <<relnames, rolsuper, misled>>

ExecuteCreate(s) ==
    /\ Verb(s) = "create"
    /\ Name(s) \notin catalog
    /\ catalog' = catalog \cup {Name(s)}
    /\ Answer(s, "C")
    /\ UNCHANGED <<role, known>>

\* CREATE TABLE IF NOT EXISTS of a table that exists: a notice comes first.
ExecuteNothing(s) ==
    /\ Verb(s) = "create"
    /\ Name(s) \in catalog
    /\ Answer(s, "N")
    /\ UNCHANGED <<catalog, role, known>>

\* What TranslateProxyCommandPlugIn made of ENABLE ACCESS CONTROL.
ExecuteEnable(s) ==
    LET t == Name(s)[1]
        new == {Object(t, "bindings"), Object(t, "fkey"), Object(t, "acls")}
    IN  /\ Verb(s) = "enable"
        /\ Name(s) \in catalog
        /\ {Object(t, "bindings"), Object(t, "acls")} \cap catalog = {}
        /\ catalog' = catalog \cup new
        /\ Answer(s, "C")
        /\ UNCHANGED <<role, known>>

\* What must not be there for the table or view to be dropped, or goes with it.
Dependents(s) ==
    LET t == Name(s)[1]
    IN  {Object(t, kind) : kind \in IF Name(s)[2] = "table" THEN {"fkey", "acls"} ELSE {"acls"}}

\* A key goes with its own table in any case.
Own(r) == {r} \cup IF r[2] = "bindings" THEN {Object(r[1], "fkey")} ELSE {}

ExecuteDrop(s) ==
    /\ Verb(s) \in {"drop", "drop_view"}
    /\ Name(s) \in catalog
    /\ Verb(s) = "drop" => how[s] = "cascade" \/ Dependents(s) \cap catalog = {}
    /\ catalog' = catalog \ (Own(Name(s)) \cup IF how[s] = "cascade" THEN Dependents(s) ELSE {})
    /\ known' = known \ {Name(s)}
    /\ Answer(s, "C")
    /\ UNCHANGED role

\* A joined query needs the relation's view as well, and only tables have one.
ExecuteSelect(s) ==
    /\ Verb(s) = "select"
    /\ Name(s) \in catalog
    /\ how[s] = "joined" => Name(s)[2] = "table" /\ Object(Name(s)[1], "acls") \in catalog
    /\ Answer(s, "T")
    /\ UNCHANGED <<catalog, role, known>>

ExecuteSetRole(s) ==
    /\ Verb(s) = "set_role"
    /\ role' = IF pc[s] = "sent" THEN [role EXCEPT ![s] = Name(s)] ELSE role
    /\ Answer(s, "C")
    /\ UNCHANGED <<catalog, known>>

\* Any statement may fail, for a missing privilege or object, or be cancelled.
ExecuteFails(s) ==
    /\ Answer(s, "E")
    /\ UNCHANGED <<catalog, role, known>>

\* Mutant: the answer is not looked at.
AnyAnswer(s) == TRUE

\* What the plugins take for success.
Succeeded(s) == answer[s] = "C"

\* UpdateParametersPlugIn looks the new role up, which may throw: the client then
\* gets an error, and the parameter stays.  UpdateSchemaPlugIn adds the table of
\* the first CREATE TABLE, which for ENABLE ACCESS CONTROL is that of the bindings.
ApplyPostResponsePlugins(s) ==
    /\ pc[s] = "executed"
    /\ Goto(s, "answered")
    /\ \/ /\ Verb(s) = "set_role" /\ Succeeded(s)
          /\ \/ /\ rolsuper' = [rolsuper EXCEPT ![s] = (Name(s) \in Supers)]
                /\ misled' = [misled EXCEPT ![s] = FALSE]
                /\ UNCHANGED answer
             \/ /\ answer' = [answer EXCEPT ![s] = "E"]
                /\ misled' = [misled EXCEPT ![s] = TRUE]
                /\ UNCHANGED rolsuper
          /\ UNCHANGED relnames
       \/ /\ Verb(s) \in {"create", "enable"} /\ Succeeded(s)
          /\ relnames' = AddRelName(IF Verb(s) = "create" THEN Name(s)
                                    ELSE Object(Name(s)[1], "bindings"))
          /\ UNCHANGED <<rolsuper, answer, misled>>
       \/ /\ ~ (Verb(s) \in {"set_role", "create", "enable"} /\ Succeeded(s))
          /\ UNCHANGED <<relnames, rolsuper, answer, misled>>
    /\ UNCHANGED <<catalog, role, req, how, known>>

\* The client has its answer.
ForwardResponse(s) ==
    /\ pc[s] = "answered"
    /\ Clear(s)
    /\ known' = IF Verb(s) = "create" /\ answer[s] = "C" THEN known \cup ({Name(s)} \cap catalog)
                ELSE known
    /\ UNCHANGED <<catalog, relnames, role, rolsuper, misled>>

-----------------------------------------------------------------------------
\* Sessions end, and others take their place.  What they have forwarded may
\* still be executed.
Replace(S) ==
    LET Gone == {s \in S : pc[s] \notin {"sent", "orphan"}}
    IN  /\ pc' = [s \in Sessions |-> IF s \in Gone THEN "idle" ELSE IF s \in S THEN "orphan" ELSE pc[s]]
        /\ req' = [s \in Sessions |-> IF s \in Gone THEN Nothing ELSE req[s]]
        /\ how' = [s \in Sessions |-> IF s \in Gone THEN "as_is" ELSE how[s]]
        /\ answer' = [s \in Sessions |-> IF s \in Gone THEN "none" ELSE answer[s]]
        /\ \E new \in [S -> Roles] :
             /\ role' = [s \in Sessions |-> IF s \in S THEN new[s] ELSE role[s]]
             /\ rolsuper' = [s \in Sessions |-> IF s \in S THEN new[s] \in Supers ELSE rolsuper[s]]
        /\ misled' = [s \in Sessions |-> s \notin S /\ misled[s]]
        /\ UNCHANGED <<catalog, known>>

\* A client leaves, or a connection breaks.
EndSession(s) == Replace({s}) /\ UNCHANGED relnames

\* The proxy ends and is started again: the tracker reads the catalogue.
Restart == Replace(Sessions) /\ relnames' = Refresh

SessionStep(s) ==
    \/ \E statement \in Statements : Ask(s, statement)
    \/ ApplyPreRequestPlugins(s)
    \/ ExecuteCreate(s)
    \/ ExecuteNothing(s)
    \/ ExecuteEnable(s)
    \/ ExecuteDrop(s)
    \/ ExecuteSelect(s)
    \/ ExecuteSetRole(s)
    \/ ExecuteFails(s)
    \/ ApplyPostResponsePlugins(s)
    \/ ForwardResponse(s)
    \/ EndSession(s)

Next == (\E s \in Sessions : SessionStep(s)) \/ Restart

Spec == Init /\ [][Next]_vars

-----------------------------------------------------------------------------
(* Properties *)

\* The session's rolsuper is that of the role it has at the server, between two
\* requests, unless the client was told that its SET ROLE went wrong
\* (UpdateParametersPlugIn).
RoleBelieved ==
    \A s \in Sessions : pc[s] \in {"idle", "asked"} /\ ~ misled[s] =>
        (rolsuper[s] <=> role[s] \in Supers)

\* A query that names a table whose creation was acknowledged to anyone before
\* it is joined with the table's view, if the session's role is no superuser:
\* the tracker learns of a table before its creator does, and over a restart
\* (UpdateSchemaPlugIn, SchemaTracker::Refresh, AclQueryPlugIn).
KnownAreJoined ==
    \A s \in Sessions :
        pc[s] = "sent" /\ Verb(s) = "select" /\ req[s].relied /\ ~ misled[s] /\ role[s] \in Others
            => how[s] = "joined"

\* "if relname is not a table, then ignore" (query-acler.cpp).
NonTablesIgnored ==
    \A s \in Sessions : pc[s] = "sent" /\ how[s] = "joined" => Name(s)[2] = "table"

-----------------------------------------------------------------------------
(* The inductive invariant *)

\* Tables are tracked before they are known, and as long as they are there.
KnownAreTracked ==
    /\ known \subseteq catalog \cap relnames
    /\ \A s \in Sessions :
         /\ pc[s] = "asked" /\ Verb(s) = "select" /\ req[s].relied => Exist(Name(s))
         /\ pc[s] = "answered" /\ Verb(s) = "create" /\ answer[s] = "C" => Name(s) \in relnames

\* While a SET ROLE waits for its plugin, the role is the one it names.
RoleFollowed ==
    \A s \in Sessions :
        IF pc[s] = "executed" /\ Verb(s) = "set_role" /\ answer[s] = "C"
        THEN role[s] = Name(s)
        ELSE misled[s] \/ (rolsuper[s] <=> role[s] \in Supers)

IInv == TypeOK /\ KnownAreTracked /\ RoleFollowed /\ KnownAreJoined
=============================================================================
