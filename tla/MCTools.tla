------------------------------ MODULE MCTools -------------------------------
(***************************************************************************)
(* Three components that share nothing, explored in one run: the framing   *)
(* of messages, the configuration and the generator of models.  A          *)
(* behaviour is one of a single component; the others stay as they are.    *)
(***************************************************************************)
EXTENDS WireProtocol, Config, ModelGen

\* Users, roles, and a table between them.
MCTables == {"users", "roles", "user_roles"}
MCRank == [users |-> 3, roles |-> 1, user_roles |-> 2]
MCSingular == [users |-> "User", roles |-> "Role", user_roles |-> "UserRole"]
MCPlural == [users |-> "Users", roles |-> "Roles", user_roles |-> "UserRoles"]
MCGoName == [id |-> "ID", parent_id |-> "ParentID", user_id |-> "UserID", role_id |-> "RoleID",
             created_at |-> "CreatedAt", note |-> "Note", user |-> "User"]

FK(src, srcCol, tgt, field, reverse) ==
    Relation("", "", src, <<srcCol>>, tgt, <<"id">>, field, reverse)
M2M(src, tgt, field) ==
    Relation("many-to-many", "user_roles", src, <<"id">>, tgt, <<"id">>, field, "")

MCForeignKeys ==
    {FK("user_roles", "user_id", "users", "", ""), FK("user_roles", "role_id", "roles", "", ""),
     FK("users", "parent_id", "users", "", "")}

MCDeclarations ==
    {FK("user_roles", "user_id", "users", "Member", ""),
     FK("user_roles", "user_id", "users", "", "Roles"),
     FK("user_roles", "role_id", "roles", "", ""),
     FK("users", "parent_id", "users", "Parent", "Parent"),
     FK("roles", "user_id", "users", "", ""),
     Relation("", "", "users", <<"id", "parent_id">>, "user_roles", <<"user_id", "role_id">>, "", ""),
     M2M("users", "roles", ""), M2M("roles", "users", "Members")}

\* The junction has columns beside the two keys, a primary key and unique constraints.
Schema(extra, pk, unique) ==
    [users |-> [columns |-> {"id", "parent_id"}, pk |-> {"id"}, unique |-> <<>>],
     roles |-> [columns |-> {"id"}, pk |-> {"id"}, unique |-> <<>>],
     user_roles |-> [columns |-> {"user_id", "role_id"} \cup extra, pk |-> pk, unique |-> unique]]

Uniques == {<<>>, <<{"user_id"}>>, <<{"user_id", "role_id"}>>, <<{"user_id", "role_id"}, {"user_id"}>>}

MCSchemas ==
    {Schema(extra, pk, unique) : extra \in {{}, {"created_at"}, {"note"}, {"user"}},
                                 pk \in {{"user_id", "role_id"}, {"user_id"}}, unique \in Uniques}
      \cup {Schema({"id"}, {"id"}, unique) : unique \in Uniques}

MCRequests == {{t} : t \in Tables} \cup {Tables}
MCExcludes == {{}, {"roles"}}

Default == [schema |-> Schema({}, {"user_id", "role_id"}, <<>>), physical |-> ForeignKeys,
            declared |-> {}, tables |-> {"users"}, exclude |-> {}, with |-> TRUE, noExpand |-> FALSE]

\* What the theorems about the fields and about the stream suppose holds of these values.
ASSUME MCColumnsNamedApart == ColumnsNamedApart
ASSUME MCMagicMarks == MagicMarks

VARIABLE on         \* the component this behaviour is of

allVars == <<wireVars, configVars, genVars, on>>

WireIdle == transport = "tcp" /\ codec = [peer |-> 0, receiver |-> 0]
            /\ net = <<>> /\ sent = <<>> /\ damaged = 0 /\ read = {}
ConfigIdle == /\ cfg = SampleDatabase /\ load = Start /\ edits = 0
              /\ launch = [flag |-> "", appEnv |-> "", path |-> None,
                           file |-> [f \in Files |-> "absent"], dotenv |-> {}, secret |-> "unset"]
GenIdle == input = Default /\ gen = Begin(Default.tables)

Init ==
    \/ on = "wire" /\ WireInit /\ ConfigIdle /\ GenIdle
    \/ on = "config" /\ ConfigInit /\ WireIdle /\ GenIdle
    \* Without WithRelations the foreign keys are not read.
    \/ /\ on = "gen" /\ GenInit /\ WireIdle /\ ConfigIdle
       /\ input.with \/ input.physical = {}

Next ==
    \/ on = "wire" /\ WireNext /\ UNCHANGED <<configVars, genVars, on>>
    \/ on = "config" /\ ConfigNext /\ UNCHANGED <<wireVars, genVars, on>>
    \/ on = "gen" /\ GenNext /\ UNCHANGED <<wireVars, configVars, on>>

Spec == Init /\ [][Next]_allVars
=============================================================================
