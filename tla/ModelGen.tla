------------------------------ MODULE ModelGen ------------------------------
(***************************************************************************)
(* internal/database/gen: GenerateModels reads tables and foreign keys,    *)
(* merges them with the relations that are declared in YAML, finds the     *)
(* junction tables, checks the names and writes one model a table.         *)
(***************************************************************************)
EXTENDS Integers, Sequences, FiniteSets

CONSTANTS
    Tables,         \* the tables of the database, and whatever else a relation names
    Rank,           \* of each table, where its name stands among the others
    Singular,       \* inflection.Singular of ToCamelCase of a table's name
    Plural,         \* inflection.Plural of it
    GoName,         \* of each column, its name in Go
    Schemas,        \* for each table: its columns, its primary key and its unique constraints
    ForeignKeys,    \* the foreign keys a database may have
    Declarations,   \* the relations the YAML file may hold
    Requests,       \* the sets of tables models may be asked for
    Excludes,       \* the sets of tables that may be left unwritten
    MaxDeclared     \* bound: relations in the YAML file

VARIABLES
    input,          \* the schema, the declared relations and the options
    gen             \* the stage GenerateModels is in, its tables and relations, the models written

genVars == <<input, gen>>

junctionMetaColumns == {"created_at", "updated_at", "deleted_at"}

ToCamelCase(c) == GoName[c]

\* The columns of a composite key, "a+b", are a sequence.
splitCompositeColumns(cols) == {cols[i] : i \in DOMAIN cols}

Relation(type, through, src, srcCol, tgt, tgtCol, field, reverse) ==
    [Type |-> type, Through |-> through, Source |-> src, SourceColumn |-> srcCol,
     Target |-> tgt, TargetColumn |-> tgtCol, Field |-> field, ReverseField |-> reverse,
     HasOne |-> FALSE, M2MJoin |-> <<>>, SkipReverse |-> FALSE]
IsM2M(r) == r.Type = "many-to-many"

\* UnmarshalYAML: what a relation in the file may say; a many-to-many has a table it goes through.
Unmarshalled(r) ==
    /\ r = Relation(r.Type, r.Through, r.Source, r.SourceColumn, r.Target, r.TargetColumn,
                    r.Field, r.ReverseField)
    /\ r.Type \in {"", "many-to-many"} /\ r.Source \in Tables /\ r.Target \in Tables
    /\ r.Through \in Tables \/ (r.Through = "" /\ ~ IsM2M(r))

\* getPhysicalRelations: a constraint of the database names no fields.
Physical(r) ==
    /\ r = Relation("", "", r.Source, r.SourceColumn, r.Target, r.TargetColumn, "", "")
    /\ r.Source \in Tables /\ r.Target \in Tables

\* Tables have names, which are ordered; relations are such as can be read.
ASSUME GenAssumption ==
    /\ "" \notin Tables
    /\ Rank \in [Tables -> Int] /\ \A t, u \in Tables : Rank[t] = Rank[u] => t = u
    /\ \A r \in Declarations : Unmarshalled(r)
    /\ \A r \in ForeignKeys : Physical(r)
    /\ \A T \in Requests : T \subseteq Tables

columnsOf(t) == input.schema[t].columns
pkOf(t) == input.schema[t].pk
constraintsOf(t) == input.schema[t].unique

\* The order of the constraints: the smaller first, then by name.
Precedes(i, j, t) ==
    LET size(k) == Cardinality(constraintsOf(t)[k]) IN
    size(i) < size(j) \/ (size(i) = size(j) /\ i < j)

\* A constraint marks its columns unique, but for a key column that is alone in it.
Marks(t, i, c) == c \in constraintsOf(t)[i] /\ ~ (constraintsOf(t)[i] = {c} /\ c \in pkOf(t))

\* applyUniqueConstraints: a column is of the first constraint that marks it.
uniqueGroup(t, i) ==
    {c \in constraintsOf(t)[i] :
        Marks(t, i, c) /\ \A j \in DOMAIN constraintsOf(t) \ {i} : Marks(t, j, c) => Precedes(i, j, t)}

\* collectUniqueness: unique, and of no group.
uniqueSingle(t, c) ==
    \E i \in DOMAIN constraintsOf(t) : constraintsOf(t)[i] = {c} /\ uniqueGroup(t, i) = {c}

GenTypeOK ==
    /\ gen.at \in {"expand", "merge", "load", "annotate", "detect", "join", "validate", "write",
                   "done", "failed"}
    /\ gen.tables \subseteq Tables /\ gen.loaded \subseteq Tables
    /\ gen.written \subseteq gen.tables
    /\ \A r \in gen.relations : r.Source \in Tables /\ r.Target \in Tables

----------------------------------------------------------------------------
(* Relations.                                                              *)

key(r) == <<r.Type, IF IsM2M(r) THEN r.Through ELSE "", r.Source, r.SourceColumn, r.Target,
            r.TargetColumn>>

validateRelations(rs) == \A r, s \in rs : key(r) = key(s) => r = s

Or(name, default) == IF name # "" THEN name ELSE default

fieldName(r) ==
    Or(r.Field, IF IsM2M(r) THEN Plural[r.Target]
                ELSE IF r.Source = r.Target THEN "Parent" ELSE Singular[r.Target])

reverseName(r) ==
    Or(r.ReverseField, IF IsM2M(r) \/ r.Source # r.Target THEN Plural[r.Source]
                       ELSE IF r.HasOne THEN "Child" ELSE "Children")

\* The fields a relation takes, and of which table.
occupy(r) ==
    {<<r.Source, fieldName(r)>>}
        \cup (IF IsM2M(r) \/ ~ r.SkipReverse THEN {<<r.Target, reverseName(r)>>} ELSE {})

\* Relations of one key are of one type.
Override(existing, r) ==
    [existing EXCEPT !.Field = Or(r.Field, @), !.ReverseField = Or(r.ReverseField, @),
                     !.Through = Or(r.Through, @)]

\* Relations with a key of both sides keep the first and its names are overridden.
Merge(rs, more) ==
    {LET same == {s \in more : key(s) = key(r)} IN
        IF same = {} THEN r ELSE Override(r, CHOOSE s \in same : TRUE) : r \in rs}
      \cup {s \in more : \A r \in rs : key(r) # key(s)}

\* Mutant: the reverse fields are not compared.
NoConflictForward(rs) ==
    \A r, s \in rs : r # s => <<r.Source, fieldName(r)>> # <<s.Source, fieldName(s)>>

\* mergeRelations returns no error.
NoConflict(rs) ==
    /\ \A r \in rs : r.Source = r.Target => fieldName(r) # reverseName(r)
    /\ \A r, s \in rs : r # s => occupy(r) \cap occupy(s) = {}

\* Mutant: only the tables a relation starts from.
expandSources(tables, rs) == tables \cup {r.Source : r \in rs}

expandTablesForRelations(tables, rs) ==
    tables \cup UNION {{r.Source, r.Target, r.Through} \ {""} : r \in rs}

\* A key of one column that is unique by itself, or is the whole primary key.
UniqueSource(r) ==
    \E c \in splitCompositeColumns(r.SourceColumn) :
        r.SourceColumn = <<c>> /\ (uniqueSingle(r.Source, c) \/ pkOf(r.Source) = {c})

annotateHasOne(rs) ==
    {IF ~ IsM2M(r) /\ UniqueSource(r) THEN [r EXCEPT !.HasOne = TRUE] ELSE r : r \in rs}

fksOf(t, rs) == {r \in rs : ~ IsM2M(r) /\ r.Source = t}

fkColumnsAreCompleteKey(t, cols) ==
    cols # {} /\ (cols = pkOf(t) \/ \E i \in DOMAIN constraintsOf(t) : cols = uniqueGroup(t, i))

\* Two foreign keys, to different tables, and nothing else that counts.
IsJunction(t, rs) ==
    LET fks == fksOf(t, rs)
        cols == UNION {splitCompositeColumns(r.SourceColumn) : r \in fks} IN
    /\ \E left, right \in fks : fks = {left, right} /\ left.Target # right.Target
    /\ columnsOf(t) \ cols \subseteq junctionMetaColumns
    /\ fkColumnsAreCompleteKey(t, cols)

\* detectPureM2MTables: the ends in the order of their names.
autoM2M(t, rs) ==
    LET fks == fksOf(t, rs)
        left == CHOOSE r \in fks : \E s \in fks : Rank[r.Target] < Rank[s.Target]
        right == CHOOSE r \in fks : \E s \in fks : Rank[s.Target] < Rank[r.Target] IN
    [Relation("many-to-many", t, left.Target, left.TargetColumn, right.Target,
              right.TargetColumn, "", "")
        EXCEPT !.M2MJoin = <<Singular[left.Target], Singular[right.Target]>>]

Junctions(rs) == {t \in gen.loaded : IsJunction(t, rs)}

\* Mutant: the keys of every table with two of them lose their reverse.
applySkipReverseAll(rs) ==
    {IF ~ IsM2M(r) /\ Cardinality(fksOf(r.Source, rs)) = 2
     THEN [r EXCEPT !.SkipReverse = TRUE] ELSE r : r \in rs}

applySkipReverse(rs) ==
    {IF ~ IsM2M(r) /\ r.Source \in Junctions(rs) THEN [r EXCEPT !.SkipReverse = TRUE] ELSE r : r \in rs}

\* The keys of the junction to the two ends of an explicit many-to-many.
endsOf(r, rs) ==
    <<{k \in fksOf(r.Through, rs) : k.Target = r.Source /\ k.TargetColumn = r.SourceColumn},
      {k \in fksOf(r.Through, rs) : k.Target = r.Target /\ k.TargetColumn = r.TargetColumn}>>

resolveM2MJoins(rs) ==
    {IF ~ IsM2M(r) \/ r.M2MJoin # <<>> THEN r
     ELSE LET e == endsOf(r, rs)
              join == [i \in 1 .. 2 |-> Or((CHOOSE k \in e[i] : TRUE).Field,
                                           Singular[<<r.Source, r.Target>>[i]])] IN
          [r EXCEPT !.M2MJoin = join] : r \in rs}

columnFields(t) == {ToCamelCase(c) : c \in columnsOf(t)} \cup {"BaseModel"}

validateRelationColumns(rs) ==
    \A r \in rs :
        /\ \/ IsM2M(r)
           \/ /\ splitCompositeColumns(r.SourceColumn) \subseteq columnsOf(r.Source)
              /\ splitCompositeColumns(r.TargetColumn) \subseteq columnsOf(r.Target)
        /\ \A o \in occupy(r) : o[2] \notin columnFields(o[1])

----------------------------------------------------------------------------
(* GenerateModels, stage by stage.                                         *)

Begin(tables) ==
    [at |-> "expand", tables |-> tables, relations |-> {}, loaded |-> {}, written |-> {}]

GenInit ==
    /\ input \in [schema : Schemas, physical : SUBSET ForeignKeys,
                  declared : {D \in SUBSET Declarations : Cardinality(D) <= MaxDeclared},
                  tables : Requests \ {{}}, exclude : Excludes, with : BOOLEAN,
                  noExpand : BOOLEAN]
    /\ gen = Begin(input.tables)

Stage(from, to, tables, rs, loaded, ok) ==
    /\ gen.at = from
    /\ gen' = IF ok THEN [at |-> to, tables |-> tables, relations |-> rs, loaded |-> loaded,
                            written |-> {}]
              ELSE [gen EXCEPT !.at = "failed"]
    /\ UNCHANGED input

Expanded(rs) == IF input.noExpand THEN gen.tables ELSE expandTablesForRelations(gen.tables, rs)

ExpandDeclared ==
    Stage("expand", IF input.with THEN "merge" ELSE "load",
          Expanded(input.declared), input.declared, {}, validateRelations(input.declared))

\* getPhysicalRelations reads the tables there are so far.
MergePhysical ==
    LET rs == Merge({r \in input.physical : r.Source \in gen.tables}, gen.relations) IN
    Stage("merge", "load", Expanded(rs), rs, {}, NoConflict(rs))

LoadTables ==
    Stage("load", "annotate", gen.tables, gen.relations,
          expandTablesForRelations(gen.tables, gen.relations), TRUE)

Annotate ==
    Stage("annotate", "detect", gen.tables, annotateHasOne(gen.relations), gen.loaded, TRUE)

Detect ==
    LET rs == Merge(applySkipReverse(gen.relations),
                    {autoM2M(t, gen.relations) : t \in Junctions(gen.relations)}) IN
    Stage("detect", "join", gen.tables, rs, gen.loaded, NoConflict(rs))

\* The junction's keys are looked for only where no join was set by Detect.
Join ==
    LET found == \A r \in gen.relations : IsM2M(r) /\ r.M2MJoin = <<>> =>
                    {} \notin {endsOf(r, gen.relations)[i] : i \in 1 .. 2} IN
    Stage("join", "validate", gen.tables,
          IF found THEN resolveM2MJoins(gen.relations) ELSE {}, gen.loaded, found)

ValidateColumns ==
    Stage("validate", "write", gen.tables, gen.relations, gen.loaded,
          validateRelationColumns(gen.relations))

\* The tables that are not excluded are written, one after the other, until a write fails.
WriteModels ==
    LET models == gen.tables \ input.exclude IN
    /\ gen.at = "write"
    /\ \/ gen' = [gen EXCEPT !.at = "done", !.written = models]
       \/ \E W \in SUBSET models :
            /\ W # models \/ W = {}
            /\ gen' = [gen EXCEPT !.at = "failed", !.written = W]
    /\ UNCHANGED input

GenNext ==
    \/ ExpandDeclared \/ MergePhysical \/ LoadTables \/ Annotate \/ Detect \/ Join
    \/ ValidateColumns \/ WriteModels

GenSpec == GenInit /\ [][GenNext]_genVars

Field(name, r, side, type) == [name |-> name, of |-> <<side, key(r)>>, type |-> type]

writeM2MFields(t) ==
    {Field(fieldName(r), r, "field", r.Target) : r \in {x \in gen.relations : IsM2M(x) /\ x.Source = t}}
      \cup {Field(reverseName(r), r, "reverse", r.Source) :
                r \in {x \in gen.relations : IsM2M(x) /\ x.Target = t}}

\* GenerateModelCode: the fields of a model, each with what it stands for.
Fields(t) ==
    {[name |-> ToCamelCase(c), of |-> <<c>>, type |-> ""] : c \in columnsOf(t)}
      \cup {Field(fieldName(r), r, "field", r.Target) : r \in fksOf(t, gen.relations)}
      \cup {Field(reverseName(r), r, "reverse", r.Source) :
                r \in {x \in gen.relations : ~ IsM2M(x) /\ x.Target = t /\ ~ x.SkipReverse}}
      \cup writeM2MFields(t)

----------------------------------------------------------------------------
(* Properties.                                                             *)

Done == gen.at = "done"

\* The columns of a table have different names in Go; the code does not check that they do.
ColumnsNamedApart ==
    \A S \in Schemas : \A t \in Tables : \A c, d \in S[t].columns :
        ToCamelCase(c) = ToCamelCase(d) => c = d

\* No model has two fields of one name, be they of columns, of keys read from the
\* database, of declared relations or of a detected many-to-many: the file would
\* not compile (relation.go 262-318, model.go 375-451).
FieldsDistinct ==
    Done => \A t \in gen.tables : \A f, g \in Fields(t) : f.name = g.name => f = g

\* A foreign key can be followed from both its ends: the reverse of a key is left
\* out only where a many-to-many through its table takes its place, and it is
\* has-one only when a constraint makes the column unique by itself
\* (relation.go 322-342, 351-419, 525-537).
BothEndsNavigable ==
    Done => \A r \in {x \in gen.relations : ~ IsM2M(x)} :
        /\ r.SkipReverse => \E m \in gen.relations : /\ IsM2M(m) /\ m.Through = r.Source
                                                     /\ r.Target \in {m.Source, m.Target}
        /\ r.HasOne =>
            LET cols == splitCompositeColumns(r.SourceColumn) IN
            cols = pkOf(r.Source) \/ \E i \in DOMAIN constraintsOf(r.Source) : cols = constraintsOf(r.Source)[i]

\* Whatever a field of a written model refers to is written too, unless the
\* option Exclude names it: no other table is left out, though a junction is found
\* only after the tables were settled (model.go 97-119, 182-196, 453-473).
ReferencesGenerated ==
    Done /\ ~ input.noExpand =>
        \A t \in gen.written : \A f \in Fields(t) :
            f.type # "" => f.type \in gen.written \cup input.exclude

\* relation.go, of M2MJoin: "LeftGoField=RightGoField": the names are fields of
\* the junction's model.  Not so when the key of a detected junction was renamed.
JoinNamesFields ==
    Done => \A m \in {x \in gen.relations : IsM2M(x)} : \A i \in 1 .. 2 :
        m.M2MJoin[i] \in {fieldName(r) : r \in fksOf(m.Through, gen.relations)}
============================================================================
