SPECIFICATION Spec
CONSTANTS
    Bytes = {1, 2}
    MaxPayload = 2
    MaxFrames = 2
    StreamBuf = 20
    DatagramBuf = 9
    MaxDamage = 1
    MaxEdits = 3
    MaxDotenv = 2
    Tables <- MCTables
    Rank <- MCRank
    Singular <- MCSingular
    Plural <- MCPlural
    GoName <- MCGoName
    Schemas <- MCSchemas
    ForeignKeys <- MCForeignKeys
    Declarations <- MCDeclarations
    Requests <- MCRequests
    Excludes <- MCExcludes
    MaxDeclared = 2
\* A command ends; a peer sends no more than it does.
CHECK_DEADLOCK FALSE
INVARIANTS
    DecodeExact
    PriorityHolds
    AcceptedIsWired
    FieldsDistinct
    BothEndsNavigable
    ReferencesGenerated
