CONSTANTS
    Nested <- MCNested
    World <- MCWorld
    EntryPoints <- MCEntryPoints
    GroupNames <- MCGroups
    Families <- MCFamilies
    Ports = {}
    Loose = "(loose)"
    MinDegree = 4
    MaxGraphNodes = 2
    Root = "root"
    Dotted <- MCDotted
    Unspelled = {"in/v1.2"}
    GoFiles <- MCGoFiles
    DottedFiles = {"h.pb.go"}
    ParamNames <- MCParamNames
    Constructors = {"NewT"}
    Enums <- MCEnums
SPECIFICATION ReviewSpec
INVARIANTS
    GraphsAgree
    CyclesAreReported
    ImpactReaches
    UsedExportsAreKept
    DeclarationsAreMarked
    DependenciesAreDrawn
    DiagramsAgreeWithCode
CHECK_DEADLOCK FALSE
