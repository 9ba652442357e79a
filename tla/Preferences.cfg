\* One key put in every way, a second one beside it, any call failing or cut off.
CONSTANTS
    Keys = {"a", "b"}
    Puts <- MCPuts
SPECIFICATION Spec
INVARIANTS
    TypeOK
    HandleMode
    PutSurvives
    ReadsBack
