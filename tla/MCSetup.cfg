CONSTANTS
    Programs <- MCPrograms
    Libraries <- MCLibraries
    InternalNames <- Internal
    Malformed = {"Bad"}
    Lines <- MCLines
    InvalidNames <- MCInvalidNames
    Meant <- MCMeant
    Scripts <- MCScripts
    MaxChanges = 2
    Eval <- lua_eval
    to_any <- lua_to_any
    freeze_value <- frozen_value
SPECIFICATION Spec
INVARIANTS
    RegistryIsComplete
    DefinitionsAreAsDocumented
    TypesAreKnown
    ValidatedIsConstructed
    FrozenIsOfOneMoment
    SetIsRead
    ParticlesAreSharedOut
    DimensionsAreCounted
PROPERTY FrozenIsFinal
CHECK_DEADLOCK FALSE
