CONSTANTS
    Tags = {"a", "b", "c"}
    Types = {"double", "vector"}
SPECIFICATION Spec
INVARIANTS
    OneBlockPerTag
    OneProducerPerTag
    FrozenIsProduced
    IInv
