SPECIFICATION Spec
CONSTANTS
    block = block
    outer = outer
    a = a
    inner = inner
    b = b
    innerSum = innerSum
    outerSum = outerSum
    last = last
    Root = Root
    None = None
    Modules = {block, outer, a, inner, b, innerSum, outerSum, last}
    Loopers = {outer, inner}
    Path <- MCPath
    Deps <- MCDeps
    Resets = {innerSum, outerSum}
    MaxSolutions = 2
INVARIANT
    EveryModuleIsFinished
