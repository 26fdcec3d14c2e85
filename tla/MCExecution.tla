------------------------------ MODULE MCExecution ------------------------------
(* A block feeding a Looper, whose path holds a second, nested Looper; sums *)
(* are read by the module that produces the integrand.                      *)
EXTENDS Execution, TLC

CONSTANTS block, outer, a, inner, b, innerSum, outerSum, last

MCPath == (Root :> <<block, outer, last>>)
       @@ (outer :> <<a, inner, outerSum>>)
       @@ (inner :> <<b, innerSum>>)

MCDeps == (block :> {}) @@ (outer :> {block})
       @@ (a :> {outer}) @@ (inner :> {a}) @@ (outerSum :> {a, outer})
       @@ (b :> {inner, outer, a}) @@ (innerSum :> {b})
       @@ (last :> {innerSum, outerSum, block})
=============================================================================
