------------------------------ MODULE MCJobSlot ------------------------------
(* The calls of the model-checked instances of JobSlot.                     *)
EXTENDS JobSlot

\* Jobs of either kind; a longer one may only follow a wavefront (NeverGrows).
MixedShapes == {[kind |-> "pfor", nrows |-> 2], [kind |-> "pfor", nrows |-> 1],
                [kind |-> "wavefront", nrows |-> 2]}

\* A slot is reused by a job with more units than the one before.
GrowingShapes == {[kind |-> "pfor", nrows |-> 2], [kind |-> "pfor", nrows |-> 3]}
=============================================================================
