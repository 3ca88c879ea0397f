----------------------------- MODULE WavefrontAbs -----------------------------
(***************************************************************************)
(* What src/src/common/threadpool.h promises of one ntp_wavefront call:    *)
(* "cell_fn(ctx, row, col) is invoked exactly once per cell.  When it      *)
(* runs, the runtime guarantees: every cell (row-1, col') with             *)
(* col' <= col+1 has already returned, and every cell (row, col') with     *)
(* col' < col has already returned. [...] The call blocks until every cell *)
(* is done."                                                               *)
(***************************************************************************)
EXTENDS Integers

CONSTANTS NRows, NCols      \* the grid, at least one cell

Rows == 0 .. NRows - 1
Cols == 0 .. NCols - 1

VARIABLES
    cell,       \* cell[r][c]: has cell_fn been called for it, has it returned
    returned    \* the ntp_wavefront call has returned

AbsTypeOK ==
    /\ cell \in [Rows -> [Cols -> {"todo", "running", "done"}]]
    /\ returned \in BOOLEAN

AbsInit ==
    /\ cell = [r \in Rows |-> [c \in Cols |-> "todo"]]
    /\ returned = FALSE

\* The H.264 raster dependency: left, and top row up to the top-right cell.
NeighboursDone(r, c) ==
    /\ \A d \in Cols : d < c => cell[r][d] = "done"
    /\ r > 0 => \A d \in Cols : d <= c + 1 => cell[r - 1][d] = "done"

Start(r, c) ==
    /\ cell[r][c] = "todo"
    /\ NeighboursDone(r, c)
    /\ cell' = [cell EXCEPT ![r][c] = "running"]
    /\ UNCHANGED returned

Finish(r, c) ==
    /\ cell[r][c] = "running"
    /\ cell' = [cell EXCEPT ![r][c] = "done"]
    /\ UNCHANGED returned

Return ==
    /\ \A r \in Rows, c \in Cols : cell[r][c] = "done"
    /\ returned' = TRUE
    /\ UNCHANGED cell

AbsNext ==
    \/ \E r \in Rows, c \in Cols : Start(r, c) \/ Finish(r, c)
    \/ Return

AbsSpec == AbsInit /\ [][AbsNext]_<<cell, returned>>
=============================================================================
