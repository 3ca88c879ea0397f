------------------------------- MODULE MbGrid -------------------------------
(***************************************************************************)
(* The frame-wide grids the macroblock layer predicts from, and the        *)
(* predictions (src/src/encoder/macroblock.c).                             *)
(*                                                                         *)
(* Motion, Intra4x4 modes, coefficient counts and vector differences are   *)
(* kept per 4x4 block of the picture, not per macroblock: a reader goes by *)
(* position, and what it finds there is whatever was written last.  A cell *)
(* is <<x, y>> in 4x4 blocks, a macroblock <<x, y>> in macroblocks.        *)
(*                                                                         *)
(* A vector is one component.  4:2:0; one slice per picture.               *)
(***************************************************************************)
EXTENDS Integers, Sequences, FiniteSets, SequencesExt

CONSTANTS Cols, Rows    \* the picture, in macroblocks

ASSUME SizeAssumption == Cols \in Nat \ {0} /\ Rows \in Nat \ {0}

MBs    == (0..Cols - 1) \X (0..Rows - 1)
Cells  == (0..4 * Cols - 1) \X (0..4 * Rows - 1)
CCells == (0..2 * Cols - 1) \X (0..2 * Rows - 1)
Raster == [i \in 1..Cols * Rows |-> <<(i - 1) % Cols, (i - 1) \div Cols>>]

\* The cells of a rectangle of a macroblock, in 4x4 blocks.
Rect(mb, r) == {<<(4 * mb[1]) + x, (4 * mb[2]) + y>> :
                  x \in r.x..(r.x + r.w - 1), y \in r.y..(r.y + r.h - 1)}
Whole == [x |-> 0, y |-> 0, w |-> 4, h |-> 4]
MbCells(mb) == Rect(mb, Whole)
MbCCells(mb) == {<<2 * mb[1] + x, 2 * mb[2] + y>> : x \in 0..1, y \in 0..1}

\* luma4x4BlkIdx -> position, and the quadrant of a cell.
BLK_X == <<0, 1, 0, 1, 2, 3, 2, 3, 0, 1, 0, 1, 2, 3, 2, 3>>
BLK_Y == <<0, 0, 1, 1, 0, 0, 1, 1, 2, 2, 3, 3, 2, 2, 3, 3>>
BlkCell(mb, blk) == <<4 * mb[1] + BLK_X[blk + 1], 4 * mb[2] + BLK_Y[blk + 1]>>
CBlkCell(mb, blk) == <<2 * mb[1] + (blk % 2), 2 * mb[2] + (blk \div 2)>>
BlkAt(c) == CHOOSE blk \in 0..15 : BLK_X[blk + 1] = c[1] % 4 /\ BLK_Y[blk + 1] = c[2] % 4

Paint(grid, cells, value) == [c \in cells |-> value] @@ grid
Abs(x) == IF x < 0 THEN -x ELSE x

---------------------------------------------------------------------------
\* Partitions.

SUB_NS == <<1, 2, 2, 4>>

part_rect(part, p) ==
  CASE part = 0 -> Whole
    [] part = 1 -> [x |-> 0, y |-> 2 * p, w |-> 4, h |-> 2]
    [] part = 2 -> [x |-> 2 * p, y |-> 0, w |-> 2, h |-> 4]
    [] part = 3 -> [x |-> 2 * (p % 2), y |-> 2 * (p \div 2), w |-> 2, h |-> 2]

sub_rect(q, shape, s) ==
  CASE shape = 0 -> q
    [] shape = 1 -> [q EXCEPT !.y = @ + s, !.h = 1]
    [] shape = 2 -> [q EXCEPT !.x = @ + s, !.w = 1]
    [] shape = 3 -> [x |-> q.x + (s % 2), y |-> q.y + (s \div 2), w |-> 1, h |-> 1]

NParts(part) == <<1, 2, 2, 4>>[part + 1]

\* The (sub-)partitions of a decision in coding order, each with the partition
\* p it belongs to.
Shapes(d) ==
  IF d.part < 3
  THEN [k \in 1..NParts(d.part) |-> [p |-> k - 1, r |-> part_rect(d.part, k - 1)]]
  ELSE FlattenSeq([b \in 1..4 |->
         [s \in 1..SUB_NS[d.sub[b] + 1] |->
            [p |-> b - 1, r |-> sub_rect(part_rect(3, b - 1), d.sub[b], s - 1)]]])

---------------------------------------------------------------------------
\* Vector prediction from a motion field [ref, mv] of one list.

NoNb == [ref |-> -1, mv |-> 0, avail |-> FALSE]

nb_at(f, x, y) ==
  IF <<x, y>> \notin Cells THEN NoNb
  ELSE [ref |-> f.ref[<<x, y>>], avail |-> TRUE,
        mv |-> IF f.ref[<<x, y>>] >= 0 THEN f.mv[<<x, y>>] ELSE 0]

median3(a, b, c) == a + b + c - Max({a, b, c}) - Min({a, b, c})

Matching(nbs, cref) == SelectSeq(nbs, LAMBDA n : n.ref = cref)

\* The neighbour on the same reference when there is one only, else the median.
Predictor(A, B, C, cref) ==
  LET same == Matching(<<A, B, C>>, cref)
  IN  IF Len(same) = 1 THEN same[1].mv ELSE median3(A.mv, B.mv, C.mv)

\* A stands in for B and C when it is all there is.
WithStandIn(A, B, C, cref) ==
  IF ~B.avail /\ ~C.avail /\ A.avail THEN Predictor(A, A, A, cref)
  ELSE Predictor(A, B, C, cref)

mv_predict(f, mb, cref) ==
  LET x == 4 * mb[1]  y == 4 * mb[2]
      C == nb_at(f, x + 4, y - 1)
  IN  WithStandIn(nb_at(f, x - 1, y), nb_at(f, x, y - 1),
                  IF C.avail THEN C ELSE nb_at(f, x - 1, y - 1), cref)

\* The corner is unavailable where it lies in a macroblock not coded yet.
partition_mvp(f, mb, r, part, p, cref) ==
  LET x == 4 * mb[1] + r.x  y == 4 * mb[2] + r.y
      A == nb_at(f, x - 1, y)
      B == nb_at(f, x, y - 1)
      corner == IF <<part, p>> \in {<<1, 1>>, <<3, 3>>} THEN NoNb ELSE nb_at(f, x + r.w, y - 1)
      C == IF corner.avail THEN corner ELSE nb_at(f, x - 1, y - 1)
      count == Len(Matching(<<A, B, C>>, cref))
  IN  CASE part = 1 /\ p = 0 /\ B.ref = cref -> B.mv
        [] part = 1 /\ p = 1 /\ A.ref = cref -> A.mv
        [] part = 2 /\ p = 0 /\ A.ref = cref -> A.mv
        [] part = 2 /\ p = 1 /\ C.ref = cref -> C.mv
        [] OTHER -> IF count = 0 /\ ~B.avail /\ ~C.avail /\ A.avail THEN A.mv
                    ELSE Predictor(A, B, C, cref)

\* Inside its own macroblock a cell not searched yet still holds the reset
\* value, which is how the corner is known to be undecided.
sub_mvp(f, mb, r, cref) ==
  LET x == 4 * mb[1] + r.x  y == 4 * mb[2] + r.y
      cx == x + r.w  cy == y - 1
      undecided == /\ cy >= 4 * mb[2]
                   /\ \/ cx > 4 * mb[1] + 3
                      \/ nb_at(f, cx, cy).ref < 0
      corner == IF undecided THEN NoNb ELSE nb_at(f, cx, cy)
  IN  WithStandIn(nb_at(f, x - 1, y), nb_at(f, x, y - 1),
                  IF corner.avail THEN corner ELSE nb_at(f, x - 1, y - 1), cref)

\* P_Skip: zero beside the edge or a still neighbour, else the predictor.
mv_skip(f, mb) ==
  LET A == nb_at(f, 4 * mb[1] - 1, 4 * mb[2])
      B == nb_at(f, 4 * mb[1], 4 * mb[2] - 1)
      still(n) == ~n.avail \/ (n.ref = 0 /\ n.mv = 0)
  IN  IF still(A) \/ still(B) THEN 0 ELSE mv_predict(f, mb, 0)

set_region_motion(f, cells, mv, ref) ==
  [mv |-> Paint(f.mv, cells, mv), ref |-> Paint(f.ref, cells, ref)]

---------------------------------------------------------------------------
\* Contexts from the count grids.

\* nC: the average of the left and top counts, one of them, or 0.
derive_nc(grid, c) ==
  LET a == <<c[1] - 1, c[2]>>  b == <<c[1], c[2] - 1>>
  IN  CASE a \in DOMAIN grid /\ b \in DOMAIN grid -> (grid[a] + grid[b] + 1) \div 2
        [] a \in DOMAIN grid /\ b \notin DOMAIN grid -> grid[a]
        [] a \notin DOMAIN grid /\ b \in DOMAIN grid -> grid[b]
        [] OTHER -> 0

\* coded_block_flag of a neighbour; outside the picture 1 for an intra block.
cbf_nb(grid, c, intra) ==
  IF c \notin DOMAIN grid THEN IF intra THEN 1 ELSE 0
  ELSE IF grid[c] > 0 THEN 1 ELSE 0

\* The Intra4x4 predictor: the smaller of the left and top modes, DC at the edge.
i4_predictor(i4, c) ==
  IF c[1] = 0 \/ c[2] = 0 THEN 2
  ELSE LET a == i4[<<c[1] - 1, c[2]>>]  b == i4[<<c[1], c[2] - 1>>]
       IN  IF a < b THEN a ELSE b
=============================================================================
