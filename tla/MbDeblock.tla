----------------------------- MODULE MbDeblock -----------------------------
(***************************************************************************)
(* Which edges of a macroblock the in-loop filter works on, how strongly   *)
(* and at which quantiser, derived from the frame-wide grids the coding    *)
(* of the macroblocks left behind (src/src/encoder/deblock.c and           *)
(* src/src/dsp/deblock.c).  The filter's arithmetic is left out.           *)
(***************************************************************************)
EXTENDS MbGrid

\* Under the 8x8 transform a block is coded when its quadrant is.
bs_coeff(g, c) ==
  LET owner == <<c[1] \div 4, c[2] \div 4>>
      fold == IF g.tr8[owner] = 0 THEN {c}
              ELSE {<<x, y>> \in ((c[1] - (c[1] % 2)) .. (c[1] - (c[1] % 2) + 1)) \X
                                 ((c[2] - (c[2] % 2)) .. (c[2] - (c[2] % 2) + 1)) : TRUE}
  IN  \E k \in fold : g.nnz[k] > 0

\* The strength between two blocks: by list membership, reference index and
\* vector distance of the lists both use.
bs_of(g, p, q, mb_edge) ==
  LET ref(c, l) == g.mot[l].ref[c]
      uses(c) == {l \in 1..2 : ref(c, l) >= 0}
      apart(l) == \/ ref(p, l) # ref(q, l)
                  \/ Abs(g.mot[l].mv[p] - g.mot[l].mv[q]) >= 4
  IN  CASE uses(p) = {} \/ uses(q) = {} -> IF mb_edge THEN 4 ELSE 3
        [] bs_coeff(g, p) \/ bs_coeff(g, q) -> 2
        [] uses(p) # uses(q) -> 1
        [] \E l \in uses(p) : apart(l) -> 1
        [] OTHER -> 0

\* <<vertical?, edge, segment>> -> strength; in an I slice a constant.
Edges == BOOLEAN \X (0..3) \X (0..3)
SideCells(mb, e) ==
  LET q == IF e[1] THEN <<4 * mb[1] + e[2], 4 * mb[2] + e[3]>>
           ELSE <<4 * mb[1] + e[3], 4 * mb[2] + e[2]>>
  IN  << IF e[1] THEN <<q[1] - 1, q[2]>> ELSE <<q[1], q[2] - 1>>, q >>
AtPicture(mb, e) == e[2] = 0 /\ (IF e[1] THEN mb[1] ELSE mb[2]) = 0
bs_derive(g, islice, mb) ==
  [e \in Edges |->
     CASE AtPicture(mb, e) -> 0
       [] islice -> IF e[2] = 0 THEN 4 ELSE 3
       [] OTHER -> LET side == SideCells(mb, e) IN bs_of(g, side[1], side[2], e[2] = 0)]

\* The edges filtered, with the average quantiser of the two sides.
deblock_mb(g, islice, mb) ==
  LET bs == bs_derive(g, islice, mb)
      qp == g.mbqp[mb]
      other(e) == IF e[1] THEN <<mb[1] - 1, mb[2]>> ELSE <<mb[1], mb[2] - 1>>
  IN  {<<e, bs[e], IF e[2] = 0 THEN (g.mbqp[other(e)] + qp + 1) \div 2 ELSE qp>> :
         e \in {k \in Edges : bs[k] > 0 /\ ~(g.tr8[mb] = 1 /\ k[2] % 2 = 1)}}
=============================================================================
