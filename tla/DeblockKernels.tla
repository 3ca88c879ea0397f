--------------------------- MODULE DeblockKernels ---------------------------
(***************************************************************************)
(* The arithmetic of the in-loop filter: one line across an edge           *)
(* (src/src/encoder/deblock.c), four or eight lines at once in 16-bit      *)
(* lanes (src/src/dsp/deblock_neon.c), and the boundary strengths of a     *)
(* macroblock edge by edge (src/src/dsp/deblock.c) or eight at once.       *)
(*                                                                         *)
(* A line is its eight samples p3 p2 p1 p0 q0 q1 q2 q3, numbered 0..7.     *)
(***************************************************************************)
EXTENDS Transform

ALPHA == << 0,0,0,0,0,0,0,0,0,0,0,0,0,0,0,0,4,4,5,6,7,8,9,10,12,13,
            15,17,20,22,25,28,32,36,40,45,50,56,63,71,80,90,101,113,
            127,144,162,182,203,226,255,255 >>
BETA == << 0,0,0,0,0,0,0,0,0,0,0,0,0,0,0,0,2,2,2,3,3,3,3,4,4,4,6,6,
           7,7,8,8,9,9,10,10,11,11,12,12,13,13,14,14,15,15,16,16,17,17,18,18 >>
TC0 == [i \in 1..52 |->
  IF i < 18 THEN <<0, 0, 0>>
  ELSE << <<0,0,1>>, <<0,0,1>>, <<0,0,1>>, <<0,0,1>>, <<0,1,1>>, <<0,1,1>>, <<1,1,1>>, <<1,1,1>>,
          <<1,1,1>>, <<1,1,1>>, <<1,1,2>>, <<1,1,2>>, <<1,1,2>>, <<1,1,2>>, <<1,2,3>>, <<1,2,3>>,
          <<2,2,3>>, <<2,2,4>>, <<2,3,4>>, <<2,3,4>>, <<3,3,5>>, <<3,4,6>>, <<3,4,6>>, <<4,5,7>>,
          <<4,5,8>>, <<4,6,9>>, <<5,7,10>>, <<6,8,11>>, <<6,8,13>>, <<7,10,14>>, <<8,11,16>>, <<9,12,18>>,
          <<10,13,20>>, <<11,15,23>>, <<13,17,25>> >>[i - 17]]
tc0_of(q, bs) == TC0[q + 1][IF bs < 4 THEN bs ELSE 1]
clip3(lo, hi, v) == IF v < lo THEN lo ELSE IF v > hi THEN hi ELSE v

---------------------------------------------------------------------------
(* One line. *)

filter_line(s, bs, alpha, beta, tc0, chroma) ==
  LET p3 == s[0]  p2 == s[1]  p1 == s[2]  p0 == s[3]
      q0 == s[4]  q1 == s[5]  q2 == s[6]  q3 == s[7]
      on == Mag(p0 - q0) < alpha /\ Mag(p1 - p0) < beta /\ Mag(q1 - q0) < beta
      ap == Mag(p2 - p0) < beta
      aq == Mag(q2 - q0) < beta
      tc == IF chroma THEN tc0 + 1 ELSE tc0 + (IF ap THEN 1 ELSE 0) + (IF aq THEN 1 ELSE 0)
      delta == clip3(-tc, tc, Shr((q0 - p0) * 4 + (p1 - q1) + 4, 3))
      Second(far, near) == near + clip3(-tc0, tc0, Shr(far + (p0 + q0 + 1) \div 2 - 2 * near, 1))
      normal == [s EXCEPT ![3] = clip1p(p0 + delta), ![4] = clip1p(q0 - delta),
                          ![2] = IF ~chroma /\ ap THEN Second(p2, p1) ELSE @,
                          ![5] = IF ~chroma /\ aq THEN Second(q2, q1) ELSE @]
      strong == Mag(p0 - q0) < alpha \div 4 + 2
      P == ~chroma /\ ap /\ strong
      Q == ~chroma /\ aq /\ strong
      full == [s EXCEPT
        ![3] = IF P THEN (p2 + 2 * p1 + 2 * p0 + 2 * q0 + q1 + 4) \div 8 ELSE (2 * p1 + p0 + q1 + 2) \div 4,
        ![2] = IF P THEN (p2 + p1 + p0 + q0 + 2) \div 4 ELSE @,
        ![1] = IF P THEN (2 * p3 + 3 * p2 + p1 + p0 + q0 + 4) \div 8 ELSE @,
        ![4] = IF Q THEN (q2 + 2 * q1 + 2 * q0 + 2 * p0 + p1 + 4) \div 8 ELSE (2 * q1 + q0 + p1 + 2) \div 4,
        ![5] = IF Q THEN (q2 + q1 + q0 + p0 + 2) \div 4 ELSE @,
        ![6] = IF Q THEN (2 * q3 + 3 * q2 + q1 + q0 + p0 + 4) \div 8 ELSE @]
  IN  IF ~on THEN s ELSE IF bs < 4 THEN normal ELSE full

---------------------------------------------------------------------------
(* Four luma lines of one strength: sample k of line i is s[k][i], and     *)
(* every condition is a mask that chooses between results computed anyway. *)

LaneClip(tc, d) == clip3(-tc, tc, d)
LumaLane(s, bs, alpha, beta, tc0) ==
  LET p3 == s[0]  p2 == s[1]  p1 == s[2]  p0 == s[3]
      q0 == s[4]  q1 == s[5]  q2 == s[6]  q3 == s[7]
      filt == Mag(p0 - q0) < alpha /\ Mag(p1 - p0) < beta /\ Mag(q1 - q0) < beta
      apb == Mag(p2 - p0) < beta
      aqb == Mag(q2 - q0) < beta
      tc == tc0 + (IF apb THEN 1 ELSE 0) + (IF aqb THEN 1 ELSE 0)
      d == LaneClip(tc, Shr(S16(S16(4 * (q0 - p0)) + (p1 - q1) + 4), 3))
      av == (p0 + q0 + 1) \div 2
      weak == << p2,
                 IF filt /\ apb THEN p1 + LaneClip(tc0, Shr(p2 + av - 2 * p1, 1)) ELSE p1,
                 IF filt THEN clip1p(p0 + d) ELSE p0,
                 IF filt THEN clip1p(q0 - d) ELSE q0,
                 IF filt /\ aqb THEN q1 + LaneClip(tc0, Shr(q2 + av - 2 * q1, 1)) ELSE q1,
                 q2 >>
      strong == Mag(p0 - q0) < alpha \div 4 + 2
      sp == filt /\ strong /\ apb
      sq == filt /\ strong /\ aqb
      pq == p0 + q0
      Pick0(full, near, far, other, third) ==
        IF full THEN Shr(third + other + 2 * (near + pq) + 4, 3) ELSE Shr(2 * near + far + other + 2, 2)
      hard == << IF sp THEN Shr(2 * p3 + (2 * p2 + p2) + (p1 + pq) + 4, 3) ELSE p2,
                 IF sp THEN Shr(p2 + p1 + pq + 2, 2) ELSE p1,
                 IF filt THEN Pick0(sp, p1, p0, q1, p2) ELSE p0,
                 IF filt THEN Pick0(sq, q1, q0, p1, q2) ELSE q0,
                 IF sq THEN Shr(q2 + q1 + pq + 2, 2) ELSE q1,
                 IF sq THEN Shr(2 * q3 + (2 * q2 + q2) + (q1 + pq) + 4, 3) ELSE q2 >>
  IN  IF bs < 4 THEN weak ELSE hard
db_luma4_core(s, bs, alpha, beta, tc0) ==
  LET lane == [i \in 0..3 |-> LumaLane(Lane(s, i), bs, alpha, beta, tc0)]
  IN  [k \in 0..5 |-> [i \in 0..3 |-> lane[i][k + 1]]]

\* A horizontal edge has its lines in the lanes already: eight rows of four
\* samples, of which the six inner ones are written back.
y264_deblock_luma_h4_neon(rows, bs, alpha, beta, tc0) ==
  LET o == db_luma4_core(rows, bs, alpha, beta, tc0)
  IN  [k \in 0..7 |-> IF k \in 1..6 THEN [i \in 0..3 |-> clip1p(o[k - 1][i])] ELSE rows[k]]

\* A vertical edge: four rows of eight samples become the packed columns
\* {c0,c4} {c1,c5} {c2,c6} {c3,c7}, and the same network leads back.
DB_TRN4x8(v) == TrnStep(2, TrnStep(1, v))
y264_deblock_luma_v4_neon(rows, bs, alpha, beta, tc0) ==
  LET v == DB_TRN4x8(rows)
      s == [k \in 0..7 |-> [i \in 0..3 |-> v[k % 4][4 * (k \div 4) + i]]]
      o == db_luma4_core(s, bs, alpha, beta, tc0)
      new(k) == IF k \in 1..6 THEN o[k - 1] ELSE s[k]
      back == DB_TRN4x8([k \in 0..3 |-> [i \in 0..7 |-> new(k + 4 * (i \div 4))[i % 4]]])
  IN  [y \in 0..3 |-> [x \in 0..7 |-> IF x \in 1..6 THEN clip1p(back[y][x]) ELSE rows[y][x]]]

---------------------------------------------------------------------------
(* Eight chroma lines across a horizontal edge, each with its own          *)
(* strength: group g of eight of the bS entries, span lines to an entry.   *)
(* A line without a strength is clipped to itself.                         *)

db_chroma8_params(bs, tc0tab, span, g) ==
  [i \in 0..7 |->
     LET b == bs[1 + (8 * g + i) \div span]
     IN  [tc |-> IF b = 0 \/ b >= 4 THEN 0 ELSE tc0tab[b] + 1, bs4 |-> b >= 4]]
db_chroma8_core(p1, p0, q0, q1, alpha, beta, lane) ==
  LET filt == Mag(p0 - q0) < alpha /\ Mag(p1 - p0) < beta /\ Mag(q1 - q0) < beta
      d == LaneClip(lane.tc, Shr(S16(S16(4 * (q0 - p0)) + (p1 - q1) + 4), 3))
  IN  << IF filt THEN IF lane.bs4 THEN Shr(2 * p1 + p0 + q1 + 2, 2) ELSE clip1p(p0 + d) ELSE p0,
         IF filt THEN IF lane.bs4 THEN Shr(2 * q1 + q0 + p1 + 2, 2) ELSE clip1p(q0 - d) ELSE q0 >>
y264_deblock_chroma8_h_neon(rows, alpha, beta, bs, tc0tab, span, g) ==
  LET par == db_chroma8_params(bs, tc0tab, span, g)
      o == [i \in 0..7 |->
              db_chroma8_core(rows[2][i], rows[3][i], rows[4][i], rows[5][i], alpha, beta, par[i])]
  IN  [k \in 0..7 |-> [i \in 0..7 |-> IF k \in {3, 4} THEN o[i][k - 2] ELSE rows[k][i]]]

---------------------------------------------------------------------------
(* The edges of deblock_mb, the processor having vectors or not. *)

LumaVertical(neon, rows, bs, q) ==
  IF neon THEN y264_deblock_luma_v4_neon(rows, bs, ALPHA[q + 1], BETA[q + 1], tc0_of(q, bs))
  ELSE [y \in 0..3 |-> filter_line(rows[y], bs, ALPHA[q + 1], BETA[q + 1], tc0_of(q, bs), FALSE)]
LumaHorizontal(neon, rows, bs, q) ==
  IF neon THEN y264_deblock_luma_h4_neon(rows, bs, ALPHA[q + 1], BETA[q + 1], tc0_of(q, bs))
  ELSE Transpose([x \in 0..3 |->
         filter_line(Lane(rows, x), bs, ALPHA[q + 1], BETA[q + 1], tc0_of(q, bs), FALSE)])
ChromaHorizontal(neon, rows, bs, q, span, g) ==
  LET Line(x) == LET b == bs[1 + (8 * g + x) \div span]
                 IN  IF b = 0 THEN Lane(rows, x)
                     ELSE filter_line(Lane(rows, x), b, ALPHA[q + 1], BETA[q + 1], tc0_of(q, b), TRUE)
  IN  IF neon THEN y264_deblock_chroma8_h_neon(rows, ALPHA[q + 1], BETA[q + 1], bs, TC0[q + 1], span, g)
      ELSE Transpose([x \in 0..7 |-> Line(x)])

---------------------------------------------------------------------------
(* Boundary strengths.  A context c holds, for the cells <<dx, dy>> of the *)
(* macroblock and of the column and row before it, cell[<<dx, dy>>] with   *)
(* both reference indices and vectors, the count nnz of each block (two    *)
(* columns and rows further), the transform flags tr8 of this macroblock,  *)
(* its left and its top, and which of the two exist.                       *)

Even(k) == k - (k % 2)
coeff_at(nnz, dx, dy, tr8) ==
  IF tr8 = 0 THEN nnz[<<dx, dy>>] > 0
  ELSE \E x \in Even(dx)..(Even(dx) + 1), y \in Even(dy)..(Even(dy) + 1) : nnz[<<x, y>>] > 0
\* Vectors in quarter samples; a and b are two cells with their coded flag.
strength_of(a, b, mb_edge) ==
  LET Uses(c) == {l \in 0..1 : c.ref[l] >= 0}
      Far(l) == Mag(a.x[l] - b.x[l]) >= 4 \/ Mag(a.y[l] - b.y[l]) >= 4
  IN  CASE Uses(a) = {} \/ Uses(b) = {} -> IF mb_edge THEN 4 ELSE 3
        [] Uses(a) # {} /\ Uses(b) # {} /\ (a.co \/ b.co) -> 2
        [] OTHER -> IF Uses(a) # Uses(b) \/ (\E l \in Uses(a) : a.ref[l] # b.ref[l] \/ Far(l)) THEN 1 ELSE 0
WithCo(c, dx, dy) ==
  LET m == c.cell[<<dx, dy>>]
      tr8 == IF dx < 0 THEN c.tr8_left ELSE IF dy < 0 THEN c.tr8_top ELSE c.tr8_cur
  IN  [ref |-> m.ref, x |-> m.x, y |-> m.y, co |-> coeff_at(c.nnz, dx, dy, tr8)]
\* v[xb][yb] for the edge left of column xb, h[yb][xb] for the one above row yb.
y264_deblock_strength_c(c) ==
  [v |-> [xb \in 0..3 |-> [yb \in 0..3 |->
            IF xb = 0 /\ ~c.have_left THEN 0
            ELSE strength_of(WithCo(c, xb - 1, yb), WithCo(c, xb, yb), xb = 0)]],
   h |-> [yb \in 0..3 |-> [xb \in 0..3 |->
            IF yb = 0 /\ ~c.have_top THEN 0
            ELSE strength_of(WithCo(c, xb, yb - 1), WithCo(c, xb, yb), yb = 0)]]]

\* A side is four cells in lanes; two sides make a register of eight.
db_co_row(nnz, dy, tr8) ==
  LET plain == [i \in 0..3 |-> nnz[<<i, dy>>] > 0]
      both == [i \in 0..3 |-> nnz[<<i, Even(dy)>>] > 0 \/ nnz[<<i, Even(dy) + 1>>] > 0]
      \* the lanes of each pair swapped
      Rev32(t) == [i \in 0..3 |-> t[IF i % 2 = 0 THEN i + 1 ELSE i - 1]]
  IN  IF tr8 = 0 THEN plain ELSE [i \in 0..3 |-> both[i] \/ Rev32(both)[i]]
db_load4(c, dy, dx, co) ==
  [i \in 0..3 |-> LET m == c.cell[<<dx + i, dy>>]
                  IN  [ref |-> m.ref, x |-> m.x, y |-> m.y, co |-> co[i]]]
db_rot4(a) == [i \in 0..3 |-> a[(i + 3) % 4]]
db_pair(a, b) == [i \in 0..7 |-> IF i < 4 THEN a[i] ELSE b[i - 4]]
db_bs8(p, q, edge) ==
  [i \in 0..7 |->
     LET In(s, l) == s[i].ref[l] >= 0
         Absd(a, b) == S16(Mag(a - b))
         intra == (~In(p, 0) /\ ~In(p, 1)) \/ (~In(q, 0) /\ ~In(q, 1))
         Differs(l) == \/ In(p, l) # In(q, l)
                       \/ In(p, l) /\ p[i].ref[l] # q[i].ref[l]
                       \/ In(p, l) /\ (Absd(p[i].x[l], q[i].x[l]) >= 4 \/ Absd(p[i].y[l], q[i].y[l]) >= 4)
         one == IF Differs(0) \/ Differs(1) THEN 1 ELSE 0
         coded == IF p[i].co \/ q[i].co THEN 2 ELSE one
     IN  IF intra THEN IF i \in edge THEN 4 ELSE 3 ELSE coded]
y264_deblock_strength_neon(c) ==
  LET co == [y \in -1..3 |-> IF y >= 0 THEN db_co_row(c.nnz, y, c.tr8_cur)
                             ELSE IF c.have_top THEN db_co_row(c.nnz, -1, c.tr8_top)
                             ELSE db_co_row(c.nnz, 0, c.tr8_cur)]
      hi == [y \in -1..3 |-> db_load4(c, IF y = -1 /\ ~c.have_top THEN 0 ELSE y, 0, co[y])]
      Shifted(y) == [i \in 0..3 |-> IF i = 0 THEN coeff_at(c.nnz, -1, y, c.tr8_left) ELSE co[y][i - 1]]
      lo == [y \in 0..3 |-> IF c.have_left THEN db_load4(c, y, -1, Shifted(y)) ELSE db_rot4(hi[y])]
      \* Two rows of four vertical edges per register; stored edge by edge.
      rows == [k \in 0..1 |-> db_bs8(db_pair(lo[2 * k], lo[2 * k + 1]), db_pair(hi[2 * k], hi[2 * k + 1]), {0, 4})]
      above == [k \in 0..1 |-> db_bs8(db_pair(hi[2 * k - 1], hi[2 * k]), db_pair(hi[2 * k], hi[2 * k + 1]),
                                      IF k = 0 THEN 0..3 ELSE {})]
  IN  [v |-> [xb \in 0..3 |-> [yb \in 0..3 |->
                IF xb = 0 /\ ~c.have_left THEN 0 ELSE rows[yb \div 2][4 * (yb % 2) + xb]]],
       h |-> [yb \in 0..3 |-> [xb \in 0..3 |->
                IF yb = 0 /\ ~c.have_top THEN 0 ELSE above[yb \div 2][4 * (yb % 2) + xb]]]]
Strengths(neon, c) == IF neon THEN y264_deblock_strength_neon(c) ELSE y264_deblock_strength_c(c)
=============================================================================
