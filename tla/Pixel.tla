-------------------------------- MODULE Pixel --------------------------------
(***************************************************************************)
(* The cost kernels of src/src/dsp/pixel.c in the eight-bit build, the     *)
(* vector forms of pixel_neon.c, and the table that chooses between them   *)
(* by what the processor has: differences and transformed differences of   *)
(* two blocks, and texture energies of one.  A block is a matrix.          *)
(***************************************************************************)
EXTENDS Predict, FiniteSets

Sum2(m) == SumOf([y \in DOMAIN m |-> SumOf(m[y], 0, Cardinality(DOMAIN m[y]) - 1)],
                 0, Cardinality(DOMAIN m) - 1)
MagOf(m) == [y \in DOMAIN m |-> [x \in DOMAIN m[y] |-> Mag(m[y][x])]]
Diff(a, b) == [y \in DOMAIN a |-> [x \in DOMAIN a[y] |-> a[y][x] - b[y][x]]]
Part(m, x0, y0, w, h) == [y \in Upto(h) |-> [x \in Upto(w) |-> m[y0 + y][x0 + x]]]
\* The total over the tiles of w x h of an n x n block.
Tiled(F, n, w, h) == Sum2([j \in Upto(n \div h) |-> [i \in Upto(n \div w) |-> F[j][i]]])

---------------------------------------------------------------------------
(* Portable scores. *)

sad_c(a, b) == Sum2(MagOf(Diff(a, b)))
sad_x4_c(src, refs) == [k \in DOMAIN refs |-> sad_c(src, refs[k])]

\* A 32-bit word that carries two signed 16-bit lanes, as <<low, high>>: a
\* negative low lane borrows from the high one.
Word32(v) == <<U16(v), U16(v \div 65536)>>
AddW(a, b) == <<U16(a[1] + b[1]), U16(a[2] + b[2] + (a[1] + b[1]) \div 65536)>>
SubW(a, b) == <<U16(a[1] - b[1]), U16(a[2] - b[2] + (a[1] - b[1]) \div 65536)>>
High(a) == <<0, a[1]>>
SumW(s, from, to) ==
  LET f[k \in (from - 1)..to] == IF k < from THEN <<0, 0>> ELSE AddW(f[k - 1], s[k]) IN f[to]
Y264_HADAMARD4(s) ==
  LET t0 == AddW(s[0], s[1])  t1 == SubW(s[0], s[1])
      t2 == AddW(s[2], s[3])  t3 == SubW(s[2], s[3])
  IN  <<AddW(t0, t2), AddW(t1, t3), SubW(t0, t2), SubW(t1, t3)>>

satd_abs2(a) ==
  LET s == [k \in 1..2 |-> IF a[k] >= 32768 THEN 65535 ELSE 0]
      t == AddW(a, <<s[1], s[2]>>)
  IN  <<IF s[1] = 0 THEN t[1] ELSE 65535 - t[1], IF s[2] = 0 THEN t[2] ELSE 65535 - t[2]>>
\* Mutant: the high lane is read without what the low one borrowed from it.
satd_lane_absum_NoBorrow(v) == Mag(S16(v[1])) + Mag(S16(v[2]))
satd_lane_absum(v) == Mag(S16(v[1])) + Mag(S16(U16(v[2] + v[1] \div 32768)))

\* Columns first; the second step of each packs two rows into a word.
satd4x4_core(a, b) ==
  LET c(x) == [y \in 0..3 |-> Word32(a[y][x] - b[y][x])]
      w == [x \in 0..3 |->
              LET d == c(x)
                  u0 == AddW(AddW(d[0], d[1]), High(SubW(d[0], d[1])))
                  u1 == AddW(AddW(d[2], d[3]), High(SubW(d[2], d[3])))
              IN  <<AddW(u0, u1), SubW(u0, u1)>>]
      part == [j \in 0..1 |-> Y264_HADAMARD4([x \in 0..3 |-> w[x][j + 1]])]
  IN  SumOf([k \in 0..7 |-> satd_lane_absum(part[k \div 4][1 + (k % 4)])], 0, 7)
\* Two tiles side by side, one in each lane; the sum of magnitudes stays packed.
satd8x4_core(a, b) ==
  LET rows == [y \in 0..3 |-> Y264_HADAMARD4([x \in 0..3 |->
                 AddW(Word32(a[y][x] - b[y][x]), High(Word32(a[y][x + 4] - b[y][x + 4])))])]
      cols == [i \in 0..3 |-> Y264_HADAMARD4([y \in 0..3 |-> rows[y][i + 1]])]
      sum == SumW([k \in 0..15 |-> satd_abs2(cols[k \div 4][1 + (k % 4)])], 0, 15)
  IN  sum[1] + sum[2]
satd_c(a, b, n) ==
  Tiled([j \in Upto(n \div 4) |-> [i \in Upto(n \div 8) |->
           satd8x4_core(Part(a, 8 * i, 4 * j, 8, 4), Part(b, 8 * i, 4 * j, 8, 4))]], n, 8, 4)

had8(in) ==
  LET a == [k \in 0..7 |-> IF k < 4 THEN in[k] + in[k + 4] ELSE in[k - 4] - in[k]]
      b == [k \in 0..7 |-> IF k % 4 < 2 THEN a[k] + a[k + 2] ELSE a[k - 2] - a[k]]
  IN  [k \in 0..7 |-> IF k % 2 = 0 THEN b[k] + b[k + 1] ELSE b[k - 1] - b[k]]
Hadamard8(m) == LET rows == [y \in 0..7 |-> had8(m[y])]
                    cols == Transpose(rows)
                IN  [x \in 0..7 |-> had8(cols[x])]
sa8d_c_8x8(a, b) == Shr(Sum2(MagOf(Hadamard8(Diff(a, b)))) + 2, 2)
hadamard_ac_c_8x8(p) == LET m == Hadamard8(p) IN Sum2(MagOf(m)) - Mag(m[0][0])

\* What a flat block of the tile's rounded mean leaves of its DC.
FlatGap(dc) == Mag(dc - 16 * Shr(dc + 8, 4))
ac4_tile(b) ==
  LET rows == [y \in 0..3 |-> LET r == b[y]
                                  s0 == r[0] + r[1]  d0 == r[0] - r[1]
                                  s1 == r[2] + r[3]  d1 == r[2] - r[3]
                              IN  Zero(<<s0 + s1, d0 + d1, s0 - s1, d0 - d1>>)]
      col(x) == LET s0 == rows[0][x] + rows[1][x]  d0 == rows[0][x] - rows[1][x]
                    s1 == rows[2][x] + rows[3][x]  d1 == rows[2][x] - rows[3][x]
                IN  Zero(<<s0 + s1, d0 + d1, s0 - s1, d0 - d1>>)
      m == [x \in 0..3 |-> col(x)]
  IN  Sum2(MagOf(m)) - m[0][0] + FlatGap(m[0][0])
texture_ac4_c_16x16(p) ==
  Tiled([j \in 0..3 |-> [i \in 0..3 |-> ac4_tile(Part(p, 4 * i, 4 * j, 4, 4))]], 16, 4, 4)

\* Both energies of one 8x8 quadrant from the packed coefficients of its four
\* tiles: the low lane carries the even horizontal frequencies.
PackedTile(b) ==
  LET tmp == [y \in 0..3 |->
                LET a0 == AddW(Word32(b[y][0] + b[y][1]), High(Word32(b[y][0] - b[y][1])))
                    a1 == AddW(Word32(b[y][2] + b[y][3]), High(Word32(b[y][2] - b[y][3])))
                IN  <<AddW(a0, a1), SubW(a0, a1)>>]
      half == [i \in 1..2 |-> Y264_HADAMARD4([y \in 0..3 |-> tmp[y][i]])]
  IN  [k \in 0..7 |-> half[1 + k \div 4][1 + (k % 4)]]
Quadrant48(q) ==
  LET co == [t \in 0..3 |-> PackedTile(Part(q, 4 * (t % 2), 4 * (t \div 2), 4, 4))]
      Lanes(s) == s[1] + s[2]
      tile(t) == LET dc == co[t][0][1]
                 IN  Lanes(SumW([k \in 0..7 |-> satd_abs2(co[t][k])], 0, 7)) - dc + FlatGap(dc)
      eight == SumW([k \in 0..7 |->
                 SumW([i \in 1..4 |->
                   satd_abs2(Y264_HADAMARD4([t \in 0..3 |-> co[t][k]])[i])], 1, 4)], 0, 7)
      dc8 == AddW(AddW(co[0][0], co[1][0]), AddW(co[2][0], co[3][0]))[1]
  IN  <<SumOf([t \in 0..3 |-> tile(t)], 0, 3), Lanes(eight) - dc8>>
Quadrants(p) == [k \in 0..3 |-> Part(p, 8 * (k % 2), 8 * (k \div 2), 8, 8)]
texture_ac48_c_16x16(p) ==
  LET e == [k \in 0..3 |-> Quadrant48(Quadrants(p)[k])]
  IN  <<SumOf([k \in 0..3 |-> e[k][1]], 0, 3), SumOf([k \in 0..3 |-> e[k][2]], 0, 3)>>

var_c_16x16(p) == <<Sum2(p), Sum2([y \in DOMAIN p |-> [x \in DOMAIN p[y] |-> p[y][x]^2]])>>
Modes4 == <<"VERT", "HORIZ", "DC", "DDL", "DDR", "VR", "HD", "VL", "HU">>
intra4x4_x9_c(src, nb) == [m \in 1..9 |-> satd4x4_core(src, y264_intra4x4_c(nb, Modes4[m]))]
intra_satd_x3_16_c(src, top, left, dc) ==
  << satd_c(src, [y \in Upto(16) |-> [x \in Upto(16) |-> top[x]]], 16),
     satd_c(src, [y \in Upto(16) |-> [x \in Upto(16) |-> left[y]]], 16),
     satd_c(src, Block(16, 16, dc), 16) >>

---------------------------------------------------------------------------
(* Vector forms (pixel_neon.c).                                            *)
(* Absolute and squared differences.  A 16-byte register holds a row of    *)
(* sixteen or two rows of eight.                                           *)

RowsPer(a) == IF 15 \in DOMAIN a[0] THEN 1 ELSE 2
AbsDiffRegs(a, b) ==
  LET n == RowsPer(a)
      At(k, i) == IF n = 1 THEN Mag(a[k][i] - b[k][i])
                  ELSE Mag(a[2 * k + i \div 8][i % 8] - b[2 * k + i \div 8][i % 8])
  IN  [k \in Upto(Cardinality(DOMAIN a) \div n) |-> [i \in 0..15 |-> At(k, i)]]

\* Pairwise sums of bytes into 16-bit lanes, in n separate chains of registers
\* so that none waits for another; then all lanes, in 16 bits again.
Padal(regs, c, n) ==
  [i \in 0..7 |->
     U16(SumOf([k \in DOMAIN regs |-> IF k % n = c THEN regs[k][2 * i] + regs[k][2 * i + 1] ELSE 0],
               0, Cardinality(DOMAIN regs) - 1))]
ChainedSum(regs, n) ==
  LET s == [c \in Upto(n) |-> Padal(regs, c, n)]
      lanes == [i \in 0..7 |-> U16(SumOf([c \in Upto(n) |-> s[c][i]], 0, n - 1))]
  IN  U16(SumOf(lanes, 0, 7))
sad_16xh_neon(a, b) == ChainedSum(AbsDiffRegs(a, b), 4)
sad_8xh_neon(a, b) == ChainedSum(AbsDiffRegs(a, b), 2)
sad_x4_neon(src, refs) == [k \in DOMAIN refs |-> ChainedSum(AbsDiffRegs(src, refs[k]), 1)]
\* The dot product with ones sums four bytes into a 32-bit lane.
SumRegs(regs) == Sum2(regs)
sad_dotprod(a, b) == SumRegs(AbsDiffRegs(a, b))
y264_ssd_neon(a, b) ==
  LET regs == AbsDiffRegs(a, b)
  IN  Sum2([k \in DOMAIN regs |-> [i \in 0..15 |-> U16(regs[k][i] * regs[k][i])]])
y264_var_16x16_neon(p) ==
  << ChainedSum([k \in DOMAIN p |-> p[k]], 1), Sum2([y \in DOMAIN p |-> [x \in DOMAIN p[y] |-> U16(p[y][x]^2)]]) >>
y264_var_16x16_neon_dotprod(p) ==
  << Sum2(p), Sum2([y \in DOMAIN p |-> [x \in DOMAIN p[y] |-> p[y][x]^2]]) >>

---------------------------------------------------------------------------
(* Transformed differences.  The last butterfly and the sum of magnitudes  *)
(* are one maximum: |a + b| + |a - b| = 2 max(|a|, |b|).                   *)

VAdd(a, b) == [i \in DOMAIN a |-> Add16(a[i], b[i])]
VSub(a, b) == [i \in DOMAIN a |-> Sub16(a[i], b[i])]
VMaxAbs(a, b) == [i \in DOMAIN a |-> IF Mag(a[i]) > Mag(b[i]) THEN Mag(a[i]) ELSE Mag(b[i])]
VAddU(a, b) == [i \in DOMAIN a |-> U16(a[i] + b[i])]

\* A butterfly between registers d apart; a transpose of lane pairs between
\* neighbours.
SUMSUB8(v, d) ==
  [k \in DOMAIN v |-> IF (k \div d) % 2 = 0 THEN VAdd(v[k], v[k + d]) ELSE VSub(v[k - d], v[k])]
TrnWords(v) == [k \in DOMAIN v |-> IF k % 2 = 0 THEN Trn1(2, v[k], v[k + 1]) ELSE Trn2(2, v[k - 1], v[k])]

\* Columns, then the first step along the rows; what the last step would pair
\* is in the same lane of two registers.
HalfHadamard(r) == TrnWords(SUMSUB8(TrnStep(1, SUMSUB8(SUMSUB8(r, 1), 2)), 1))
FoldLast(q) == VAddU(VMaxAbs(q[0], q[1]), VMaxAbs(q[2], q[3]))
satd_4rows_half(r) == FoldLast(HalfHadamard(r))
LaneTotal(v, from, to) == SumOf(v, from, to)

RowsOf(m, first) == [k \in 0..3 |-> m[first + k]]
y264_satd_4x4_neon(a, b) == 2 * LaneTotal(satd_4rows_half(Diff(a, b)), 0, 3)
y264_satd_8x8_neon(a, b) ==
  LET d == Diff(a, b)
  IN  2 * LaneTotal(VAddU(satd_4rows_half(RowsOf(d, 0)), satd_4rows_half(RowsOf(d, 4))), 0, 7)
y264_satd_16x16_neon_ded(a, b) ==
  Tiled([j \in 0..1 |-> [i \in 0..1 |->
           y264_satd_8x8_neon(Part(a, 8 * i, 8 * j, 8, 8), Part(b, 8 * i, 8 * j, 8, 8))]], 16, 8, 8)

\* Three steps down the columns, a transpose, two steps along the rows and
\* the maximum in place of the third.
sa8d_half_core(v) ==
  LET u == SUMSUB8(SUMSUB8(TRN8_S16(SUMSUB8(SUMSUB8(SUMSUB8(v, 1), 2), 4)), 1), 2)
      m == [k \in 0..3 |-> VMaxAbs(u[k], u[k + 4])]
  IN  LaneTotal(VAddU(VAddU(m[0], m[1]), VAddU(m[2], m[3])), 0, 7)
y264_sa8d_8x8_neon(a, b) == Shr(2 * sa8d_half_core(Diff(a, b)) + 2, 2)
y264_hadamard_ac_8x8_neon(p) == 2 * sa8d_half_core(p) - Sum2(p)

\* Two tiles per pass: the left in lanes 0-3, the right in lanes 4-7.
TilePair(p, i, j) ==
  LET q == Part(p, 8 * i, 4 * j, 8, 4)
      m == satd_4rows_half(q)
      Energy(side) == LET dc == Sum2(Part(q, 4 * side, 0, 4, 4))
                      IN  2 * LaneTotal(m, 4 * side, 4 * side + 3) - dc + FlatGap(dc)
  IN  Energy(0) + Energy(1)
y264_texture_ac4_16x16_neon(p) == Tiled([j \in 0..3 |-> [i \in 0..1 |-> TilePair(p, i, j)]], 16, 8, 4)

\* All sixteen coefficients of two tiles, and the butterfly across tiles: down
\* by a vector sum, along by the maximum of a vector's halves.
tile4_coefs(r) == SUMSUB8(HalfHadamard(r), 1)
HalvesMax(a, b) ==
  [i \in 0..7 |-> LET lo == IF i < 4 THEN Mag(a[i]) ELSE Mag(b[i - 4])
                      hi == IF i < 4 THEN Mag(a[i + 4]) ELSE Mag(b[i])
                  IN  IF lo > hi THEN lo ELSE hi]
QuadrantOf(ct, cb) ==
  LET \* Magnitudes gather in signed 16-bit lanes, read back as unsigned.
      t4 == [i \in 0..7 |-> U16(S16(SumOf([k \in 0..3 |-> Mag(ct[k][i]) + Mag(cb[k][i])], 0, 3)))]
      Pair(k) == VAddU(HalvesMax(VAdd(ct[k], cb[k]), VAdd(ct[k + 1], cb[k + 1])),
                       HalvesMax(VSub(ct[k], cb[k]), VSub(ct[k + 1], cb[k + 1])))
      dc == <<ct[0][0], ct[0][4], cb[0][0], cb[0][4]>>
  IN  [a4 |-> SumOf(t4, 0, 7), a8 |-> SumOf(VAddU(Pair(0), Pair(2)), 0, 7), dc |-> SumOf(dc, 1, 4),
       corr |-> SumOf([t \in 1..4 |-> FlatGap(dc[t])], 1, 4)]
NeonQuadrant(q) == QuadrantOf(tile4_coefs(RowsOf(q, 0)), tile4_coefs(RowsOf(q, 4)))
TextureSums(e) ==
  LET dc == SumOf([k \in 0..3 |-> e[k].dc], 0, 3)
  IN  << SumOf([k \in 0..3 |-> e[k].a4], 0, 3) - dc + SumOf([k \in 0..3 |-> e[k].corr], 0, 3),
         2 * SumOf([k \in 0..3 |-> e[k].a8], 0, 3) - dc >>
y264_texture_ac48_16x16_neon(p) == TextureSums([k \in 0..3 |-> NeonQuadrant(Quadrants(p)[k])])

---------------------------------------------------------------------------
(* Costs of intra modes without building each prediction.                  *)

\* One look-up table of 64 bytes (filtered, averaged, plain, DC) over the edge
\* l3 l3 l2 l1 l0 corner t0..t7 t7.., and per mode sixteen indices into it.
i4_x9_idx ==
  << << 38, 39, 40, 41, 38, 39, 40, 41, 38, 39, 40, 41, 38, 39, 40, 41 >>,
     << 36, 36, 36, 36, 35, 35, 35, 35, 34, 34, 34, 34, 33, 33, 33, 33 >>,
     << 48, 48, 48, 48, 48, 48, 48, 48, 48, 48, 48, 48, 48, 48, 48, 48 >>,
     << 6, 7, 8, 9, 7, 8, 9, 10, 8, 9, 10, 11, 9, 10, 11, 12 >>,
     << 4, 5, 6, 7, 3, 4, 5, 6, 2, 3, 4, 5, 1, 2, 3, 4 >>,
     << 21, 22, 23, 24, 4, 5, 6, 7, 3, 21, 22, 23, 2, 4, 5, 6 >>,
     << 20, 4, 5, 6, 19, 3, 20, 4, 18, 2, 19, 3, 17, 1, 18, 2 >>,
     << 22, 23, 24, 25, 6, 7, 8, 9, 23, 24, 25, 26, 7, 8, 9, 10 >>,
     << 19, 2, 18, 1, 18, 1, 17, 0, 17, 0, 33, 33, 33, 33, 33, 33 >> >>
X9Table(nb) ==
  LET t == TopRight(nb, 4)
      l == Left(nb, 4)
      E == [i \in 0..23 |-> CASE i = 0 -> l[3] [] i \in 1..4 -> l[4 - i] [] i = 5 -> RawCorner(nb)
                              [] i \in 6..13 -> t[i - 6] [] i > 13 -> t[7]]
      dc == DcOf(nb, SumOf(t, 0, 3), SumOf(l, 0, 3), 2)
  IN  [k \in 0..63 |-> LET i == k % 16
                       IN  CASE k < 16 -> F121(E[i], E[i + 1], E[i + 2])
                             [] k \in 16..31 -> rhadd(E[i], E[i + 1])
                             [] k \in 32..47 -> E[i]
                             [] k > 47 -> dc]
\* Two predictions of four rows side by side, against the source twice.
satd_pair4x4(pa, pb, src) ==
  LET d == [y \in 0..3 |-> [i \in 0..7 |-> (IF i < 4 THEN pa ELSE pb)[y][i % 4] - src[y][i % 4]]]
      m == satd_4rows_half(d)
  IN  <<2 * LaneTotal(m, 0, 3), 2 * LaneTotal(m, 4, 7)>>
y264_intra4x4_x9_neon(src, nb) ==
  LET tab == X9Table(nb)
      p == [m \in 1..9 |-> [y \in 0..3 |-> [x \in 0..3 |-> tab[i4_x9_idx[m][4 * y + x + 1]]]]]
      pairs == [k \in 0..4 |-> satd_pair4x4(p[2 * k + 1], p[IF k = 4 THEN 9 ELSE 2 * k + 2], src)]
  IN  [m \in 1..9 |-> pairs[(m - 1) \div 2][1 + ((m - 1) % 2)]]

\* Both halves of four rows fold into 16-bit lanes before they widen.
y264_intra_satd_x3_16x16_neon(src, top, left, dc) ==
  LET Score(P(_, _)) ==
        LET d == [y \in Upto(16) |-> [x \in Upto(16) |-> src[y][x] - P(x, y)]]
            Band(j) == VAddU(satd_4rows_half(Part(d, 0, 4 * j, 8, 4)), satd_4rows_half(Part(d, 8, 4 * j, 8, 4)))
        IN  2 * SumOf([j \in 0..3 |-> LaneTotal(Band(j), 0, 7)], 0, 3)
      T(x, y) == top[x]
      L(x, y) == left[y]
      D(x, y) == dc
  IN  <<Score(T), Score(L), Score(D)>>

---------------------------------------------------------------------------
(* The dispatch table: neon and dotprod say what the processor has.        *)

Sad(neon, dotprod, a, b) ==
  LET w == Cardinality(DOMAIN a[0])
      h == Cardinality(DOMAIN a)
  IN  CASE neon /\ dotprod /\ h = 16 -> sad_dotprod(a, b)
        [] neon /\ ~(dotprod /\ h = 16) /\ w = 16 -> sad_16xh_neon(a, b)
        [] neon /\ ~(dotprod /\ h = 16) /\ w = 8 /\ h >= 8 -> sad_8xh_neon(a, b)
        [] OTHER -> sad_c(a, b)
SadX4(neon, src, refs) ==
  IF neon /\ Cardinality(DOMAIN src[0]) >= 8 THEN sad_x4_neon(src, refs) ELSE sad_x4_c(src, refs)
Satd(neon, n, a, b) ==
  CASE neon /\ n = 4 -> y264_satd_4x4_neon(a, b)
    [] neon /\ n = 8 -> y264_satd_8x8_neon(a, b)
    [] neon /\ n = 16 -> y264_satd_16x16_neon_ded(a, b)
    [] ~neon /\ n = 4 -> satd4x4_core(a, b)
    [] ~neon /\ n > 4 -> satd_c(a, b, n)
Sa8d(neon, a, b) == IF neon THEN y264_sa8d_8x8_neon(a, b) ELSE sa8d_c_8x8(a, b)
HadamardAc(neon, p) == IF neon THEN y264_hadamard_ac_8x8_neon(p) ELSE hadamard_ac_c_8x8(p)
TextureAc4(neon, p) == IF neon THEN y264_texture_ac4_16x16_neon(p) ELSE texture_ac4_c_16x16(p)
TextureAc48(neon, p) == IF neon THEN y264_texture_ac48_16x16_neon(p) ELSE texture_ac48_c_16x16(p)
Var(neon, dotprod, p) ==
  CASE neon /\ dotprod -> y264_var_16x16_neon_dotprod(p)
    [] neon /\ ~dotprod -> y264_var_16x16_neon(p)
    [] ~neon -> var_c_16x16(p)
ssd_block(neon, a, b) ==
  IF neon THEN y264_ssd_neon(a, b) ELSE Sum2([y \in DOMAIN a |-> [x \in DOMAIN a[y] |-> (a[y][x] - b[y][x])^2]])
X9(neon, src, nb) == IF neon THEN y264_intra4x4_x9_neon(src, nb) ELSE intra4x4_x9_c(src, nb)
X3(neon, src, top, left, dc) ==
  IF neon THEN y264_intra_satd_x3_16x16_neon(src, top, left, dc) ELSE intra_satd_x3_16_c(src, top, left, dc)
=============================================================================
