----------------------------- MODULE Transform -----------------------------
(***************************************************************************)
(* The transforms, quantisers and scans of src/src/dsp/transform.c in the  *)
(* eight-bit build, and the vector forms of transform_neon.c that replace  *)
(* them on a processor that has them.  A block is a matrix of rows,        *)
(* block[y][x], both counted from zero; the code keeps it flat in raster   *)
(* order.  dctcoef is int16_t in this build, and every store into one goes *)
(* through S16.  A register is a function from lanes to integers: a 16-bit *)
(* lane wraps at every sum and difference, a 32-bit lane holds every value *)
(* that occurs here exactly.                                               *)
(***************************************************************************)
EXTENDS Integers, Sequences

Upto(n) == 0..(n - 1)
Transpose(m) == [x \in UNION {DOMAIN m[y] : y \in DOMAIN m} |-> [y \in DOMAIN m |-> m[y][x]]]
Size(m) == IF 7 \in DOMAIN m THEN 8 ELSE 4

\* A store into dctcoef, and an arithmetic shift right.
S16(v) == ((v + 32768) % 65536) - 32768
Store(m) == [y \in DOMAIN m |-> [x \in DOMAIN m[y] |-> S16(m[y][x])]]
Shr(v, n) == v \div 2^n
Mag(v) == IF v < 0 THEN -v ELSE v
Signed(v, q) == IF v < 0 THEN -q ELSE q
clip1p(v) == IF v < 0 THEN 0 ELSE IF v > 255 THEN 255 ELSE v

---------------------------------------------------------------------------
(* Scaling matrices and scans. *)

y264_zigzag4 == <<0, 1, 4, 8, 5, 2, 3, 6, 9, 12, 13, 10, 7, 11, 14, 15>>
y264_zigzag8 ==
  << 0,  1,  8, 16,  9,  2,  3, 10, 17, 24, 32, 25, 18, 11,  4,  5,
    12, 19, 26, 33, 40, 48, 41, 34, 27, 20, 13,  6,  7, 14, 21, 28,
    35, 42, 49, 56, 57, 50, 43, 36, 29, 22, 15, 23, 30, 37, 44, 51,
    58, 59, 52, 45, 38, 31, 39, 46, 53, 60, 61, 54, 47, 55, 62, 63>>
Zigzag(n) == IF n = 4 THEN y264_zigzag4 ELSE y264_zigzag8

\* The coefficient at a raster index, and the block in scan order (1-based).
AtRaster(m, i) == m[i \div Size(m)][i % Size(m)]
Scanned(m) == [k \in 1..Size(m)^2 |-> AtRaster(m, Zigzag(Size(m))[k])]

JVT4_INTRA == <<6, 13, 13, 20, 20, 20, 28, 28, 28, 28, 32, 32, 32, 37, 37, 42>>
JVT4_INTER == <<10, 14, 14, 20, 20, 20, 24, 24, 24, 24, 27, 27, 27, 30, 30, 34>>
JVT8_INTRA ==
  << 6, 10, 10, 13, 11, 13, 16, 16, 16, 16, 18, 18, 18, 18, 18, 23,
    23, 23, 23, 23, 23, 25, 25, 25, 25, 25, 25, 25, 27, 27, 27, 27,
    27, 27, 27, 27, 29, 29, 29, 29, 29, 29, 29, 31, 31, 31, 31, 33,
    33, 33, 36, 36, 36, 38, 38, 40, 40, 40, 42, 42, 42, 45, 45, 48>>
JVT8_INTER ==
  << 9, 13, 13, 15, 13, 15, 17, 17, 17, 17, 19, 19, 19, 19, 19, 21,
    21, 21, 21, 21, 21, 22, 22, 22, 22, 22, 22, 22, 24, 24, 24, 24,
    24, 24, 24, 24, 25, 25, 25, 25, 25, 25, 25, 27, 27, 27, 27, 28,
    28, 28, 30, 30, 30, 32, 32, 33, 33, 33, 35, 35, 35, 38, 38, 40>>

\* Weights from scan order into raster order; a flat matrix weighs 16.
Unscan(list, n) ==
  [y \in Upto(n) |-> [x \in Upto(n) |->
     list[CHOOSE k \in 1..n^2 : Zigzag(n)[k] = n * y + x]]]
y264_cqm_jvt ==
  [w4 |-> << Unscan(JVT4_INTRA, 4), Unscan(JVT4_INTER, 4) >>,
   w8 |-> << Unscan(JVT8_INTRA, 8), Unscan(JVT8_INTER, 8) >>]
Flat(n) == [y \in Upto(n) |-> [x \in Upto(n) |-> 16]]

---------------------------------------------------------------------------
(* Multipliers by qp % 6 and by the category of the position. *)

MF == << <<13107, 5243, 8066>>, <<11916, 4660, 7490>>, <<10082, 4194, 6554>>,
         <<9362, 3647, 5825>>, <<8192, 3355, 5243>>, <<7282, 2893, 4559>> >>
V  == << <<10, 16, 13>>, <<11, 18, 14>>, <<13, 20, 16>>,
         <<14, 23, 18>>, <<16, 25, 20>>, <<18, 29, 23>> >>
M8 == << <<13107, 12222, 16777, 11428, 20972, 15481>>,
         <<11916, 11058, 14980, 10826, 19174, 14290>>,
         <<10082, 9675, 12710, 8943, 15978, 11985>>,
         <<9362, 8931, 11984, 8228, 14913, 11259>>,
         <<8192, 7740, 10486, 7346, 13159, 9777>>,
         <<7282, 6830, 9118, 6428, 11570, 8640>> >>
V8 == << <<20, 19, 25, 18, 32, 24>>, <<22, 21, 28, 19, 35, 26>>,
         <<26, 24, 33, 23, 42, 31>>, <<28, 26, 35, 25, 45, 33>>,
         <<32, 30, 40, 28, 51, 38>>, <<36, 34, 46, 32, 58, 43>> >>

CAT4 == <<0, 2, 0, 2, 2, 1, 2, 1, 0, 2, 0, 2, 2, 1, 2, 1>>
CAT8 == <<0,1,2,1,0,1,2,1, 1,3,5,3,1,3,5,3, 2,5,4,5,2,5,4,5, 1,3,5,3,1,3,5,3,
          0,1,2,1,0,1,2,1, 1,3,5,3,1,3,5,3, 2,5,4,5,2,5,4,5, 1,3,5,3,1,3,5,3>>
cat_of(n, y, x) == 1 + (IF n = 4 THEN CAT4 ELSE CAT8)[n * y + x + 1]
ForwardMul(n, qp, y, x) == (IF n = 4 THEN MF ELSE M8)[1 + (qp % 6)][cat_of(n, y, x)]
InverseMul(n, qp, y, x) == (IF n = 4 THEN V ELSE V8)[1 + (qp % 6)][cat_of(n, y, x)]

\* A scaling matrix divides the step by 16/w, rounded; w = 16 leaves it.
Weighted(mul, w) == (mul * 16 + w \div 2) \div w

---------------------------------------------------------------------------
(* Transforms: each pass is one dimension applied to every row, then to    *)
(* every column.                                                           *)

Fdct4Line(d) ==
  LET z0 == d[0] + d[3]  z3 == d[0] - d[3]
      z1 == d[1] + d[2]  z2 == d[1] - d[2]
  IN  <<z0 + z1, 2 * z3 + z2, z0 - z1, z3 - 2 * z2>>
Idct4Line(c) ==
  LET i0 == c[0] + c[2]  i1 == c[0] - c[2]
      i2 == Shr(c[1], 1) - c[3]  i3 == c[1] + Shr(c[3], 1)
  IN  <<i0 + i3, i1 + i2, i1 - i2, i0 - i3>>
Hadamard4Line(d) ==
  LET a0 == d[0] + d[2]  a1 == d[1] + d[3]
      a2 == d[0] - d[2]  a3 == d[1] - d[3]
  IN  <<a0 + a1, a2 + a3, a2 - a3, a0 - a1>>

fdct8_1d(s) ==
  LET a == <<s[0] + s[7], s[1] + s[6], s[2] + s[5], s[3] + s[4]>>
      o == <<s[0] - s[7], s[1] - s[6], s[2] - s[5], s[3] - s[4]>>
      b0 == a[1] + a[4]  b1 == a[2] + a[3]  b2 == a[1] - a[4]  b3 == a[2] - a[3]
      b4 == o[2] + o[3] + Shr(o[1], 1) + o[1]
      b5 == o[1] - o[4] - (Shr(o[3], 1) + o[3])
      b6 == o[1] + o[4] - (Shr(o[2], 1) + o[2])
      b7 == o[2] - o[3] + Shr(o[4], 1) + o[4]
  IN  <<b0 + b1, b4 + Shr(b7, 2), b2 + Shr(b3, 1), b5 + Shr(b6, 2),
        b0 - b1, b6 - Shr(b5, 2), Shr(b2, 1) - b3, Shr(b4, 2) - b7>>
idct8_1d(m) ==
  LET a0 == m[0] + m[4]  a4 == m[0] - m[4]
      a2 == Shr(m[2], 1) - m[6]  a6 == m[2] + Shr(m[6], 1)
      a1 == -m[3] + m[5] - m[7] - Shr(m[7], 1)
      a3 == m[1] + m[7] - m[3] - Shr(m[3], 1)
      a5 == -m[1] + m[7] + m[5] + Shr(m[5], 1)
      a7 == m[3] + m[5] + m[1] + Shr(m[1], 1)
      b0 == a0 + a6  b6 == a0 - a6  b2 == a4 + a2  b4 == a4 - a2
      b1 == a1 + Shr(a7, 2)  b7 == a7 - Shr(a1, 2)
      b3 == a3 + Shr(a5, 2)  b5 == Shr(a3, 2) - a5
  IN  <<b0 + b7, b2 + b5, b4 + b3, b6 + b1, b6 - b1, b4 - b3, b2 - b5, b0 - b7>>

\* A pass over the rows leaves lines that start at 1; its transpose puts the
\* columns where the second pass reads rows from 0.
Zero(line) == [k \in Upto(Len(line)) |-> line[k + 1]]
y264_fdct4x4_c(diff) ==
  LET rows == [y \in Upto(4) |-> Zero(Fdct4Line(diff[y]))]
      cols == Transpose(rows)
  IN  Store(Transpose([x \in Upto(4) |-> Zero(Fdct4Line(cols[x]))]))
Rounded(m) == [y \in DOMAIN m |-> [x \in DOMAIN m[y] |-> Shr(m[y][x] + 32, 6)]]
y264_idct4x4_c(coef) ==
  LET cols == Transpose([y \in Upto(4) |-> Zero(Idct4Line(coef[y]))])
  IN  Store(Rounded(Transpose([x \in Upto(4) |-> Zero(Idct4Line(cols[x]))])))
y264_fdct8x8_c(diff) ==
  LET cols == Transpose([y \in Upto(8) |-> Zero(fdct8_1d(diff[y]))])
  IN  Store(Transpose([x \in Upto(8) |-> Zero(fdct8_1d(cols[x]))]))
y264_idct8x8_c(coef) ==
  LET cols == Transpose([y \in Upto(8) |-> Zero(idct8_1d(coef[y]))])
  IN  Store(Rounded(Transpose([x \in Upto(8) |-> Zero(idct8_1d(cols[x]))])))
y264_hadamard4x4(in) ==
  LET cols == Transpose([y \in Upto(4) |-> Zero(Hadamard4Line(in[y]))])
  IN  Store(Transpose([x \in Upto(4) |-> Zero(Hadamard4Line(cols[x]))]))

\* The chroma DC transforms work on flat lists of four and of eight values.
y264_hadamard2x2(in) ==
  LET a == in[1] + in[2]  b == in[3] + in[4]
      c == in[1] - in[2]  d == in[3] - in[4]
  IN  <<S16(a + b), S16(c + d), S16(a - b), S16(c - d)>>
y264_chroma422_dc(in) ==
  LET t == [r \in 0..3 |-> <<in[2 * r + 1] + in[2 * r + 2], in[2 * r + 1] - in[2 * r + 2]>>]
      col(j) == LET z0 == t[0][j] + t[2][j]  z1 == t[0][j] - t[2][j]
                    z2 == t[1][j] - t[3][j]  z3 == t[1][j] + t[3][j]
                IN  <<z0 + z3, z1 + z2, z1 - z2, z0 - z3>>
  IN  [k \in 1..8 |-> S16(col(1 + ((k - 1) % 2))[1 + (k - 1) \div 2])]

---------------------------------------------------------------------------
(* Fused forms: residual and forward transform, inverse and clipped sum.   *)

Minus(src, pred) == [y \in DOMAIN src |-> [x \in DOMAIN src[y] |-> S16(src[y][x] - pred[y][x])]]
Plus(pred, res) == [y \in DOMAIN res |-> [x \in DOMAIN res[y] |-> clip1p(pred[y][x] + res[y][x])]]
y264_sub4x4_dct_c(src, pred) == y264_fdct4x4_c(Minus(src, pred))
y264_sub8x8_dct8_c(src, pred) == y264_fdct8x8_c(Minus(src, pred))
y264_add4x4_idct_c(pred, coef) == Plus(pred, y264_idct4x4_c(coef))
y264_add8x8_idct8_c(pred, coef) == Plus(pred, y264_idct8x8_c(coef))

---------------------------------------------------------------------------
(* Quantisation.  intra chooses the dead zone; w is the weight matrix.     *)

Dead(qbits, intra) == 2^qbits \div (IF intra THEN 3 ELSE 6)
QuantWith(coef, mul, f, qbits) == S16(Signed(coef, Shr(Mag(coef) * mul + f, qbits)))
QuantBlock(coef, qp, f, qbits, w) ==
  [y \in DOMAIN coef |-> [x \in DOMAIN coef[y] |->
     QuantWith(coef[y][x], Weighted(ForwardMul(Size(coef), qp, y, x), w[y][x]), f, qbits)]]

\* Levels at Main and Baseline with CAVLC stop at levMax; 0 is no limit.
Capped(v, levMax) ==
  IF levMax = 0 THEN v ELSE IF v > levMax THEN levMax ELSE IF v < -levMax THEN -levMax ELSE v
cap_levels(lev, levMax) == [k \in DOMAIN lev |-> Capped(lev[k], levMax)]

Qbits(n, qp) == (IF n = 4 THEN 15 ELSE 16) + qp \div 6
y264_quant_4x4(coef, qp, intra, w, levMax) ==
  LET raw == QuantBlock(coef, qp, Dead(Qbits(4, qp), intra), Qbits(4, qp), w)
  IN  [y \in Upto(4) |-> cap_levels(raw[y], levMax)]
y264_quant_8x8(coef, qp, intra, w) ==
  QuantBlock(coef, qp, Dead(Qbits(8, qp), intra), Qbits(8, qp), w)
\* Rounding at f64 / 64 of a step: 32 rounds to nearest.
F64(f64, qbits) == f64 * 2^(qbits - 6)
y264_quant_4x4_f64(coef, qp, f64, w) ==
  QuantBlock(coef, qp, F64(f64, Qbits(4, qp)), Qbits(4, qp), w)
y264_quant_8x8_f64(coef, qp, f64, w) ==
  QuantBlock(coef, qp, F64(f64, Qbits(8, qp)), Qbits(8, qp), w)

\* DC blocks use the multiplier of position (0, 0) and one bit more; w0 is
\* that position's weight.
QuantDc(list, qp, mul, times, qbits, extra, intra, levMax) ==
  cap_levels([k \in DOMAIN list |->
                S16(Signed(list[k], Shr(Mag(list[k]) * mul + times * Dead(qbits, intra), qbits + extra)))],
             levMax)
y264_quant_dc_luma(had, qp, intra, w0, levMax) ==
  QuantDc(had, qp, Weighted(MF[1 + (qp % 6)][1], w0), 2, 15 + qp \div 6, 1, intra, levMax)
y264_quant_dc_chroma(had, qp, intra, w0, levMax) ==
  QuantDc(had, qp, Weighted(MF[1 + (qp % 6)][1], w0), 2, 15 + qp \div 6, 1, intra, levMax)
y264_quant_dc_chroma422(f, qp, intra, w0, levMax) ==
  LET q == qp + 3
  IN  QuantDc(f, q, Weighted(MF[1 + (q % 6)][1], w0), 4, 15 + q \div 6, 2, intra, levMax)

---------------------------------------------------------------------------
(* Rescaling. *)

\* lev * ls shifted by shift - bits, rounded when the shift is to the right.
Rescaled(lev, ls, shift, bits) ==
  S16(IF shift >= bits THEN lev * ls * 2^(shift - bits)
      ELSE Shr(lev * ls + 2^(bits - 1 - shift), bits - shift))
Rescale(lev, qp, w, bits) ==
  [y \in DOMAIN lev |-> [x \in DOMAIN lev[y] |->
     Rescaled(lev[y][x], w[y][x] * InverseMul(Size(lev), qp, y, x), qp \div 6, bits)]]
y264_dequant_4x4(lev, qp, w) == Rescale(lev, qp, w, 4)
y264_dequant_8x8(lev, qp, w) == Rescale(lev, qp, w, 6)
y264_dequant_dc_luma(lev, qp, w0) ==
  [k \in DOMAIN lev |-> Rescaled(lev[k], w0 * V[1 + (qp % 6)][1], qp \div 6, 6)]
y264_dequant_dc_chroma(lev, qp, w0) ==
  [k \in DOMAIN lev |-> S16(Shr(lev[k] * w0 * V[1 + (qp % 6)][1] * 2^(qp \div 6), 5))]
y264_dequant_dc_chroma422(f, qp, w0) ==
  LET q == qp + 3 IN [k \in DOMAIN f |-> Rescaled(f[k], w0 * V[1 + (q % 6)][1], q \div 6, 6)]

---------------------------------------------------------------------------
(* Scan kernels: magnitudes in scan order; the positions of the nonzero    *)
(* levels (a bit mask in the code) and whether one exceeds 1 in magnitude. *)

y264_zigzag_abs_8x8_c(in) == [k \in 1..64 |-> Mag(AtRaster(in, y264_zigzag8[k]))]
ScanMask(scan) == [msk |-> {k \in DOMAIN scan : scan[k] # 0},
                   big |-> \E k \in DOMAIN scan : scan[k] \notin -1..1]
y264_scan_mask_8x8_c(lev) == ScanMask(Scanned(lev))
y264_zigzag_scan_4x4_c(in) == [out |-> Scanned(in), mask |-> ScanMask(Scanned(in))]

---------------------------------------------------------------------------
(* Vector forms (transform_neon.c): lanes, saturation and transposes.      *)

U16(v) == v % 65536
Sat16(v) == IF v > 32767 THEN 32767 ELSE IF v < -32768 THEN -32768 ELSE v

\* TRN1 and TRN2 on elements of w lanes: the even elements of a and b, and
\* the odd ones, interleaved.
Trn1(w, a, b) == [i \in DOMAIN a |-> IF (i \div w) % 2 = 0 THEN a[i] ELSE b[i - w]]
Trn2(w, a, b) == [i \in DOMAIN a |-> IF (i \div w) % 2 = 0 THEN a[i + w] ELSE b[i]]

\* One step of a transpose over registers w apart; the steps together are
\* TRN4_S16, TRN4_S32, TRN4_S16Q (with eight lanes: two independent 4x4
\* transposes side by side) and TRN8_S16.
TrnStep(w, v) ==
  [k \in DOMAIN v |-> IF (k \div w) % 2 = 0 THEN Trn1(w, v[k], v[k + w]) ELSE Trn2(w, v[k - w], v[k])]
Trn4(r) == TrnStep(2, TrnStep(1, r))
TRN8_S16(v) == TrnStep(4, TrnStep(2, TrnStep(1, v)))

\* What one lane of the registers r computes, and a pass over all of them.
Lane(r, x) == [k \in DOMAIN r |-> r[k][x]]

---------------------------------------------------------------------------
(* Forward transforms, in 16-bit lanes. *)

Add16(a, b) == S16(a + b)
Sub16(a, b) == S16(a - b)
FdctLane4(r) ==
  LET z0 == Add16(r[0], r[3])  z3 == Sub16(r[0], r[3])
      z1 == Add16(r[1], r[2])  z2 == Sub16(r[1], r[2])
  IN  <<Add16(z0, z1), Add16(Add16(z3, z3), z2), Sub16(z0, z1), Sub16(z3, Add16(z2, z2))>>
\* The registers back from what each lane computed.
Registers(n, lanes) == [k \in Upto(n) |-> [x \in DOMAIN lanes |-> lanes[x][k + 1]]]
FdctPass4(r) == Registers(4, [x \in DOMAIN r[0] |-> FdctLane4(Lane(r, x))])
fdct4x4_rows_neon(r) == FdctPass4(Trn4(FdctPass4(Trn4(r))))

\* Sums a and differences o of mirrored samples; the last step of both.
FdctMiddle8(a, o) ==
  <<Add16(a[1], a[4]), Add16(a[2], a[3]), Sub16(a[1], a[4]), Sub16(a[2], a[3]),
    Add16(Add16(o[2], o[3]), Add16(Shr(o[1], 1), o[1])), Sub16(Sub16(o[1], o[4]), Add16(Shr(o[3], 1), o[3])),
    Sub16(Add16(o[1], o[4]), Add16(Shr(o[2], 1), o[2])), Add16(Sub16(o[2], o[3]), Add16(Shr(o[4], 1), o[4]))>>
FdctLast8(b) ==
  <<Add16(b[1], b[2]), Add16(b[5], Shr(b[8], 2)), Add16(b[3], Shr(b[4], 1)), Add16(b[6], Shr(b[7], 2)),
    Sub16(b[1], b[2]), Sub16(b[7], Shr(b[6], 2)), Sub16(Shr(b[3], 1), b[4]), Sub16(Shr(b[5], 2), b[8])>>
FDCT8_1D_S16(v) ==
  FdctLast8(FdctMiddle8([k \in 1..4 |-> Add16(v[k - 1], v[8 - k])], [k \in 1..4 |-> Sub16(v[k - 1], v[8 - k])]))
FdctPass8(v) == Registers(8, [x \in DOMAIN v |-> FDCT8_1D_S16(Lane(v, x))])
FDCT8_FINISH(v) == FdctPass8(TRN8_S16(FdctPass8(TRN8_S16(v))))

\* A widening subtract leaves the residual in 16 bits.
y264_sub4x4_dct_neon(src, pred) == fdct4x4_rows_neon(Minus(src, pred))
y264_sub8x8_dct8_neon(src, pred) == FDCT8_FINISH(Minus(src, pred))

\* Two blocks next to each other share eight-lane registers; src and pred are
\* four rows of eight samples.
y264_sub_dct4_blocks_neon(src, pred) ==
  LET r == fdct4x4_rows_neon(Minus(src, pred))
  IN  [b \in 0..1 |-> [y \in 0..3 |-> [x \in 0..3 |-> r[y][4 * b + x]]]]

---------------------------------------------------------------------------
(* Inverse transforms, in 32-bit lanes narrowed at the end. *)

IdctLane4(r) ==
  LET i0 == r[0] + r[2]  i1 == r[0] - r[2]
      i2 == Shr(r[1], 1) - r[3]  i3 == r[1] + Shr(r[3], 1)
  IN  <<i0 + i3, i1 + i2, i1 - i2, i0 - i3>>
IdctPass4(r) == Registers(4, [x \in DOMAIN r |-> IdctLane4(Lane(r, x))])
Narrow(r) == [k \in DOMAIN r |-> [x \in DOMAIN r[k] |-> S16(Shr(r[k][x] + 32, 6))]]
idct4x4_core_neon(coef) == Narrow(IdctPass4(Trn4(IdctPass4(Trn4(coef)))))

idct8_1d_s32(m) ==
  LET a0 == m[0] + m[4]  a4 == m[0] - m[4]
      a2 == Shr(m[2], 1) - m[6]  a6 == m[2] + Shr(m[6], 1)
      a1 == (m[5] - m[3]) - (m[7] + Shr(m[7], 1))
      a3 == (m[1] + m[7]) - (m[3] + Shr(m[3], 1))
      a5 == (m[7] - m[1]) + (m[5] + Shr(m[5], 1))
      a7 == (m[3] + m[5]) + (m[1] + Shr(m[1], 1))
      b0 == a0 + a6  b6 == a0 - a6  b2 == a4 + a2  b4 == a4 - a2
      b1 == a1 + Shr(a7, 2)  b7 == a7 - Shr(a1, 2)
      b3 == a3 + Shr(a5, 2)  b5 == Shr(a3, 2) - a5
  IN  <<b0 + b7, b2 + b5, b4 + b3, b6 + b1, b6 - b1, b4 - b3, b2 - b5, b0 - b7>>
\* The eight rows are held in halves of four lanes, lo and hi, and the 8x8
\* transpose is four 4x4 ones, two in each half.
HalfPass8(m) == Registers(8, [x \in 0..3 |-> idct8_1d_s32(Lane(m, x))])
\* The four columns from first on, as eight registers.
Columns4(lo, hi, first) == [k \in DOMAIN lo \cap DOMAIN hi |-> IF k < 4 THEN lo[first + k] ELSE hi[first + k - 4]]
Beside(a, b) == [y \in DOMAIN a \cap DOMAIN b |-> [x \in 0..7 |-> IF x < 4 THEN a[y][x] ELSE b[y][x - 4]]]
idct8x8_core_neon(coef) ==
  LET lo == [y \in DOMAIN coef |-> [x \in 0..3 |-> coef[y][x]]]
      hi == [y \in DOMAIN coef |-> [x \in 0..3 |-> coef[y][4 + x]]]
      m0 == HalfPass8(Columns4(Trn4(lo), Trn4(hi), 0))
      m1 == HalfPass8(Columns4(Trn4(lo), Trn4(hi), 4))
      n0 == HalfPass8(Columns4(Trn4(m0), Trn4(m1), 0))
      n1 == HalfPass8(Columns4(Trn4(m0), Trn4(m1), 4))
  IN  Beside(Narrow(n0), Narrow(n1))

\* A saturating sum, then a narrowing that saturates to a pixel.
SatPlus(pred, res) ==
  [y \in DOMAIN res |-> [x \in DOMAIN res[y] |-> clip1p(Sat16(res[y][x] + pred[y][x]))]]
y264_add4x4_idct_neon(pred, coef) == SatPlus(pred, idct4x4_core_neon(coef))
y264_add8x8_idct8_neon(pred, coef) == SatPlus(pred, idct8x8_core_neon(coef))

---------------------------------------------------------------------------
(* Quantisation: only the flat matrix comes here, and the narrowing of the *)
(* 32-bit result saturates where the portable code truncates.              *)

QuantNeon(coef, qp, f, qbits) ==
  [y \in DOMAIN coef |-> [x \in DOMAIN coef[y] |->
     Sat16(Signed(coef[y][x], Shr(Mag(coef[y][x]) * ForwardMul(Size(coef), qp, y, x) + f, qbits)))]]
y264_quant_4x4_fneon(coef, qp, f) == QuantNeon(coef, qp, f, 15 + qp \div 6)
y264_quant_4x4_neon(coef, qp, intra) == y264_quant_4x4_fneon(coef, qp, Dead(15 + qp \div 6, intra))
y264_quant_8x8_fneon(coef, qp, f) == QuantNeon(coef, qp, f, 16 + qp \div 6)
RescaleNeon(lev, qp, bits) ==
  LET shift == qp \div 6
      Lanes(F) == [y \in DOMAIN lev |-> [x \in DOMAIN lev[y] |-> Sat16(F[y][x])]]
      p == [y \in DOMAIN lev |-> [x \in DOMAIN lev[y] |-> lev[y][x] * 16 * InverseMul(Size(lev), qp, y, x)]]
  IN  IF shift >= bits
      THEN Lanes([y \in DOMAIN p |-> [x \in DOMAIN p[y] |-> p[y][x] * 2^(shift - bits)]])
      ELSE Lanes([y \in DOMAIN p |-> [x \in DOMAIN p[y] |->
                    Shr(p[y][x] + 2^(bits - 1 - shift), bits - shift)]])
y264_dequant_4x4_neon(lev, qp) == RescaleNeon(lev, qp, 4)
y264_dequant_8x8_neon(lev, qp) == RescaleNeon(lev, qp, 6)

---------------------------------------------------------------------------
(* Scans: byte look-ups through the scan tables doubled into byte pairs.   *)
(* An index beyond the 64 bytes a look-up reaches yields zero, so the two  *)
(* halves of an 8x8 block are looked up separately and joined.             *)

zz4_bytes ==
  << 0,  1,  2,  3,  8,  9, 16, 17, 10, 11,  4,  5,  6,  7, 12, 13,
    18, 19, 24, 25, 26, 27, 20, 21, 14, 15, 22, 23, 28, 29, 30, 31>>
zz8_bytes ==
  <<  0,   1,   2,   3,  16,  17,  32,  33,  18,  19,   4,   5,   6,   7,  20,  21,
     34,  35,  48,  49,  64,  65,  50,  51,  36,  37,  22,  23,   8,   9,  10,  11,
     24,  25,  38,  39,  52,  53,  66,  67,  80,  81,  96,  97,  82,  83,  68,  69,
     54,  55,  40,  41,  26,  27,  12,  13,  14,  15,  28,  29,  42,  43,  56,  57,
     70,  71,  84,  85,  98,  99, 112, 113, 114, 115, 100, 101,  86,  87,  72,  73,
     58,  59,  44,  45,  30,  31,  46,  47,  60,  61,  74,  75,  88,  89, 102, 103,
    116, 117, 118, 119, 104, 105,  90,  91,  76,  77,  62,  63,  78,  79,  92,  93,
    106, 107, 120, 121, 122, 123, 108, 109,  94,  95, 110, 111, 124, 125, 126, 127>>
\* The bytes of a block in raster order, low byte first, and their meaning.
Bytes(m) == [i \in Upto(2 * Size(m)^2) |->
  LET u == AtRaster(m, i \div 2) % 65536 IN IF i % 2 = 0 THEN u % 256 ELSE u \div 256]
Word16(low, high) == S16(low + 256 * high)
Tbl(table, at, first, reach) == IF at >= first /\ at < first + reach THEN table[at] ELSE 0
Lookup(table, k, bytes, reach) ==
  LET Byte(i) == Tbl(table, bytes[i], 0, reach) + Tbl(table, bytes[i], reach, reach)
  IN  Word16(Byte(2 * k - 1), Byte(2 * k))
zz8_group(m) == LET table == Bytes(m) IN [k \in 1..64 |-> Lookup(table, k, zz8_bytes, 64)]
Scan4Neon(m) == LET table == Bytes(m) IN [k \in 1..16 |-> Lookup(table, k, zz4_bytes, 32)]

st_abs_s32(scan) == [k \in DOMAIN scan |-> Mag(scan[k])]
y264_zigzag_abs_8x8_neon(in) == st_abs_s32(zz8_group(in))
nz_mask8(scan) == [msk |-> {k \in DOMAIN scan : scan[k] # 0},
                   big |-> \E k \in DOMAIN scan : scan[k] >= 2 \/ scan[k] <= -2]
y264_scan_mask_8x8_neon(lev) == nz_mask8(zz8_group(lev))
y264_zigzag_scan_4x4_neon(in) == [out |-> Scan4Neon(in), mask |-> nz_mask8(Scan4Neon(in))]
=============================================================================
