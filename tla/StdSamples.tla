----------------------------- MODULE StdSamples -----------------------------
(***************************************************************************)
(* What a decoder of ITU-T H.264 computes from samples and levels, sample  *)
(* by sample as the standard's equations have it: inter prediction         *)
(* (8.4.2.2), the average of two predictions (8.4.2.3), and the residual   *)
(* of a block from its levels (8.5.6 to 8.5.14).  No decoder is in the     *)
(* repository; this is the reference the encoder has to agree with.        *)
(*                                                                         *)
(* A picture is [w, h, px], its samples px[y][x]; a read outside of it     *)
(* takes the nearest sample (8.4.2.2.1).                                   *)
(***************************************************************************)
EXTENDS Integers, Sequences

Clip3(lo, hi, v) == IF v < lo THEN lo ELSE IF v > hi THEN hi ELSE v
Clip1(v) == Clip3(0, 255, v)
Sample(p, x, y) == p.px[Clip3(0, p.h - 1, y)][Clip3(0, p.w - 1, x)]
SixTap(s) == s[1] - 5 * s[2] + 20 * s[3] + 20 * s[4] - 5 * s[5] + s[6]

---------------------------------------------------------------------------
(* Inter prediction. *)

\* Table 8-12 by name: G, H, M whole samples; b, s half to the right; h, m half
\* below; j in the middle, here along the row of the vertical intermediates.
StdLuma(p, x, y, xf, yf) ==
  LET b1(dy) == SixTap([k \in 1..6 |-> Sample(p, x + k - 3, y + dy)])
      h1(dx) == SixTap([k \in 1..6 |-> Sample(p, x + dx, y + k - 3)])
      G == Sample(p, x, y)
      H == Sample(p, x + 1, y)
      M == Sample(p, x, y + 1)
      b == Clip1((b1(0) + 16) \div 32)   s == Clip1((b1(1) + 16) \div 32)
      h == Clip1((h1(0) + 16) \div 32)   m == Clip1((h1(1) + 16) \div 32)
      j == Clip1((SixTap([k \in 1..6 |-> h1(k - 3)]) + 512) \div 1024)
      Mean(a, c) == (a + c + 1) \div 2
  IN  CASE xf = 0 /\ yf = 0 -> G
        [] xf = 1 /\ yf = 0 -> Mean(G, b)  [] xf = 2 /\ yf = 0 -> b  [] xf = 3 /\ yf = 0 -> Mean(b, H)
        [] xf = 0 /\ yf = 1 -> Mean(G, h)  [] xf = 0 /\ yf = 2 -> h  [] xf = 0 /\ yf = 3 -> Mean(h, M)
        [] xf = 1 /\ yf = 1 -> Mean(b, h)  [] xf = 2 /\ yf = 1 -> Mean(b, j)  [] xf = 3 /\ yf = 1 -> Mean(b, m)
        [] xf = 1 /\ yf = 2 -> Mean(h, j)  [] xf = 2 /\ yf = 2 -> j  [] xf = 3 /\ yf = 2 -> Mean(j, m)
        [] xf = 1 /\ yf = 3 -> Mean(h, s)  [] xf = 2 /\ yf = 3 -> Mean(j, s)  [] xf = 3 /\ yf = 3 -> Mean(s, m)
StdLumaBlock(p, bx, by, mv, w, h) ==
  [y \in 0..(h - 1) |-> [x \in 0..(w - 1) |->
     StdLuma(p, bx + x + mv[1] \div 4, by + y + mv[2] \div 4, mv[1] % 4, mv[2] % 4)]]

\* 8.4.2.2.2: a chroma vector has units of 1/(4 * Sub) sample.
StdChromaBlock(p, cx, cy, mv, w, h, SubWidthC, SubHeightC) ==
  LET unitX == 4 * SubWidthC   unitY == 4 * SubHeightC
      xF == (mv[1] % unitX) * (8 \div unitX)
      yF == (mv[2] % unitY) * (8 \div unitY)
      At(x, y) ==
        LET X == cx + x + mv[1] \div unitX   Y == cy + y + mv[2] \div unitY
        IN  ((8 - xF) * (8 - yF) * Sample(p, X, Y) + xF * (8 - yF) * Sample(p, X + 1, Y)
             + (8 - xF) * yF * Sample(p, X, Y + 1) + xF * yF * Sample(p, X + 1, Y + 1) + 32) \div 64
  IN  [y \in 0..(h - 1) |-> [x \in 0..(w - 1) |-> At(x, y)]]

\* 8.4.2.3 with implicit weights: logWD 5, no offset.
StdWeighted(a, b, w0, w1) == Clip1((a * w0 + b * w1 + 32) \div 64)

---------------------------------------------------------------------------
(* The residual. *)

\* 8.5.6: where the coefficient at column x and row y of an n x n block comes in
\* a frame scan: along the anti-diagonals, down the odd ones and up the even.
StdRank(n, x, y) ==
  LET d == x + y
      before == IF d < n THEN (d * (d + 1)) \div 2
                ELSE n * n - ((2 * n - 1 - d) * (2 * n - d)) \div 2
  IN  before + (IF d % 2 = 1 THEN y ELSE x) - (IF d < n THEN 0 ELSE d - n + 1)
\* Levels in scan order (1-based) to a block c[y][x].
StdUnscan(list, n) == [y \in 0..(n - 1) |-> [x \in 0..(n - 1) |-> list[StdRank(n, x, y) + 1]]]

normAdjust4 == << <<10, 16, 13>>, <<11, 18, 14>>, <<13, 20, 16>>,
                  <<14, 23, 18>>, <<16, 25, 20>>, <<18, 29, 23>> >>
normAdjust8 == << <<20, 18, 32, 19, 25, 24>>, <<22, 19, 35, 21, 28, 26>>,
                  <<26, 23, 42, 24, 33, 31>>, <<28, 25, 45, 26, 35, 33>>,
                  <<32, 28, 51, 30, 40, 38>>, <<36, 32, 58, 34, 46, 43>> >>
\* 8-314 to 8-318: weightScale times normAdjust.
LevelScale4(w, qp, x, y) ==
  w[y][x] * normAdjust4[1 + (qp % 6)][IF x % 2 = 0 /\ y % 2 = 0 THEN 1 ELSE IF x % 2 = 1 /\ y % 2 = 1 THEN 2 ELSE 3]
LevelScale8(w, qp, x, y) ==
  w[y][x] * normAdjust8[1 + (qp % 6)][
    CASE x % 4 = 0 /\ y % 4 = 0 -> 1
      [] x % 2 = 1 /\ y % 2 = 1 -> 2
      [] x % 4 = 2 /\ y % 4 = 2 -> 3
      [] (x % 4 = 0 /\ y % 2 = 1) \/ (x % 2 = 1 /\ y % 4 = 0) -> 4
      [] (x % 4 = 0 /\ y % 4 = 2) \/ (x % 4 = 2 /\ y % 4 = 0) -> 5
      [] OTHER -> 6]
\* (c * scale) * 2^(per - bits), rounded.
StdScale(c, scale, per, bits) ==
  IF per >= bits THEN c * scale * 2^(per - bits) ELSE (c * scale + 2^(bits - 1 - per)) \div 2^(bits - per)
StdScale4(c, w, qp) ==
  [y \in 0..3 |-> [x \in 0..3 |-> StdScale(c[y][x], LevelScale4(w, qp, x, y), qp \div 6, 4)]]
StdScale8(c, w, qp) ==
  [y \in 0..7 |-> [x \in 0..7 |-> StdScale(c[y][x], LevelScale8(w, qp, x, y), qp \div 6, 6)]]

\* 8.5.12.2 and 8.5.13.2: every row, then every column; d is <<d0, ...>>.
Std4(d) == LET e == <<d[1] + d[3], d[1] - d[3], d[2] \div 2 - d[4], d[2] + d[4] \div 2>>
           IN  <<e[1] + e[4], e[2] + e[3], e[2] - e[3], e[1] - e[4]>>
StdFirst8(d) ==
  << d[1] + d[5], -d[4] + d[6] - d[8] - d[8] \div 2, d[1] - d[5], d[2] + d[8] - d[4] - d[4] \div 2,
     d[3] \div 2 - d[7], -d[2] + d[8] + d[6] + d[6] \div 2, d[3] + d[7] \div 2,
     d[4] + d[6] + d[2] + d[2] \div 2 >>
StdSecond8(a) ==
  << a[1] + a[7], a[2] + a[8] \div 4, a[3] + a[5], a[4] + a[6] \div 4,
     a[3] - a[5], a[4] \div 4 - a[6], a[1] - a[7], a[8] - a[2] \div 4 >>
StdThird8(b) ==
  << b[1] + b[8], b[3] + b[6], b[5] + b[4], b[7] + b[2],
     b[7] - b[2], b[5] - b[4], b[3] - b[6], b[1] - b[8] >>
Std8(d) == StdThird8(StdSecond8(StdFirst8(d)))
StdResidual(d, n) ==
  LET Line(l) == IF n = 4 THEN Std4(l) ELSE Std8(l)
      rows == [y \in 0..(n - 1) |-> Line([k \in 1..n |-> d[y][k - 1]])]
      cols == [x \in 0..(n - 1) |-> Line([k \in 1..n |-> rows[k - 1][x + 1]])]
  IN  [y \in 0..(n - 1) |-> [x \in 0..(n - 1) |-> (cols[x][y + 1] + 32) \div 64]]

\* 8.5.14: the sum with the prediction.
StdSum(pred, res, n) == [y \in 0..(n - 1) |-> [x \in 0..(n - 1) |-> Clip1(pred[y][x] + res[y][x])]]

\* 8.5.10: DC of Intra16x16 luma, and 8.5.11 of chroma, from matrices of levels
\* c[row][column]; the result is one DC for each block in the same place.
Signs4 == << <<1, 1, 1, 1>>, <<1, 1, -1, -1>>, <<1, -1, -1, 1>>, <<1, -1, 1, -1>> >>
Signs(n) == IF n = 2 THEN << <<1, 1>>, <<1, -1>> >> ELSE Signs4
Total(s, n) == LET f[k \in 0..n] == IF k = 0 THEN 0 ELSE f[k - 1] + s[k] IN f[n]
\* The product A c B of sign matrices of rows and of columns.
StdDcTransform(c, rows, cols) ==
  [i \in 0..(rows - 1) |-> [j \in 0..(cols - 1) |->
     Total([r \in 1..rows |-> Total([k \in 1..cols |->
       Signs(rows)[i + 1][r] * c[r - 1][k - 1] * Signs(cols)[k][j + 1]], cols)], rows)]]
DcScale(w0, qp) == w0 * normAdjust4[1 + (qp % 6)][1]
StdLumaDc(c, w0, qp) ==
  LET f == StdDcTransform(c, 4, 4)
  IN  [i \in 0..3 |-> [j \in 0..3 |-> StdScale(f[i][j], DcScale(w0, qp), qp \div 6, 6)]]
StdChromaDc(c, w0, qp, rows) ==
  LET f == StdDcTransform(c, rows, 2)
      \* 4:2:2 scales at three more and with one bit less.
      At(v) == IF rows = 2 THEN (v * DcScale(w0, qp) * 2^(qp \div 6)) \div 32
               ELSE StdScale(v, DcScale(w0, qp + 3), (qp + 3) \div 6, 6)
  IN  [i \in 0..(rows - 1) |-> [j \in 0..1 |-> At(f[i][j])]]
\* 8.5.11.1: where the levels of a chroma DC list go (eq. 8-328 and 8-329).
StdChromaDcBlock(list, rows) ==
  IF rows = 2 THEN [i \in 0..1 |-> [j \in 0..1 |-> list[2 * i + j + 1]]]
  ELSE LET at == << <<1, 3>>, <<2, 6>>, <<4, 7>>, <<5, 8>> >>
       IN  [i \in 0..3 |-> [j \in 0..1 |-> list[at[i + 1][j + 1]]]]
=============================================================================
