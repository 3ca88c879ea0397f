------------------------------ MODULE Predict ------------------------------
(***************************************************************************)
(* Intra prediction: the portable builders of src/src/dsp/predict.c and    *)
(* the vector builders of predict_neon.c that stand in for them.           *)
(*                                                                         *)
(* A neighbourhood nb is what the reconstructed plane holds around a block *)
(* (samples top[0..], left[0..] and corner) and which sides exist (ht, hl, *)
(* htl, htr).  A plane holds something where a side does not exist, too.   *)
(***************************************************************************)
EXTENDS Transform

SumOf(s, from, to) ==
  LET f[k \in (from - 1)..to] == IF k < from THEN 0 ELSE f[k - 1] + s[k] IN f[to]
Block(w, h, v) == [y \in Upto(h) |-> [x \in Upto(w) |-> v]]
Tap3(a, b, c) == (a + 2 * b + c + 2) \div 4
Avg(a, b) == (a + b + 1) \div 2

\* The samples a builder reads: a side that does not exist reads as 0.
Top(nb, n) == [i \in Upto(n) |-> IF nb.ht THEN nb.top[i] ELSE 0]
Left(nb, n) == [i \in Upto(n) |-> IF nb.hl THEN nb.left[i] ELSE 0]
Corner(nb) == IF nb.ht /\ nb.hl THEN nb.corner ELSE 0

---------------------------------------------------------------------------
(* Whole-block predictors: 16x16 luma and chroma of cw x ch samples. *)

DcOf(nb, st, sl, log2) ==
  CASE nb.ht /\ nb.hl -> (st + sl + 2^log2) \div 2^(log2 + 1)
    [] nb.ht /\ ~nb.hl -> (st + 2^(log2 - 1)) \div 2^log2
    [] ~nb.ht /\ nb.hl -> (sl + 2^(log2 - 1)) \div 2^log2
    [] OTHER -> 128

\* The slope along one side of n samples, mirrored around its middle, with
\* the corner as the sample before the first.
Slope(side, corner, n) ==
  LET m == n \div 2
      term == [k \in 1..m |-> k * (side[m - 1 + k] - (IF m - 1 - k >= 0 THEN side[m - 1 - k] ELSE corner))]
  IN  SumOf(term, 1, m)
PlaneCoef(slope, n) == ((IF n = 16 THEN 5 ELSE 34) * slope + 32) \div 64
PlaneBase(nb, w, h) == 16 * (Left(nb, h)[h - 1] + Top(nb, w)[w - 1])
Plane(nb, w, h) ==
  LET b == PlaneCoef(Slope(Top(nb, w), Corner(nb), w), w)
      c == PlaneCoef(Slope(Left(nb, h), Corner(nb), h), h)
      a == PlaneBase(nb, w, h)
  IN  [y \in Upto(h) |-> [x \in Upto(w) |->
         clip1p((a + b * (x - (w \div 2 - 1)) + c * (y - (h \div 2 - 1)) + 16) \div 32)]]

y264_intra16x16_c(nb, mode) ==
  CASE mode = "VERT" -> [y \in Upto(16) |-> Top(nb, 16)]
    [] mode = "HORIZ" -> [y \in Upto(16) |-> [x \in Upto(16) |-> Left(nb, 16)[y]]]
    [] mode = "DC" -> Block(16, 16, DcOf(nb, SumOf(Top(nb, 16), 0, 15), SumOf(Left(nb, 16), 0, 15), 4))
    [] mode = "PLANE" -> Plane(nb, 16, 16)

\* The DC of one 4x4 chroma block: both sides on the diagonal and inside, the
\* top side on the first row, the left side in the first column, each with
\* the other side to fall back on.
ChromaDc(nb, bx, by) ==
  LET st == SumOf(Top(nb, 16), 4 * bx, 4 * bx + 3)
      sl == SumOf(Left(nb, 16), 4 * by, 4 * by + 3)
      both == (bx = 0 /\ by = 0) \/ (bx > 0 /\ by > 0)
      preferTop == both \/ by = 0
  IN  CASE nb.ht /\ nb.hl /\ both -> (st + sl + 4) \div 8
        [] ~(nb.ht /\ nb.hl /\ both) /\ (IF preferTop THEN nb.ht ELSE nb.hl) ->
             ((IF preferTop THEN st ELSE sl) + 2) \div 4
        [] ~(IF preferTop THEN nb.ht ELSE nb.hl) /\ (IF preferTop THEN nb.hl ELSE nb.ht) ->
             ((IF preferTop THEN sl ELSE st) + 2) \div 4
        [] OTHER -> 128
y264_intra_chroma_c(nb, mode, cw, ch) ==
  CASE mode = "VERT" -> [y \in Upto(ch) |-> Top(nb, cw)]
    [] mode = "HORIZ" -> [y \in Upto(ch) |-> [x \in Upto(cw) |-> Left(nb, ch)[y]]]
    [] mode = "DC" ->
         LET dc == [by \in Upto(ch \div 4) |-> [bx \in Upto(cw \div 4) |-> ChromaDc(nb, bx, by)]]
         IN  [y \in Upto(ch) |-> [x \in Upto(cw) |-> dc[y \div 4][x \div 4]]]
    [] mode = "PLANE" -> Plane(nb, cw, ch)

---------------------------------------------------------------------------
(* Directional predictors of 4x4 and 8x8 blocks.  T(-1) and L(-1) are the  *)
(* corner.                                                                 *)

Directional(n, mode, t, l, tl, nb) ==
  LET T(i) == IF i < 0 THEN tl ELSE t[i]
      L(i) == IF i < 0 THEN tl ELSE l[i]
      DDL(x, y) == IF x = n - 1 /\ y = n - 1
                   THEN (t[2 * n - 2] + 3 * t[2 * n - 1] + 2) \div 4
                   ELSE Tap3(t[x + y], t[x + y + 1], t[x + y + 2])
      DDR(x, y) == IF x > y THEN Tap3(T(x - y - 2), T(x - y - 1), T(x - y))
                   ELSE IF x < y THEN Tap3(L(y - x - 2), L(y - x - 1), L(y - x))
                   ELSE Tap3(T(0), tl, L(0))
      VR(x, y) == LET z == 2 * x - y  i == x - y \div 2  m == y - 2 * x
                  IN  IF z >= 0 /\ z % 2 = 0 THEN Avg(T(i - 1), T(i))
                      ELSE IF z >= 0 THEN Tap3(T(i - 2), T(i - 1), T(i))
                      ELSE IF z = -1 THEN Tap3(L(0), tl, T(0))
                      ELSE Tap3(L(m - 1), L(m - 2), L(m - 3))
      HD(x, y) == LET z == 2 * y - x  i == y - x \div 2  m == x - 2 * y
                  IN  IF z >= 0 /\ z % 2 = 0 THEN Avg(L(i - 1), L(i))
                      ELSE IF z >= 0 THEN Tap3(L(i - 2), L(i - 1), L(i))
                      ELSE IF z = -1 THEN Tap3(T(0), tl, L(0))
                      ELSE Tap3(T(m - 1), T(m - 2), T(m - 3))
      VL(x, y) == LET i == x + y \div 2
                  IN  IF y % 2 = 0 THEN Avg(t[i], t[i + 1]) ELSE Tap3(t[i], t[i + 1], t[i + 2])
      HU(x, y) == LET z == x + 2 * y  i == y + x \div 2
                  IN  IF z < 2 * n - 3 /\ z % 2 = 0 THEN Avg(l[i], l[i + 1])
                      ELSE IF z < 2 * n - 3 THEN Tap3(l[i], l[i + 1], l[i + 2])
                      ELSE IF z = 2 * n - 3 THEN (l[n - 2] + 3 * l[n - 1] + 2) \div 4
                      ELSE l[n - 1]
      log2 == IF n = 4 THEN 2 ELSE 3
      At(x, y) == CASE mode = "VERT" -> t[x]  [] mode = "HORIZ" -> l[y]
                    [] mode = "DC" -> DcOf(nb, SumOf(t, 0, n - 1), SumOf(l, 0, n - 1), log2)
                    [] mode = "DDL" -> DDL(x, y)  [] mode = "DDR" -> DDR(x, y)
                    [] mode = "VR" -> VR(x, y)    [] mode = "HD" -> HD(x, y)
                    [] mode = "VL" -> VL(x, y)    [] mode = "HU" -> HU(x, y)
  IN  [y \in Upto(n) |-> [x \in Upto(n) |-> At(x, y)]]

\* The top side continued to the right, by its last sample where the samples
\* above right do not exist.
TopRight(nb, n) ==
  [i \in Upto(2 * n) |-> IF i < n THEN Top(nb, n)[i] ELSE IF nb.htr THEN nb.top[i] ELSE Top(nb, n)[n - 1]]
RawCorner(nb) == IF nb.htl THEN nb.corner ELSE 0
y264_intra4x4_c(nb, mode) ==
  Directional(4, mode, TopRight(nb, 4), Left(nb, 4), RawCorner(nb), nb)

\* 8.3.2.2.1: the low-pass over the samples around an 8x8 block.
EdgeCorner(nb) ==
  CASE ~nb.htl -> 0
    [] nb.htl /\ nb.ht /\ nb.hl -> Tap3(nb.top[0], nb.corner, nb.left[0])
    [] nb.htl /\ nb.ht /\ ~nb.hl -> (3 * nb.corner + nb.top[0] + 2) \div 4
    [] OTHER -> (3 * nb.corner + nb.left[0] + 2) \div 4
Filtered(raw, nb, n) ==
  [i \in Upto(n) |->
     CASE i = 0 -> IF nb.htl THEN Tap3(nb.corner, raw[0], raw[1]) ELSE (3 * raw[0] + raw[1] + 2) \div 4
       [] i = n - 1 -> (raw[n - 2] + 3 * raw[n - 1] + 2) \div 4
       [] OTHER -> Tap3(raw[i - 1], raw[i], raw[i + 1])]
y264_intra8x8_edge_c(nb) ==
  LET t == IF nb.ht THEN Filtered(TopRight(nb, 8), nb, 16) ELSE [i \in Upto(16) |-> 0]
      l == IF nb.hl THEN Filtered(Left(nb, 8), nb, 8) ELSE [i \in Upto(8) |-> 0]
      tl == EdgeCorner(nb)
  IN  [t |-> t, l |-> l, tl |-> tl,
       f |-> [i \in 0..31 |-> IF i < 8 THEN l[7 - i] ELSE IF i = 8 THEN tl
                              ELSE IF i < 25 THEN t[i - 9] ELSE IF i < 27 THEN t[15] ELSE 0]]
y264_intra8x8_from_edge_c(e, mode, nb) == Directional(8, mode, e.t, e.l, e.tl, nb)

---------------------------------------------------------------------------
(* Vector builders.  hadd and rhadd halve a sum of bytes downwards and     *)
(* upwards.                                                                *)

hadd(a, b) == (a + b) \div 2
rhadd(a, b) == (a + b + 1) \div 2
F121(a, b, c) == rhadd(hadd(a, c), b)

\* Modes VERT, DDR, VR, HD and VL, from the flat edge alone.
y264_intra8x8_from_edge_neon(e, mode) ==
  LET Fb == [i \in 0..23 |-> F121(e[i], e[i + 1], e[i + 2])]
      Hb == [i \in 0..23 |-> rhadd(e[i], e[i + 1])]
      VR(x, y) == LET z == 2 * x - y IN
        IF z >= 0 THEN IF z % 2 = 1 THEN Fb[7 + x - y \div 2] ELSE Hb[8 + x - y \div 2]
        ELSE IF z = -1 THEN Fb[7] ELSE Fb[8 - (y - 2 * x)]
      HD(x, y) == LET z == 2 * y - x  i == y - x \div 2 IN
        IF z >= 0 THEN IF z % 2 = 1 THEN Fb[7 - i] ELSE Hb[7 - i]
        ELSE IF z = -1 THEN Fb[7] ELSE Fb[6 + x - 2 * y]
  IN  [y \in Upto(8) |-> [x \in Upto(8) |->
         CASE mode = "VERT" -> e[9 + x]
           [] mode = "DDR" -> Fb[7 - y + x]
           [] mode = "VR" -> VR(x, y)
           [] mode = "HD" -> HD(x, y)
           [] mode = "VL" -> (IF y % 2 = 1 THEN Fb ELSE Hb)[9 + y \div 2 + x]]]

\* The flat edge as the vector builder derives it: the end samples repeated,
\* then one filter over the whole side.
EdgeNeon(nb) ==
  LET Side(raw, n) ==
        [i \in 0..(n + 1) |-> IF i = 0 THEN IF nb.htl THEN nb.corner ELSE raw[0]
                              ELSE IF i = n + 1 THEN raw[n - 1] ELSE raw[i - 1]]
      Low(a, i) == F121(a[i], a[i + 1], a[i + 2])
      a == Side(TopRight(nb, 8), 16)
      al == Side(Left(nb, 8), 8)
      base == [i \in 0..31 |-> CASE i < 8 -> IF nb.hl THEN Low(al, 7 - i) ELSE 0
                                 [] i = 8 -> EdgeCorner(nb)
                                 [] i > 8 /\ i < 25 -> IF nb.ht THEN Low(a, i - 9) ELSE 0
                                 [] OTHER -> 0]
  IN  [base EXCEPT ![25] = base[24], ![26] = base[24]]
y264_intra8x8_neon(nb, mode) == y264_intra8x8_from_edge_neon(EdgeNeon(nb), mode)

\* Planes in 16-bit lanes: a row's base plus the column's share.
PlaneNeon(nb, w, h) ==
  LET b == PlaneCoef(Slope(Top(nb, w), nb.corner, w), w)
      c == PlaneCoef(Slope(Left(nb, h), nb.corner, h), h)
      bx == [x \in Upto(w) |-> S16(b * (x - (w \div 2 - 1)))]
      Base(y) == S16(PlaneBase(nb, w, h) + c * (y - (h \div 2 - 1)) + 16)
  IN  [y \in Upto(h) |-> [x \in Upto(w) |-> clip1p(Shr(S16(Base(y) + bx[x]), 5))]]
y264_intra16x16_neon(nb, mode) ==
  CASE mode = "VERT" -> [y \in Upto(16) |-> IF nb.ht THEN [x \in Upto(16) |-> nb.top[x]] ELSE Block(16, 1, 0)[0]]
    [] mode = "HORIZ" -> [y \in Upto(16) |-> Block(16, 1, Left(nb, 16)[y])[0]]
    [] mode = "DC" -> Block(16, 16, DcOf(nb, SumOf(Top(nb, 16), 0, 15), SumOf(Left(nb, 16), 0, 15), 4))
    [] mode = "PLANE" -> PlaneNeon(nb, 16, 16)
y264_intra_chroma_neon(nb, mode, ch) ==
  CASE mode = "VERT" -> [y \in Upto(ch) |-> Top(nb, 8)]
    [] mode = "HORIZ" -> [y \in Upto(ch) |-> Block(8, 1, Left(nb, ch)[y])[0]]
    [] mode = "DC" ->
         LET dc == [by \in Upto(ch \div 4) |-> [bx \in 0..1 |-> ChromaDc(nb, bx, by)]]
         IN  [y \in Upto(ch) |-> [x \in Upto(8) |-> dc[y \div 4][x \div 4]]]
    [] mode = "PLANE" -> PlaneNeon(nb, 8, ch)
=============================================================================
