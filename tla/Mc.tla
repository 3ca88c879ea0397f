--------------------------------- MODULE Mc ---------------------------------
(***************************************************************************)
(* Motion compensation: the portable kernels of src/src/dsp/mc.c, the      *)
(* vector kernels of mc_neon.c, the choice between them by where a block   *)
(* falls, and the half-sample planes built once per reference picture.     *)
(*                                                                         *)
(* A plane is [w, h, border, px]: px is the picture, px[y][x], and border  *)
(* how far its edge samples have been replicated around it.  What memory   *)
(* holds beyond that is not the picture's: Mem answers with a value that   *)
(* is wrong for every sample.                                              *)
(***************************************************************************)
EXTENDS Predict, FiniteSets

clampi(v, lo, hi) == IF v < lo THEN lo ELSE IF v > hi THEN hi ELSE v
RC(p, x, y) == p.px[clampi(y, 0, p.h - 1)][clampi(x, 0, p.w - 1)]
InsideBorder(p, x, y) ==
  /\ x \in -p.border..(p.w - 1 + p.border)
  /\ y \in -p.border..(p.h - 1 + p.border)
Mem(p, x, y) == IF InsideBorder(p, x, y) THEN RC(p, x, y) ELSE 255 - RC(p, x, y)

\* The samples around position (ix, iy) a kernel may touch for a block of
\* w x h: two before it, and right after it up to column r, row h + 3.
ClampedWindow(p, ix, iy, r, h) ==
  [y \in -2..(h + 3) |-> [x \in -2..r |-> RC(p, ix + x, iy + y)]]
DirectWindow(p, ix, iy, r, h) ==
  [y \in -2..(h + 3) |-> [x \in -2..r |-> Mem(p, ix + x, iy + y)]]

---------------------------------------------------------------------------
(* Quarter-sample luma, portable. *)

tap6(a, b, c, d, e, f) == a - 5 * b + 20 * c + 20 * d - 5 * e + f
Across(row, x) == tap6(row[x - 2], row[x - 1], row[x], row[x + 1], row[x + 2], row[x + 3])
Down(m, x, y) == tap6(m[y - 2][x], m[y - 1][x], m[y][x], m[y + 1][x], m[y + 2][x], m[y + 3][x])
Half(tap) == clip1p((tap + 16) \div 32)
Centre(tap) == clip1p((tap + 512) \div 1024)

\* Whole samples Full, half samples Hor to the right, Ver below and Mid in the
\* middle; a quarter sample is the average of the two nearest, which for the third
\* quarter lie one column to the right (xr) or one row below (yd).
Combine(Full, Hor, Ver, Mid, fx, fy, w, h) ==
  LET At(x, y) ==
        LET xr == x + fx \div 3
            yd == y + fy \div 3
        IN  CASE fx = 0 /\ fy = 0 -> Full[y][x]
              [] fx = 2 /\ fy = 0 -> Hor[y][x]
              [] fx = 0 /\ fy = 2 -> Ver[y][x]
              [] fx = 2 /\ fy = 2 -> Mid[y][x]
              [] fx \in {1, 3} /\ fy = 0 -> Avg(Full[y][xr], Hor[y][x])
              [] fx = 0 /\ fy \in {1, 3} -> Avg(Full[yd][x], Ver[y][x])
              [] fx = 2 /\ fy \in {1, 3} -> Avg(Hor[yd][x], Mid[y][x])
              [] fx \in {1, 3} /\ fy = 2 -> Avg(Ver[y][xr], Mid[y][x])
              [] fx \in {1, 3} /\ fy \in {1, 3} -> Avg(Hor[yd][x], Ver[y][xr])
  IN  [y \in Upto(h) |-> [x \in Upto(w) |-> At(x, y)]]

\* The planes Full, Hor and Ver have a margin of one column and one row.
mc_luma_body(win, fx, fy, w, h) ==
  LET Hor == [y \in 0..h |-> [x \in 0..w |-> Half(Across(win[y], x))]]
      Ver == [y \in 0..h |-> [x \in 0..w |-> Half(Down(win, x, y))]]
      cc == [y \in -2..(h + 2) |-> [x \in Upto(w) |-> Across(win[y], x)]]
      Mid == [y \in Upto(h) |-> [x \in Upto(w) |-> Centre(Down(cc, x, y))]]
  IN  Combine(win, Hor, Ver, Mid, fx, fy, w, h)
y264_mc_luma_c(p, ix, iy, fx, fy, w, h) ==
  mc_luma_body(ClampedWindow(p, ix, iy, w + 3, h), fx, fy, w, h)

---------------------------------------------------------------------------
(* Quarter-sample luma on vectors of bytes, filtered in 16-bit lanes.      *)

Tap16(l) == S16(S16(S16(l[0] + l[5]) - S16(5 * S16(l[1] + l[4]))) + S16(20 * S16(l[2] + l[3])))
Half16(t) == clip1p(Shr(S16(t + 16), 5))
\* Two registers of eight lanes, read from lane k on.
Ext(lo, hi, k) == [i \in 0..7 |-> IF i + k < 8 THEN lo[i + k] ELSE hi[i + k - 8]]
TapLanes(v) == [i \in DOMAIN v[0] |-> Tap16([k \in 0..5 |-> v[k][i]])]

\* Six loads of sixteen bytes, one per tap; or one load, shifted five times.
hfilt(row) == TapLanes([k \in 0..5 |-> [i \in 0..15 |-> row[i + k - 2]]])
hfilt8(row) ==
  LET lo == [i \in 0..7 |-> row[i - 2]]
      hi == [i \in 0..7 |-> row[i + 6]]
  IN  TapLanes([k \in 0..5 |-> Ext(lo, hi, k)])
HalfLanes(taps) == [i \in DOMAIN taps |-> Half16(taps[i])]
\* The column beyond the vector is filtered on its own.
vfilt(win, n, y) ==
  LET lanes == TapLanes([k \in 0..5 |-> [i \in Upto(n) |-> win[y + k - 2][i]]])
  IN  [i \in 0..n |-> IF i < n THEN Half16(lanes[i]) ELSE Half(Down(win, n, y))]
jgroup(g) == Shr((g[0] + g[5]) - 5 * (g[1] + g[4]) + 20 * (g[2] + g[3]) + 512, 10)
jvfilt(cc, n, y) == [i \in Upto(n) |-> clip1p(Sat16(jgroup([k \in 0..5 |-> cc[y + k - 2][i]])))]

Neon(win, n, Across16(_), fx, fy, h) ==
  LET Hor == [y \in 0..h |-> HalfLanes(Across16(win[y]))]
      Ver == [y \in 0..h |-> vfilt(win, n, y)]
      cc == [y \in -2..(h + 2) |-> Across16(win[y])]
      Mid == [y \in Upto(h) |-> jvfilt(cc, n, y)]
  IN  Combine(win, Hor, Ver, Mid, fx, fy, n, h)
y264_mc_luma_neon16(win, fx, fy, h) == Neon(win, 16, hfilt, fx, fy, h)
y264_mc_luma_neon8(win, fx, fy, h) == Neon(win, 8, hfilt8, fx, fy, h)

---------------------------------------------------------------------------
(* The choice of a kernel.  border is what the caller says the plane has.  *)

\* A tile holds what clamped reads would give, with the block at (2, 2): left
\* of the picture its first column, right of it its last.
MCL_TS == 32
mc_luma_tile(p, ix, iy, h) ==
  LET x0 == ix - 2
      lft == clampi(-x0, 0, MCL_TS)
      rgt == clampi(p.w - x0, lft, MCL_TS)
      Row(y) == p.px[clampi(iy - 2 + y, 0, p.h - 1)]
  IN  [y \in Upto(h + 6) |-> [x \in Upto(MCL_TS) |->
         CASE x < lft -> Row(y)[0]
           [] x >= lft /\ x < rgt -> Row(y)[x0 + x]
           [] x >= rgt -> Row(y)[p.w - 1]]]
TileWindow(p, ix, iy, h) ==
  LET tile == mc_luma_tile(p, ix, iy, h)
  IN  [y \in -2..(h + 3) |-> [x \in -2..18 |-> tile[y + 2][x + 2]]]

mc_luma_inborder(p, ix, iy, w, h, border) ==
  /\ ix - 2 >= -border /\ iy - 2 >= -border
  /\ ix + w + 3 <= p.w - 1 + border /\ iy + h + 3 <= p.h - 1 + border
NeonReaches(p, ix, iy, w, h, border) ==
  /\ ix >= 2 - border /\ iy >= 2 - border /\ iy + h + 4 <= p.h + border
  /\ ix + (IF w > 8 THEN 19 ELSE 14) <= p.w + border
\* Narrower blocks are cut out of a vector kernel's output.
Cut(block, w, h) == [y \in Upto(h) |-> [x \in Upto(w) |-> block[y][x]]]
McAt(p, ix, iy, fx, fy, w, h, border, neon) ==
  CASE neon /\ NeonReaches(p, ix, iy, w, h, border) /\ w > 8 ->
         Cut(y264_mc_luma_neon16(DirectWindow(p, ix, iy, 18, h), fx, fy, h), w, h)
    [] neon /\ NeonReaches(p, ix, iy, w, h, border) /\ w <= 8 ->
         Cut(y264_mc_luma_neon8(DirectWindow(p, ix, iy, 13, h), fx, fy, h), w, h)
    [] neon /\ ~NeonReaches(p, ix, iy, w, h, border) ->
         Cut(y264_mc_luma_neon16(TileWindow(p, ix, iy, h), fx, fy, h), w, h)
    [] ~neon /\ mc_luma_inborder(p, ix, iy, w, h, border) ->
         mc_luma_body(DirectWindow(p, ix, iy, w + 3, h), fx, fy, w, h)
    [] ~neon /\ ~mc_luma_inborder(p, ix, iy, w, h, border) ->
         y264_mc_luma_c(p, ix, iy, fx, fy, w, h)
\* A vector mv of quarter samples for the block whose corner is at (bx, by).
y264_mc_luma_b(p, bx, by, mv, w, h, border, neon) ==
  McAt(p, bx + Shr(mv[1], 2), by + Shr(mv[2], 2), mv[1] % 4, mv[2] % 4, w, h, border, neon)

---------------------------------------------------------------------------
(* Averages of two predictions, block by block; w0 + w1 = 64.              *)

Span(f) == Cardinality(DOMAIN f)
y264_pred_avg2_c(a, b) == [y \in DOMAIN a |-> [x \in DOMAIN a[y] |-> (a[y][x] + b[y][x] + 1) \div 2]]
y264_pred_avg2_neon(a, b) ==
  LET w == Span(a[0])
      h == Span(a)
      \* Two rows of four share a register.
      Pair(m, y) == [i \in 0..7 |-> m[y + i \div 4][i % 4]]
      lanes == [y \in {k \in Upto(h) : k % 2 = 0 /\ k + 1 < h} |->
                  [i \in 0..7 |-> rhadd(Pair(a, y)[i], Pair(b, y)[i])]]
  IN  [y \in Upto(h) |-> [x \in Upto(w) |->
         IF w = 4 /\ 2 * (y \div 2) + 1 < h THEN lanes[2 * (y \div 2)][4 * (y % 2) + x]
         ELSE rhadd(a[y][x], b[y][x])]]
y264_pixel_avg_wt_c(a, b, w0, w1) == [i \in DOMAIN a |-> clip1p((a[i] * w0 + b[i] * w1 + 32) \div 64)]
y264_pixel_avg_wt_neon(a, b, w0, w1) ==
  LET whole == 16 * (Span(a) \div 16)
      Lane16(i) == IF w0 = 32 /\ w1 = 32 THEN rhadd(a[i], b[i])
                   ELSE clip1p(Shr(S16(S16(S16(a[i] * w0) + S16(b[i] * w1)) + 32), 6))
  IN  [i \in DOMAIN a |-> IF i < whole THEN Lane16(i)
                          ELSE clip1p((a[i] * w0 + b[i] * w1 + 32) \div 64)]

y264_pred_avg2(neon, a, b) ==
  IF neon /\ Span(a[0]) \in {4, 8, 16} THEN y264_pred_avg2_neon(a, b) ELSE y264_pred_avg2_c(a, b)
y264_pixel_avg_wt(neon, a, b, w0, w1) ==
  IF neon THEN y264_pixel_avg_wt_neon(a, b, w0, w1) ELSE y264_pixel_avg_wt_c(a, b, w0, w1)

---------------------------------------------------------------------------
(* Chroma: bilinear at an eighth of a sample.  An axis chroma halves (sub  *)
(* 2) takes the vector in eighths, the other in quarters.                  *)

Whole(mv, sub) == IF sub = 2 THEN Shr(mv, 3) ELSE Shr(mv, 2)
Eighths(mv, sub) == IF sub = 2 THEN mv % 8 ELSE 2 * (mv % 4)
Bilinear(m, x, y, fx, fy) ==
  Shr((8 - fx) * (8 - fy) * m[y][x] + fx * (8 - fy) * m[y][x + 1]
      + (8 - fx) * fy * m[y + 1][x] + fx * fy * m[y + 1][x + 1] + 32, 6)
InChromaBorder(p, ix, iy, w, h) ==
  /\ ix >= -p.border /\ iy >= -p.border
  /\ ix + w + 1 <= p.w + p.border /\ iy + h + 1 <= p.h + p.border
ChromaWindow(p, ix, iy, w, h) ==
  [y \in 0..h |-> [x \in 0..w |-> IF InChromaBorder(p, ix, iy, w, h) THEN Mem(p, ix + x, iy + y)
                                  ELSE RC(p, ix + x, iy + y)]]
y264_mc_chroma_c(p, cx, cy, mv, w, h, sw, sh) ==
  LET win == ChromaWindow(p, cx + Whole(mv[1], sw), cy + Whole(mv[2], sh), w, h)
  IN  [y \in Upto(h) |-> [x \in Upto(w) |-> Bilinear(win, x, y, Eighths(mv[1], sw), Eighths(mv[2], sh))]]

\* Sums of bytes by weights in 16-bit lanes, four or eight samples wide; at
\* four, lanes 0-3 are one row and lanes 4-7 the next.
mcc_ld2x4(a, b, x) == [i \in 0..7 |-> IF i < 4 THEN a[x + i] ELSE b[x + i - 4]]
Weigh(v, fx, fy) ==
  [i \in 0..7 |-> U16(U16(U16(U16(v[0][i] * ((8 - fx) * (8 - fy))) + v[1][i] * (fx * (8 - fy)))
                         + v[2][i] * ((8 - fx) * fy)) + v[3][i] * (fx * fy) + 32) \div 64]
y264_mc_chroma_neon_w8h(win, fx, fy, h) ==
  [y \in Upto(h) |->
     Weigh([k \in 0..3 |-> [i \in 0..7 |-> win[y + k \div 2][i + (k % 2)]]], fx, fy)]
y264_mc_chroma_neon_w4h(win, fx, fy, h) ==
  LET pair == [y \in {k \in Upto(h) : k % 2 = 0} |->
                 Weigh([k \in 0..3 |-> mcc_ld2x4(win[y + k \div 2], win[y + 1 + k \div 2], k % 2)], fx, fy)]
  IN  [y \in Upto(h) |-> [x \in 0..3 |-> pair[2 * (y \div 2)][4 * (y % 2) + x]]]
y264_mc_chroma(p, cx, cy, mv, w, h, sw, sh, neon) ==
  LET ix == cx + Whole(mv[1], sw)   fx == Eighths(mv[1], sw)
      iy == cy + Whole(mv[2], sh)   fy == Eighths(mv[2], sh)
      win == [y \in 0..h |-> [x \in 0..w |-> Mem(p, ix + x, iy + y)]]
      vector == neon /\ w \in {4, 8} /\ h % 2 = 0 /\ h >= 2 /\ InChromaBorder(p, ix, iy, w, h)
  IN  IF ~vector THEN y264_mc_chroma_c(p, cx, cy, mv, w, h, sw, sh)
      ELSE IF w = 4 THEN y264_mc_chroma_neon_w4h(win, fx, fy, h)
      ELSE y264_mc_chroma_neon_w8h(win, fx, fy, h)

---------------------------------------------------------------------------
(* Half-sample planes.  mem holds the picture and its replicated border,   *)
(* mem[y][x] from -b on; the planes cover the same samples.                *)

Columns(w, b) == -b..(w + b - 1)

---------------------------------------------------------------------------
(* The horizontal filter of one row: clamped near the edges, and in the    *)
(* interior either plain or eight columns at a time, the last eight        *)
(* overlapping the ones before.                                            *)

\* Columns left of x are clamped on the left only, columns right of it on the
\* right only: the other side reads the replicated border.
EdgeTap(row, w, x) ==
  LET low(k) == IF k < 0 THEN 0 ELSE k
      high(k) == IF k >= w THEN w - 1 ELSE k
  IN  tap6(row[low(x - 2)], row[low(x - 1)], row[clampi(x, 0, w - 1)],
           row[high(x + 1)], row[high(x + 2)], row[high(x + 3)])
y264_hpel_hrow_neon(row, x) ==
  LET lo == [i \in 0..7 |-> row[x - 2 + i]]
      hi == [i \in 0..7 |-> row[x + 3 + i]]
  IN  TapLanes([k \in 0..5 |-> Ext(lo, Ext(hi, hi, 3), k)])
StartOf(x, x0, x1) == IF x >= x1 - 8 THEN x1 - 8 ELSE x0 + 8 * ((x - x0) \div 8)

XIN0 == 2
Xin1(w) == IF w - 3 < XIN0 THEN XIN0 ELSE w - 3
HpelNeon(w, neon) == neon /\ Xin1(w) - XIN0 >= 8
RowTaps(row, w, b, neon) ==
  LET starts == {StartOf(x, XIN0, Xin1(w)) : x \in XIN0..(Xin1(w) - 1)}
      lanes == [s \in starts |-> y264_hpel_hrow_neon(row, s)]
  IN  [x \in Columns(w, b) |->
         IF x < XIN0 \/ x >= Xin1(w) THEN EdgeTap(row, w, x)
         ELSE IF HpelNeon(w, neon) THEN LET s == StartOf(x, XIN0, Xin1(w)) IN lanes[s][x - s]
         ELSE Across(row, x)]

\* One row of each plane: half right (H), half below (V) and centre (C).
OutRow(taps, mem, w, h, b, y, neon) ==
  LET Line(k) == mem[clampi(y + k, 0, h - 1)]
      Column(x) == [k \in 0..5 |-> Line(k - 2)[clampi(x, 0, w - 1)]]
      vector(x) == HpelNeon(w, neon) /\ w >= 8 /\ x \in 0..(w - 1)
      Narrowed(v) == clip1p(Sat16(v))
  IN  [H |-> [x \in Columns(w, b) |->
                IF vector(x) THEN Narrowed(Shr(taps[y][x] + 16, 5)) ELSE Half(taps[y][x])],
       V |-> [x \in Columns(w, b) |->
                LET c == Column(x)
                IN  IF vector(x) THEN Half16(Tap16(c)) ELSE Half(tap6(c[0], c[1], c[2], c[3], c[4], c[5]))],
       C |-> [x \in Columns(w, b) |->
                IF vector(x) THEN Narrowed(jgroup([k \in 0..5 |-> taps[y + k - 2][x]]))
                ELSE Centre(Down(taps, x, y))]]

\* Rows ry0 to ry1 - 1 of the planes, and their five rows of overlap.
y264_mc_build_hpel_rows(mem, w, h, b, ry0, ry1, neon) ==
  LET y0 == IF ry0 > -b THEN ry0 ELSE -b
      y1 == IF ry1 < h + b THEN ry1 ELSE h + b
      taps == [y \in (y0 - 2)..(y1 + 2) |-> RowTaps(mem[clampi(y, 0, h - 1)], w, b, neon)]
  IN  [y \in y0..(y1 - 1) |-> OutRow(taps, mem, w, h, b, y, neon)]
y264_mc_build_hpel(mem, w, h, b, neon) == y264_mc_build_hpel_rows(mem, w, h, b, -b, h + b, neon)

---------------------------------------------------------------------------
(* The border, and the planes in bands. *)

\* Rows of the picture grown by their edge samples, then copied outwards.
extend_plane(px, w, h, b) ==
  LET Sides(y) == [x \in Columns(w, b) |-> IF x < 0 THEN px[y][0] ELSE IF x < w THEN px[y][x] ELSE px[y][w - 1]]
      rows == [y \in Upto(h) |-> Sides(y)]
  IN  [y \in -b..(h + b - 1) |-> IF y < 0 THEN rows[0] ELSE IF y < h THEN rows[y] ELSE rows[h - 1]]

Merge(parts) == [y \in UNION {DOMAIN part : part \in parts} |->
                   (CHOOSE part \in parts : y \in DOMAIN part)[y]]
hpel_band_one(mem, w, h, b, band, k, neon) ==
  LET y0 == k * band - b
      y1 == IF y0 + band > h + b THEN h + b ELSE y0 + band
  IN  y264_mc_build_hpel_rows(mem, w, h, b, y0, y1, neon)
hpel_build_once(mem, w, h, b, nt, neon) ==
  LET rows == h + 2 * b
      even == (rows + nt - 1) \div nt
      band == IF even < 32 THEN 32 ELSE even
      nb == (rows + band - 1) \div band
  IN  IF nt > 1 /\ nb > 1 THEN Merge({hpel_band_one(mem, w, h, b, band, k, neon) : k \in Upto(nb)})
      ELSE y264_mc_build_hpel(mem, w, h, b, neon)

---------------------------------------------------------------------------
(* The trailer: macroblock row j is deblocked; its last three sample rows  *)
(* and everything below are still to change.  The final rows get their     *)
(* sides, row 0 its copies above, the last row its copies below, and the   *)
(* planes the rows whose filters reach only final rows.                    *)

FinL(j, hmb) == IF j = hmb - 1 THEN 16 * hmb ELSE 16 * j + 13
\* Mutant: the planes follow the final rows, without the reach of the filter.
Hi_Greedy(j, hmb, b) == IF j = hmb - 1 THEN 16 * hmb + b ELSE 16 * j + 13
Hi(j, hmb, b) == IF j = hmb - 1 THEN 16 * hmb + b ELSE 16 * j + 10
Wrong(v) == 255 - v
\* The picture as the trailer finds it when row j has been deblocked.
Current(px, j, hmb) ==
  [y \in DOMAIN px |-> [x \in DOMAIN px[y] |-> IF y < FinL(j, hmb) THEN px[y][x] ELSE Wrong(px[y][x])]]
stair_extend_lr(mem, cur, w, b, y0, y1) ==
  [y \in DOMAIN mem |-> [x \in Columns(w, b) |->
     CASE x \in 0..(w - 1) -> cur[y][x]
       [] x \notin 0..(w - 1) /\ y \in y0..(y1 - 1) -> cur[y][IF x < 0 THEN 0 ELSE w - 1]
       [] OTHER -> mem[y][x]]]
stair_trailer_task(px, w, hmb, b, neon) ==
  LET h == 16 * hmb
      blank == [y \in Upto(h) |-> [x \in Columns(w, b) |-> Wrong(px[y][clampi(x, 0, w - 1)])]]
      Step(s, j) ==
        LET cur == Current(px, j, hmb)
            mem == stair_extend_lr(s.mem, cur, w, b, s.ext, FinL(j, hmb))
            planes == y264_mc_build_hpel_rows(mem, w, h, b, s.hp, Hi(j, hmb, b), neon)
        IN  [mem |-> mem, ext |-> FinL(j, hmb), hp |-> Hi(j, hmb, b),
             top |-> IF j = 0 THEN mem[0] ELSE s.top,
             planes |-> Merge({s.planes, planes})]
      T[j \in -1..(hmb - 1)] ==
        IF j = -1 THEN [mem |-> blank, ext |-> 0, hp |-> -b, top |-> blank[0], planes |-> << >>]
        ELSE Step(T[j - 1], j)
      end == T[hmb - 1]
  IN  [planes |-> end.planes,
       bordered |-> [y \in -b..(h + b - 1) |->
                       IF y < 0 THEN end.top ELSE IF y < h THEN end.mem[y] ELSE end.mem[h - 1]]]

---------------------------------------------------------------------------
(* Reading a prediction from the planes: 0 is the picture, 1 H, 2 V, 3 C.  *)

qpel_plane_a == <<0, 1, 1, 1, 0, 1, 1, 1, 2, 3, 3, 3, 0, 1, 1, 1>>
qpel_plane_b == <<0, 0, 0, 0, 2, 2, 3, 2, 2, 2, 3, 2, 2, 2, 3, 2>>
build_pred_hpel(mem, planes, ix, iy, fx, fy, w, h, neon) ==
  LET qi == 4 * fy + fx
      Plane4(k, x, y) == CASE k = 0 -> mem[y][x] [] k = 1 -> planes[y].H[x]
                           [] k = 2 -> planes[y].V[x] [] k = 3 -> planes[y].C[x]
      At(k, dx, dy) == [y \in Upto(h) |-> [x \in Upto(w) |-> Plane4(k, ix + x + dx, iy + y + dy)]]
      s1 == At(qpel_plane_a[qi + 1], 0, IF fy = 3 THEN 1 ELSE 0)
      s2 == At(qpel_plane_b[qi + 1], IF fx = 3 THEN 1 ELSE 0, 0)
  IN  IF ~(fx \in {1, 3} \/ fy \in {1, 3}) THEN s1
      ELSE y264_pred_avg2(neon, s1, s2)
InPlanes(p, ix, iy, w, h) ==
  /\ ix >= -p.border /\ iy >= -p.border
  /\ ix + w + 1 <= p.w + p.border /\ iy + h + 1 <= p.h + p.border
y264_me_mc_luma(p, mem, planes, bx, by, mv, w, h, neon) ==
  LET ix == bx + Shr(mv[1], 2)
      iy == by + Shr(mv[2], 2)
  IN  IF InPlanes(p, ix, iy, w, h)
      THEN build_pred_hpel(mem, planes, ix, iy, mv[1] % 4, mv[2] % 4, w, h, neon)
      ELSE y264_mc_luma_b(p, bx, by, mv, w, h, p.border, neon)
=============================================================================
