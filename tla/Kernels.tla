------------------------------ MODULE Kernels ------------------------------
(***************************************************************************)
(* The sample kernels of src/src/dsp as a machine that makes one call:     *)
(* call is what is asked, result what the build returns, once with the     *)
(* vector kernels (neon) and once without.  Every entry point is reached   *)
(* through its dispatch, so a shape the vector form does not take falls    *)
(* back as in the code.  A reference picture has two calls: its planes are *)
(* built, and then a prediction is read from them.                         *)
(***************************************************************************)
EXTENDS Mc, Pixel, DeblockKernels
Std == INSTANCE StdSamples

CONSTANTS
  Calls,    \* what is asked: records with a kind
  Reads     \* of a picture: [bx, by, mv, w, h]

VARIABLES
  call,     \* the call made
  planes,   \* of the picture built, by way of building and by neon
  result    \* what neon \in BOOLEAN returns; Pending before

kvars == <<call, planes, result>>
Pending == << >>

---------------------------------------------------------------------------
(* Entry points: the vector form where the build has one for the shape. *)

y264_sub4x4_dct(neon, s, p) == IF neon THEN y264_sub4x4_dct_neon(s, p) ELSE y264_sub4x4_dct_c(s, p)
y264_sub8x8_dct8(neon, s, p) == IF neon THEN y264_sub8x8_dct8_neon(s, p) ELSE y264_sub8x8_dct8_c(s, p)
y264_add4x4_idct(neon, p, c) == IF neon THEN y264_add4x4_idct_neon(p, c) ELSE y264_add4x4_idct_c(p, c)
y264_add8x8_idct8(neon, p, c) == IF neon THEN y264_add8x8_idct8_neon(p, c) ELSE y264_add8x8_idct8_c(p, c)
\* The rows of four of an 8x8 block, two blocks at a time or one.
y264_sub_dct4_blocks(neon, s, p) ==
  [by \in 0..1 |->
     IF neon THEN y264_sub_dct4_blocks_neon(Part(s, 0, 4 * by, 8, 4), Part(p, 0, 4 * by, 8, 4))
     ELSE [bx \in 0..1 |-> y264_sub4x4_dct_c(Part(s, 4 * bx, 4 * by, 4, 4), Part(p, 4 * bx, 4 * by, 4, 4))]]
quant4(neon, co, qp, intra, w, levMax) ==
  IF neon /\ w = Flat(4)
  THEN LET raw == y264_quant_4x4_neon(co, qp, intra) IN [y \in 0..3 |-> cap_levels(raw[y], levMax)]
  ELSE y264_quant_4x4(co, qp, intra, w, levMax)
quant8(neon, co, qp, intra, w) ==
  IF neon /\ w = Flat(8) THEN y264_quant_8x8_fneon(co, qp, Dead(Qbits(8, qp), intra))
  ELSE y264_quant_8x8(co, qp, intra, w)
quant4_f64(neon, co, qp, f64, w) ==
  IF neon /\ w = Flat(4) THEN y264_quant_4x4_fneon(co, qp, F64(f64, Qbits(4, qp)))
  ELSE y264_quant_4x4_f64(co, qp, f64, w)
quant8_f64(neon, co, qp, f64, w) ==
  IF neon /\ w = Flat(8) THEN y264_quant_8x8_fneon(co, qp, F64(f64, Qbits(8, qp)))
  ELSE y264_quant_8x8_f64(co, qp, f64, w)
y264_dequant(neon, lev, qp, w) ==
  IF Size(lev) = 4
  THEN IF neon /\ w = Flat(4) THEN y264_dequant_4x4_neon(lev, qp) ELSE y264_dequant_4x4(lev, qp, w)
  ELSE IF neon /\ w = Flat(8) THEN y264_dequant_8x8_neon(lev, qp) ELSE y264_dequant_8x8(lev, qp, w)
y264_zigzag_abs_8x8(neon, m) == IF neon THEN y264_zigzag_abs_8x8_neon(m) ELSE y264_zigzag_abs_8x8_c(m)
y264_scan_mask_8x8(neon, m) == IF neon THEN y264_scan_mask_8x8_neon(m) ELSE y264_scan_mask_8x8_c(m)
y264_zigzag_scan_4x4(neon, m) == IF neon THEN y264_zigzag_scan_4x4_neon(m) ELSE y264_zigzag_scan_4x4_c(m)

y264_intra16x16(neon, nb, mode) == IF neon THEN y264_intra16x16_neon(nb, mode) ELSE y264_intra16x16_c(nb, mode)
y264_intra_chroma(neon, nb, mode, cw, ch) ==
  IF neon /\ cw = 8 THEN y264_intra_chroma_neon(nb, mode, ch) ELSE y264_intra_chroma_c(nb, mode, cw, ch)
\* Only these modes are faster on vectors.
Routed8 == {"VERT", "DDR", "VR", "HD", "VL"}
y264_intra8x8(neon, nb, mode) ==
  IF neon /\ mode \in Routed8 THEN y264_intra8x8_neon(nb, mode)
  ELSE y264_intra8x8_from_edge_c(y264_intra8x8_edge_c(nb), mode, nb)
y264_intra8x8_from_edge(neon, e, mode, nb) ==
  IF neon /\ mode \in Routed8 THEN y264_intra8x8_from_edge_neon(e.f, mode)
  ELSE y264_intra8x8_from_edge_c(e, mode, nb)
Modes8 == {"VERT", "HORIZ", "DC", "DDL", "DDR", "VR", "HD", "VL", "HU"}

---------------------------------------------------------------------------
(* What each kind of call computes. *)

\* A residual through transform, quantisation and back: 4x4 blocks in the
\* corner and two by two, and one 8x8 block.
Coefficients(neon, c) ==
  [co4 |-> y264_sub4x4_dct(neon, Part(c.src, 0, 0, 4, 4), Part(c.pred, 0, 0, 4, 4)),
   co8 |-> y264_sub8x8_dct8(neon, c.src, c.pred),
   w4 |-> IF c.flat THEN Flat(4) ELSE y264_cqm_jvt.w4[1],
   w8 |-> IF c.flat THEN Flat(8) ELSE y264_cqm_jvt.w8[1]]
LevelsOf(neon, c, k) ==
  [lev4 |-> quant4(neon, k.co4, c.qp, c.intra, k.w4, c.levMax), lev8 |-> quant8(neon, k.co8, c.qp, c.intra, k.w8),
   near4 |-> quant4_f64(neon, k.co4, c.qp, 32, k.w4), near8 |-> quant8_f64(neon, k.co8, c.qp, 32, k.w8)]
Rebuilt(neon, c, k, l) ==
  [coefs |-> k, levels |-> l, blocks |-> y264_sub_dct4_blocks(neon, c.src, c.pred),
   rec4 |-> y264_add4x4_idct(neon, Part(c.pred, 0, 0, 4, 4), y264_dequant(neon, l.lev4, c.qp, k.w4)),
   rec8 |-> y264_add8x8_idct8(neon, c.pred, y264_dequant(neon, l.lev8, c.qp, k.w8)),
   scan4 |-> y264_zigzag_scan_4x4(neon, l.lev4), scan8 |-> Scanned(l.lev8),
   abs8 |-> y264_zigzag_abs_8x8(neon, k.co8), mask8 |-> y264_scan_mask_8x8(neon, l.lev8)]
CodedResidual(neon, c, k) == Rebuilt(neon, c, k, LevelsOf(neon, c, k))
Residual(neon, c) == CodedResidual(neon, c, Coefficients(neon, c))

\* The DCs of the blocks of a macroblock, in raster order, to the levels sent
\* (out) and back; cf is chroma_format_idc, w0 the weight of a DC.
SCAN422DC == <<0, 2, 1, 4, 6, 3, 5, 7>>
chroma_dc_fwd(cf, intra, dc, qp, w0) ==
  IF cf = 2
  THEN LET lev == y264_quant_dc_chroma422(y264_chroma422_dc(dc), qp, intra, w0, 0)
       IN  [lev |-> lev, out |-> [s \in 1..8 |-> lev[SCAN422DC[s] + 1]]]
  ELSE LET lev == y264_quant_dc_chroma(y264_hadamard2x2(dc), qp, intra, w0, 0)
       IN  [lev |-> lev, out |-> lev]
chroma_dc_inv(cf, lev, qp, w0) ==
  IF cf = 2 THEN y264_dequant_dc_chroma422(y264_chroma422_dc(lev), qp, w0)
  ELSE y264_dequant_dc_chroma(y264_hadamard2x2(lev), qp, w0)
Raster(m) == [k \in 1..Size(m)^2 |-> AtRaster(m, k - 1)]
Square4(list) == [y \in 0..3 |-> [x \in 0..3 |-> list[4 * y + x + 1]]]
luma_dc(dc, qp, intra, w0) ==
  LET lev == y264_quant_dc_luma(Raster(y264_hadamard4x4(Square4(dc))), qp, intra, w0, 0)
  IN  [out |-> Scanned(Square4(lev)),
       rdc |-> y264_dequant_dc_luma(Raster(y264_hadamard4x4(Square4(lev))), qp, w0)]
Dc(c) ==
  LET w0 == IF c.flat THEN 16 ELSE y264_cqm_jvt.w4[1][0][0]
      n == IF c.cf = 2 THEN 8 ELSE 4
      chroma == chroma_dc_fwd(c.cf, c.intra, SubSeq(c.dc, 1, n), c.qp, w0)
  IN  [w0 |-> w0, luma |-> luma_dc(c.dc, c.qp, c.intra, w0), out |-> chroma.out,
       rdc |-> chroma_dc_inv(c.cf, chroma.lev, c.qp, w0)]

\* The predictions a block may be given: whole-block modes by the sides that
\* exist, every directional mode.
WholeModes(nb) == {"DC"} \cup (IF nb.ht THEN {"VERT"} ELSE {}) \cup (IF nb.hl THEN {"HORIZ"} ELSE {})
             \cup (IF nb.ht /\ nb.hl THEN {"PLANE"} ELSE {})
Intra(neon, c) ==
  LET nb == c.nb
      edge == y264_intra8x8_edge_c(nb)
      dc == DcOf(nb, SumOf(Top(nb, 16), 0, 15), SumOf(Left(nb, 16), 0, 15), 4)
  IN  [luma16 |-> [m \in WholeModes(nb) |-> y264_intra16x16(neon, nb, m)],
       chroma |-> [m \in WholeModes(nb) |-> [ch \in {8, 16} |-> y264_intra_chroma(neon, nb, m, 8, ch)]],
       luma8 |-> [m \in Modes8 |-> y264_intra8x8(neon, nb, m)],
       edge8 |-> [m \in Modes8 |-> y264_intra8x8_from_edge(neon, edge, m, nb)],
       x9 |-> X9(neon, Part(c.src, 0, 0, 4, 4), nb),
       x3 |-> X3(neon, c.src, Top(nb, 16), Left(nb, 16), dc)]

\* Scores of two 16x16 blocks and of their parts.
Scores(neon, c) ==
  LET A(w, h) == Part(c.a, 0, 0, w, h)
      B(w, h) == Part(c.b, 0, 0, w, h)
      sizes == {<<16, 16>>, <<16, 8>>, <<8, 16>>, <<8, 8>>, <<8, 4>>, <<4, 8>>, <<4, 4>>}
  IN  [sad |-> [s \in sizes |-> Sad(neon, c.dotprod, A(s[1], s[2]), B(s[1], s[2]))],
       x4 |-> [s \in sizes |-> SadX4(neon, A(s[1], s[2]), << B(s[1], s[2]), A(s[1], s[2]) >>)],
       satd |-> [n \in {4, 8, 16} |-> Satd(neon, n, A(n, n), B(n, n))],
       sa8d |-> Sa8d(neon, A(8, 8), B(8, 8)), ac |-> HadamardAc(neon, A(8, 8)),
       ssd |-> [s \in {<<16, 16>>, <<8, 8>>} |-> ssd_block(neon, A(s[1], s[2]), B(s[1], s[2]))],
       ac4 |-> TextureAc4(neon, c.a), ac48 |-> TextureAc48(neon, c.a), var |-> Var(neon, c.dotprod, c.a),
       avg |-> y264_pred_avg2(neon, c.a, c.b), narrow |-> y264_pred_avg2(neon, A(4, 8), B(4, 8)),
       weighted |-> y264_pixel_avg_wt(neon, c.a[0], c.b[0], c.w0, 64 - c.w0)]

\* A luma and a chroma prediction at a vector that may point anywhere.
Motion(neon, c) ==
  [luma |-> y264_mc_luma_b(c.pic, c.bx, c.by, c.mv, c.w, c.h, c.pic.border, neon),
   chroma |-> y264_mc_chroma(c.pic, c.bx, c.by, c.mv, c.w, c.h, c.sw, c.sh, neon)]

\* Lines across an edge, and the strengths of a macroblock.
Edge(neon, c) ==
  CASE c.dir = "vertical" -> LumaVertical(neon, c.rows, c.bs, c.q)
    [] c.dir = "horizontal" -> LumaHorizontal(neon, c.rows, c.bs, c.q)
    [] c.dir = "chroma" -> ChromaHorizontal(neon, c.rows, c.bs, c.q, c.span, c.g)

---------------------------------------------------------------------------
Rest == [kind |-> "rest"]
KernelInit == call \in Calls /\ planes = << >> /\ result = Pending

Asked(kind) == call.kind = kind /\ result = Pending /\ UNCHANGED <<call, planes>>
CodeResidual == Asked("residual") /\ result' = [neon \in BOOLEAN |-> Residual(neon, call)]
CodeDc == Asked("dc") /\ result' = [neon \in BOOLEAN |-> Dc(call)]
PredictIntra == Asked("intra") /\ result' = [neon \in BOOLEAN |-> Intra(neon, call)]
ScoreBlocks == Asked("scores") /\ result' = [neon \in BOOLEAN |-> Scores(neon, call)]
Compensate == Asked("motion") /\ result' = [neon \in BOOLEAN |-> Motion(neon, call)]
FilterEdge == Asked("edge") /\ result' = [neon \in BOOLEAN |-> Edge(neon, call)]
DeriveStrengths == Asked("strength") /\ result' = [neon \in BOOLEAN |-> Strengths(neon, call)]

\* The half-sample planes of a picture and its border: whole, in the bands of
\* call.nt workers, or behind the deblocking row by row.
Built(p, way, neon) ==
  LET mem == extend_plane(p.px, p.w, p.h, p.border)
  IN  CASE way = "whole" -> [bordered |-> mem, planes |-> y264_mc_build_hpel(mem, p.w, p.h, p.border, neon)]
        [] way = "bands" -> [bordered |-> mem,
                             planes |-> hpel_build_once(mem, p.w, p.h, p.border, call.nt, neon)]
        [] way = "trailer" -> stair_trailer_task(p.px, p.w, p.h \div 16, p.border, neon)
BuildPlanes ==
  /\ call.kind = "picture" /\ planes = << >>
  /\ planes' = [way \in {"whole", "bands", "trailer"} |-> [neon \in BOOLEAN |-> Built(call.pic, way, neon)]]
  /\ UNCHANGED <<call, result>>
\* Motion search and mode decision take a prediction from the planes.
ReadPlanes ==
  /\ call.kind = "picture" /\ planes # << >>
  /\ \E r \in Reads, way \in DOMAIN planes :
       /\ call' = [kind |-> "read", pic |-> call.pic, bx |-> r.bx, by |-> r.by, mv |-> r.mv, w |-> r.w, h |-> r.h]
       /\ result' = [neon \in BOOLEAN |->
            LET built == planes[way][neon]
            IN  [luma |-> y264_me_mc_luma(call.pic, built.bordered, built.planes, r.bx, r.by, r.mv, r.w, r.h, neon)]]
  /\ planes' = << >>

KernelNext ==
  \/ CodeResidual \/ CodeDc \/ PredictIntra \/ ScoreBlocks \/ Compensate \/ FilterEdge \/ DeriveStrengths
  \/ BuildPlanes \/ ReadPlanes

---------------------------------------------------------------------------
\* The vector kernels, with their wrapped and saturated lanes, table look-ups,
\* overlapping columns and folded butterflies, return bit for bit what the
\* portable ones do, for every input the encoder can hand them, forbidden
\* intra modes included (pixel.h:63-71, predict.c:393, transform.c:603).
VectorAsPortable == result # Pending => result[TRUE] = result[FALSE]

\* Wherever a vector points, and whether the prediction is filtered in place,
\* over a tile of clamped samples, by a narrow or a wide vector kernel, or
\* averaged from the half-sample planes, however those were built, it is the
\* prediction of a decoder that clamps every coordinate (mc.c:300, me.c:579,
\* encoder.c:2183, 13565).
InterIsDecoders ==
  /\ call.kind \in {"motion", "read"} =>
       LET std == Std!StdLumaBlock(call.pic, call.bx, call.by, call.mv, call.w, call.h)
       IN  \A neon \in BOOLEAN : result[neon].luma = std
  /\ call.kind = "motion" =>
       LET std == Std!StdChromaBlock(call.pic, call.bx, call.by, call.mv, call.w, call.h, call.sw, call.sh)
       IN  \A neon \in BOOLEAN : result[neon].chroma = std
  /\ call.kind = "scores" => \A neon \in BOOLEAN :
       result[neon].weighted =
         [i \in 0..15 |-> Std!StdWeighted(call.a[0][i], call.b[0][i], call.w0, 64 - call.w0)]
\* A block rebuilt from its levels, and the DCs from theirs, are what a decoder
\* rebuilds from the levels in the order they are sent.
ResidualIsDecoders ==
  /\ call.kind = "residual" => \A neon \in BOOLEAN :
       LET out == result[neon]
           c4 == Std!StdUnscan(out.scan4.out, 4)
           c8 == Std!StdUnscan(out.scan8, 8)
       IN  /\ out.rec4 = Std!StdSum(call.pred, Std!StdResidual(Std!StdScale4(c4, out.coefs.w4, call.qp), 4), 4)
           /\ out.rec8 = Std!StdSum(call.pred, Std!StdResidual(Std!StdScale8(c8, out.coefs.w8, call.qp), 8), 8)
  /\ call.kind = "dc" => \A neon \in BOOLEAN :
       LET out == result[neon]
           rows == IF call.cf = 2 THEN 4 ELSE 2
       IN  /\ Square4(out.luma.rdc) = Std!StdLumaDc(Std!StdUnscan(out.luma.out, 4), out.w0, call.qp)
           /\ [y \in Upto(rows) |-> [x \in 0..1 |-> out.rdc[2 * y + x + 1]]]
                = Std!StdChromaDc(Std!StdChromaDcBlock(out.out, rows), out.w0, call.qp, rows)
SamplesAreDecoders == result # Pending => InterIsDecoders /\ ResidualIsDecoders
=============================================================================
