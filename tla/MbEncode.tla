------------------------------ MODULE MbEncode ------------------------------
(***************************************************************************)
(* What a macroblock writes to the frame-wide grids (author_...) and the   *)
(* syntax elements it codes by reading them back (emit_...), in I and P    *)
(* slices, for both entropy coders (src/src/encoder/macroblock.c).         *)
(*                                                                         *)
(* A record r is a decided macroblock: mode, the motion with the           *)
(* predictors its search saw (pmv), the Intra modes, and res, the number   *)
(* of nonzero coefficients of every block (y: sixteen luma blocks, dc:     *)
(* the Intra16x16 luma DC block, cdc and cac: chroma, want8: the search    *)
(* preferred the 8x8 transform).  An element is <<name, context, value>>;  *)
(* of a CAVLC element the context is what selects its code table.          *)
(***************************************************************************)
EXTENDS MbGrid

\* s is what is constant in a slice: type ("I", "P", "B"), cabac, nref (the
\* active list 0), t8 (the 8x8 transform is enabled) and qp (mb -> quantiser).

---------------------------------------------------------------------------
\* Coded block patterns.

Quad(blk) == blk \div 4
cbp_luma(r) ==
  LET coded == {q \in 0..3 : \E b \in (4 * q)..(4 * q + 3) : r.res.y[b + 1] > 0}
  IN  IF r.mode = "intra" /\ r.use = "i16" /\ coded # {} THEN 0..3 ELSE coded
cbp_chroma(r) ==
  IF \E c \in 1..2 : \E b \in 1..4 : r.res.cac[c][b] > 0 THEN 2
  ELSE IF \E c \in 1..2 : r.res.cdc[c] > 0 THEN 1 ELSE 0
no_res(r) == cbp_luma(r) = {} /\ cbp_chroma(r) = 0

\* The 8x8 transform is kept only with a luma residual.
use_i4(r) == r.use \in {"i4", "i8"}
tr8(r) == IF r.mode = "intra" THEN r.use = "i8"
          ELSE r.mode \in {"inter", "direct"} /\ r.res.want8 /\ cbp_luma(r) # {}
tr8_flag_present(s, r) ==
  /\ s.t8 /\ cbp_luma(r) # {}
  /\ r.part = 3 => \A b \in 1..4 : r.sub[b] = 0

\* Whether the analysis expects the macroblock to code mb_qp_delta.
mb_codes_qpd(r) ==
  CASE r.mode = "skip"  -> FALSE
    [] r.mode = "intra" -> ~use_i4(r) \/ ~no_res(r)
    [] OTHER            -> ~no_res(r)

---------------------------------------------------------------------------
\* Authoring.  CAVLC counts an 8x8 block per interleaved quarter, CABAC as a
\* whole in all four cells.

LumaCount(s, r, blk) ==
  LET q == Quad(blk)
  IN  CASE q \notin cbp_luma(r) -> 0
        [] s.cabac /\ tr8(r) -> FoldSeq(+, 0, SubSeq(r.res.y, 4 * q + 1, 4 * q + 4))
        [] OTHER -> r.res.y[blk + 1]
author_luma_nnz(s, g, mb, r) ==
  [c \in MbCells(mb) |-> LumaCount(s, r, BlkAt(c))] @@ g.nnz
author_chroma_residual_nnz(g, mb, r) ==
  [k \in 1..2 |-> [c \in MbCCells(mb) |->
      IF cbp_chroma(r) = 2 THEN r.res.cac[k][1 + (c[1] % 2) + 2 * (c[2] % 2)] ELSE 0] @@ g.nnzc[k]]
author_residual(s, g, mb, r) ==
  [g EXCEPT !.nnz = author_luma_nnz(s, g, mb, r), !.nnzc = author_chroma_residual_nnz(g, mb, r)]

clear_mb_nnz(g, mb) ==
  [g EXCEPT !.nnz = Paint(@, MbCells(mb), 0), !.nnzc = [k \in 1..2 |-> Paint(@[k], MbCCells(mb), 0)]]

\* The cbp word of a macroblock: patterns, DC presence, and what the contexts
\* of the neighbours ask (Intra NxN, chroma mode, skipped, 8x8 transform).
NoWord == [avail |-> FALSE, luma |-> {}, chroma |-> 0, ydc |-> 0, cdc |-> <<0, 0>>, i4 |-> 0,
           cmode |-> 0, skip |-> 0, tr8 |-> 0, direct |-> 0, dq |-> {}]
SkipWord == [NoWord EXCEPT !.avail = TRUE, !.skip = 1]
Bit(b) == IF b THEN 1 ELSE 0
ChromaDcBits(r) == [k \in 1..2 |-> Bit(cbp_chroma(r) > 0 /\ r.res.cdc[k] > 0)]
InterWord(r) ==
  [NoWord EXCEPT !.avail = TRUE, !.luma = cbp_luma(r), !.chroma = cbp_chroma(r), !.cdc = ChromaDcBits(r),
                 !.tr8 = Bit(tr8(r))]
IntraWord(r) ==
  [InterWord(r) EXCEPT !.ydc = Bit(~use_i4(r) /\ r.res.dc > 0), !.i4 = Bit(use_i4(r)),
                       !.cmode = r.cmode]

\* What each cell of the macroblock gets from the (sub-)partition that owns it.
PerShape(mb, r, F(_)) ==
  LET sh == Shapes(r)
  IN  [c \in MbCells(mb) |-> F(CHOOSE k \in DOMAIN sh : c \in Rect(mb, sh[k].r))]
commit_inter_motion(g, mb, r) ==
  [g EXCEPT !.mot[1] = [mv  |-> PerShape(mb, r, LAMBDA k : r.mv[1][k]) @@ @.mv,
                        ref |-> PerShape(mb, r, LAMBDA k : r.ref[Shapes(r)[k].p + 1]) @@ @.ref],
            !.i4 = Paint(@, MbCells(mb), 2)]
author_mvd(d) == IF Abs(d) > 127 THEN 127 ELSE Abs(d)
author_inter_cabac(s, g, mb, r) ==
  [author_residual(s, g, mb, r) EXCEPT
     !.mvd[1] = PerShape(mb, r, LAMBDA k : author_mvd(r.mv[1][k] - r.pmv[1][k])) @@ @,
     !.word[mb] = InterWord(r)]
mark_mb_meta(s, g, mb, mv, ref) ==
  [g EXCEPT !.i4 = Paint(@, MbCells(mb), 2),
            !.mot[1] = IF s.type = "P" THEN set_region_motion(@, MbCells(mb), mv, ref) ELSE @]
set_mb_intra_motion(g, mb) ==
  [g EXCEPT !.mot = [l \in 1..2 |-> set_region_motion(@[l], MbCells(mb), 0, -1)]]

\* The mode grid an Intra analysis leaves behind, whatever the verdict.
IntraModeGrid(g, mb, r) ==
  CASE r.use = "i16" -> Paint(g.i4, MbCells(mb), 2)
    [] r.use = "i8" -> [c \in MbCells(mb) |-> r.modes[1 + Quad(BlkAt(c))]] @@ g.i4
    [] r.use = "i4" -> [c \in MbCells(mb) |-> r.modes[1 + BlkAt(c)]] @@ g.i4
author_intra_cabac(s, g, mb, r) ==
  [author_residual(s, g, mb, r) EXCEPT !.tr8[mb] = Bit(r.use = "i8"), !.word[mb] = IntraWord(r)]

---------------------------------------------------------------------------
\* Elements common to both coders.

El(name, ctx, value) == <<name, ctx, value>>
Blocks(quads) == SelectSeq([i \in 1..16 |-> i - 1], LAMBDA blk : Quad(blk) \in quads)
OverSeq(seq, F(_)) == [i \in DOMAIN seq |-> F(seq[i])]
NModes(r) == IF r.use = "i8" THEN 4 ELSE 16
ModeCell(mb, r, i) == BlkCell(mb, IF r.use = "i8" THEN 4 * (i - 1) ELSE i - 1)

\* An emitted macroblock: what precedes mb_qp_delta, whether it is there, and
\* what follows.
Emitted(head, delta, tail) == [head |-> head, delta |-> delta, tail |-> tail]

---------------------------------------------------------------------------
\* CAVLC.

Coeffs(grid, cell, n) == El("coeff", derive_nc(grid, cell), n)
emit_luma(g, mb, r) ==
  OverSeq(Blocks(cbp_luma(r)), LAMBDA blk : Coeffs(g.nnz, BlkCell(mb, blk), r.res.y[blk + 1]))
emit_chroma_residual(g, mb, r) ==
  (IF cbp_chroma(r) = 0 THEN << >> ELSE [k \in 1..2 |-> El("coeff", -1, r.res.cdc[k])]) \o
  (IF cbp_chroma(r) < 2 THEN << >>
   ELSE [i \in 1..8 |-> LET k == 1 + (i - 1) \div 4  b == (i - 1) % 4
                        IN  Coeffs(g.nnzc[k], CBlkCell(mb, b), r.res.cac[k][b + 1])])
emit_inter_residual(s, g, mb, r, head) ==
  Emitted(head \o <<El("cbp", "inter", <<cbp_luma(r), cbp_chroma(r)>>)>> \o
            (IF tr8_flag_present(s, r) THEN <<El("t8", 0, Bit(tr8(r)))>> ELSE << >>),
          ~no_res(r),
          emit_luma(g, mb, r) \o emit_chroma_residual(g, mb, r))

write_ref_idx_cavlc(ref, active) ==
  CASE active <= 1 -> << >>
    [] active = 2  -> <<El("ref_idx", "flag", IF ref = 0 THEN 1 ELSE 0)>>
    [] OTHER       -> <<El("ref_idx", "ue", ref)>>
SubTypes(r) == IF r.part = 3 THEN OverSeq(r.sub, LAMBDA t : El("sub_mb_type", 0, t)) ELSE << >>
emit_inter_mb(s, g, mb, r) ==
  emit_inter_residual(s, g, mb, r,
    <<El("mb_type", 0, r.part)>> \o SubTypes(r)
    \o FlattenSeq([p \in 1..NParts(r.part) |-> write_ref_idx_cavlc(r.ref[p], s.nref)])
    \o [k \in DOMAIN Shapes(r) |-> El("mvd", 0, r.mv[1][k] - r.pmv[1][k])])

\* prev_intra4x4_pred_mode_flag and rem_intra4x4_pred_mode.
emit_mode(chosen, pred) ==
  IF chosen = pred THEN <<El("prev_mode", 0, 1)>>
  ELSE <<El("prev_mode", 0, 0), El("rem_mode", 0, IF chosen < pred THEN chosen ELSE chosen - 1)>>
emit_intra_syntax(s, g, mb, r, off) ==
  LET chroma == emit_chroma_residual(g, mb, r)
  IN  IF use_i4(r)
      THEN Emitted(<<El("mb_type", 0, off)>>
             \o (IF s.t8 THEN <<El("t8", 0, Bit(r.use = "i8"))>> ELSE << >>)
             \o FlattenSeq([i \in 1..NModes(r) |->
                  emit_mode(r.modes[i], i4_predictor(g.i4, ModeCell(mb, r, i)))])
             \o <<El("chroma_mode", 0, r.cmode),
                  El("cbp", "intra", <<cbp_luma(r), cbp_chroma(r)>>)>>,
             ~no_res(r), emit_luma(g, mb, r) \o chroma)
      ELSE Emitted(<<El("mb_type", 0, 1 + r.pred + 4 * cbp_chroma(r)
                                        + (IF cbp_luma(r) # {} THEN 12 ELSE 0) + off),
                     El("chroma_mode", 0, r.cmode)>>,
             TRUE, <<Coeffs(g.nnz, BlkCell(mb, 0), r.res.dc)>> \o emit_luma(g, mb, r) \o chroma)
---------------------------------------------------------------------------
\* CABAC: the context of every bin of the header, of every coded_block_flag.

mbcbp_get(g, x, y) == IF <<x, y>> \in MBs THEN g.word[<<x, y>>] ELSE NoWord
LeftOf(g, mb) == mbcbp_get(g, mb[1] - 1, mb[2])
TopOf(g, mb) == mbcbp_get(g, mb[1], mb[2] - 1)
HasLeft(g, mb) == LeftOf(g, mb).avail
HasTop(g, mb) == TopOf(g, mb).avail

Bins(name, seq) == OverSeq(seq, LAMBDA cb : El(name, cb[1], cb[2]))
cabac_mb_skip(g, mb, skip, base) ==
  El("mb_skip_flag", base + Bit(HasLeft(g, mb) /\ LeftOf(g, mb).skip = 0)
                           + Bit(HasTop(g, mb) /\ TopOf(g, mb).skip = 0), skip)
cabac_transform_8x8_flag(g, mb, flag) ==
  El("t8", 399 + LeftOf(g, mb).tr8 + TopOf(g, mb).tr8, flag)
cabac_cbp_luma(g, mb, cbp) ==
  LET bit(q) == Bit(q \in cbp)
      l(q) == Bit(~HasLeft(g, mb) \/ q \in LeftOf(g, mb).luma)
      t(q) == Bit(~HasTop(g, mb) \/ q \in TopOf(g, mb).luma)
  IN  Bins("cbp_luma", << <<76 - l(1) - 2 * t(2), bit(0)>>, <<76 - bit(0) - 2 * t(3), bit(1)>>,
                          <<76 - l(3) - 2 * bit(0), bit(2)>>, <<76 - bit(2) - 2 * bit(1), bit(3)>> >>)
cabac_cbp_chroma(g, mb, cbp) ==
  LET a == LeftOf(g, mb).chroma  b == TopOf(g, mb).chroma
  IN  Bins("cbp_chroma",
           << <<77 + Bit(a # 0) + 2 * Bit(b # 0), Bit(cbp # 0)>> >>
           \o (IF cbp = 0 THEN << >>
               ELSE << <<81 + Bit(a = 2) + 2 * Bit(b = 2), cbp \div 2>> >>))
cabac_chroma_pred_mode(g, mb, mode) ==
  LET ctx == 64 + Bit(LeftOf(g, mb).cmode # 0) + Bit(TopOf(g, mb).cmode # 0)
  IN  Bins("chroma_mode",
           SubSeq(<< <<ctx, Bit(mode > 0)>>, <<67, Bit(mode > 1)>>, <<67, Bit(mode > 2)>> >>,
                  1, IF mode < 2 THEN mode + 1 ELSE 3))
cabac_intra4x4_mode(pred, mode) ==
  LET rem == IF mode > pred THEN mode - 1 ELSE mode
  IN  Bins("pred_mode",
           << <<68, Bit(pred = mode)>> >>
           \o (IF pred = mode THEN << >>
               ELSE [i \in 1..3 |-> <<69, (rem \div 2^(i - 1)) % 2>>]))
\* ctx: the contexts of the six positions, which differ by slice type.
cabac_mb_type_intra(r, ctx) ==
  Bins("mb_type",
       IF use_i4(r) THEN << <<ctx[1], 0>> >>
       ELSE << <<ctx[1], 1>>, <<276, 0>>, <<ctx[2], Bit(cbp_luma(r) # {})>> >>
            \o (IF cbp_chroma(r) = 0 THEN << <<ctx[3], 0>> >>
                ELSE << <<ctx[3], 1>>, <<ctx[4], cbp_chroma(r) \div 2>> >>)
            \o << <<ctx[5], r.pred \div 2>>, <<ctx[6], r.pred % 2>> >>)
cabac_mb_qp_delta(ch, qp) ==
  LET d == qp - ch.prev
      code == IF d > 0 THEN 2 * d - 1 ELSE -2 * d
  IN  [i \in 1..code + 1 |->
         El("mb_qp_delta", CASE i = 1 -> 60 + Bit(ch.last # 0) [] i = 2 -> 62 [] OTHER -> 63,
             Bit(i <= code))]

\* Residual blocks: category, and the context increment of coded_block_flag.
Cbf(grid, cell, intra) ==
  cbf_nb(grid, <<cell[1] - 1, cell[2]>>, intra) + 2 * cbf_nb(grid, <<cell[1], cell[2] - 1>>, intra)
dc_nb(present, bit, intra) == IF present THEN bit ELSE Bit(intra)
DcCbf(g, mb, field(_), intra) ==
  dc_nb(HasLeft(g, mb), field(LeftOf(g, mb)), intra)
    + 2 * dc_nb(HasTop(g, mb), field(TopOf(g, mb)), intra)
Residual(cat, cbf, n) == El(cat, cbf, n)
emit_cabac_luma(g, mb, r, intra, cat) ==
  IF tr8(r)
  THEN OverSeq(SelectSeq(<<0, 1, 2, 3>>, LAMBDA q : q \in cbp_luma(r)),
               LAMBDA q : Residual("luma8x8", "none",
                                   FoldSeq(+, 0, SubSeq(r.res.y, 4 * q + 1, 4 * q + 4))))
  ELSE OverSeq(Blocks(cbp_luma(r)),
               LAMBDA blk : Residual(cat, Cbf(g.nnz, BlkCell(mb, blk), intra), r.res.y[blk + 1]))
emit_cabac_chroma_residual(g, mb, r, intra) ==
  (IF cbp_chroma(r) = 0 THEN << >>
   ELSE [k \in 1..2 |-> Residual("chromaDC", DcCbf(g, mb, LAMBDA w : w.cdc[k], intra), r.res.cdc[k])])
  \o
  (IF cbp_chroma(r) < 2 THEN << >>
   ELSE [i \in 1..8 |->
           LET k == 1 + (i - 1) \div 4  b == (i - 1) % 4
           IN  Residual("chromaAC", Cbf(g.nnzc[k], CBlkCell(mb, b), intra), r.res.cac[k][b + 1])])
emit_cabac_inter_tail(s, g, mb, r, head) ==
  Emitted(head \o cabac_cbp_luma(g, mb, cbp_luma(r)) \o cabac_cbp_chroma(g, mb, cbp_chroma(r))
            \o (IF tr8_flag_present(s, r) THEN <<cabac_transform_8x8_flag(g, mb, Bit(tr8(r)))>>
                ELSE << >>),
          ~no_res(r),
          IF no_res(r) THEN << >>
          ELSE emit_cabac_luma(g, mb, r, FALSE, "luma4x4")
               \o emit_cabac_chroma_residual(g, mb, r, FALSE))

\* The reference of a neighbour of a partition: inside the macroblock from the
\* record, since the grid is read as decided.
ref_idx_neighbour(g, c, mb, r) ==
  CASE c \notin Cells -> -1
    [] c[1] >= 4 * mb[1] /\ c[2] >= 4 * mb[2] ->
         IF r.part = 3 THEN r.ref[1 + Quad(BlkAt(c))] ELSE r.ref[1]
    [] OTHER -> g.mot[1].ref[c]
RefBins(ref, inc) ==
  [b \in 1..ref + 1 |->
     El("ref_idx", 54 + (CASE b = 1 -> inc [] b = 2 -> 4 [] OTHER -> 5), Bit(b <= ref))]
cabac_ref_idx(g, mb, r, p) ==
  LET rect == part_rect(r.part, p - 1)
      x == 4 * mb[1] + rect.x  y == 4 * mb[2] + rect.y
  IN  RefBins(r.ref[p], Bit(ref_idx_neighbour(g, <<x - 1, y>>, mb, r) > 0)
                          + 2 * Bit(ref_idx_neighbour(g, <<x, y - 1>>, mb, r) > 0))
emit_mvd(grid, c, d) ==
  LET left == IF c[1] > 0 THEN grid[<<c[1] - 1, c[2]>>] ELSE 0
      top == IF c[2] > 0 THEN grid[<<c[1], c[2] - 1>>] ELSE 0
  IN  El("mvd", Bit(left + top > 2) + Bit(left + top > 32), d)
Corner(mb, rect) == <<4 * mb[1] + rect.x, 4 * mb[2] + rect.y>>
PMbType == << << <<14, 0>>, <<15, 0>>, <<16, 0>> >>, << <<14, 0>>, <<15, 1>>, <<17, 1>> >>,
              << <<14, 0>>, <<15, 1>>, <<17, 0>> >>, << <<14, 0>>, <<15, 0>>, <<16, 1>> >> >>
PSubType == << << <<21, 1>> >>, << <<21, 0>>, <<22, 0>> >>,
               << <<21, 0>>, <<22, 1>>, <<23, 1>> >>, << <<21, 0>>, <<22, 1>>, <<23, 0>> >> >>
emit_inter_cabac(s, g, mb, r) ==
  emit_cabac_inter_tail(s, g, mb, r,
    Bins("mb_type", PMbType[r.part + 1])
    \o (IF r.part = 3 THEN FlattenSeq(OverSeq(r.sub, LAMBDA t : Bins("sub_mb_type", PSubType[t + 1])))
        ELSE << >>)
    \o (IF s.nref > 1 THEN FlattenSeq([p \in 1..NParts(r.part) |-> cabac_ref_idx(g, mb, r, p)])
        ELSE << >>)
    \o [k \in DOMAIN Shapes(r) |->
          emit_mvd(g.mvd[1], Corner(mb, Shapes(r)[k].r), r.mv[1][k] - r.pmv[1][k])])

IntraTypeCtx(s, g, mb) ==
  CASE s.type = "P" -> <<17, 18, 19, 19, 20, 20>>
    [] s.type = "B" -> <<32, 33, 34, 34, 35, 35>>
    [] s.type = "I" -> <<3 + Bit(HasLeft(g, mb) /\ LeftOf(g, mb).i4 = 0)
                           + Bit(HasTop(g, mb) /\ TopOf(g, mb).i4 = 0), 6, 7, 8, 9, 10>>
emit_intra_cabac_420(s, g, mb, r, prefix) ==
  LET codes == ~no_res(r) \/ ~use_i4(r)
      luma == IF use_i4(r) THEN emit_cabac_luma(g, mb, r, TRUE, "luma4x4")
              ELSE <<Residual("i16DC", DcCbf(g, mb, LAMBDA w : w.ydc, TRUE), r.res.dc)>>
                   \o emit_cabac_luma(g, mb, r, TRUE, "i16AC")
  IN  Emitted(prefix \o cabac_mb_type_intra(r, IntraTypeCtx(s, g, mb))
        \o (IF use_i4(r) /\ s.t8 THEN <<cabac_transform_8x8_flag(g, mb, Bit(r.use = "i8"))>>
            ELSE << >>)
        \o (IF use_i4(r)
            THEN FlattenSeq([i \in 1..NModes(r) |->
                   cabac_intra4x4_mode(i4_predictor(g.i4, ModeCell(mb, r, i)), r.modes[i])])
            ELSE << >>)
        \o cabac_chroma_pred_mode(g, mb, r.cmode)
        \o (IF use_i4(r)
            THEN cabac_cbp_luma(g, mb, cbp_luma(r)) \o cabac_cbp_chroma(g, mb, cbp_chroma(r))
            ELSE << >>),
        codes,
        (IF codes THEN luma ELSE << >>) \o emit_cabac_chroma_residual(g, mb, r, TRUE))
=============================================================================
