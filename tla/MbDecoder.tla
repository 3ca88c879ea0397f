----------------------------- MODULE MbDecoder -----------------------------
(***************************************************************************)
(* What a decoder makes of a picture: the reference the macroblock layer   *)
(* is checked against.  Nothing here models the encoder.  ITU-T H.264      *)
(* 7.3.4/7.3.5 (syntax), 8.4.1 (motion), 8.3.1.1 (Intra modes), 9.2.1 (nC), *)
(* 9.3.3.1 (contexts), 8.7.2.1 (filter strength), as functions of the      *)
(* decoded macroblocks D alone: a neighbour is what was decoded before, in *)
(* coding order, never what a grid happens to hold.                        *)
(***************************************************************************)
EXTENDS MbEncode

Before(mb) == {n \in MBs : n[2] < mb[2] \/ (n[2] = mb[2] /\ n[1] < mb[1])}
MbOf(c) == <<c[1] \div 4, c[2] \div 4>>
A(c) == <<c[1] - 1, c[2]>>
B(c) == <<c[1], c[2] - 1>>
NeighA(mb) == {n \in {A(mb)} : n \in Before(mb)}
NeighB(mb) == {n \in {B(mb)} : n \in Before(mb)}
Exists(set, P(_)) == Bit(\E n \in set : P(n))

---------------------------------------------------------------------------
\* Motion.  F: decoded cell -> [ref, mv]; a cell outside F is not available.

Unused == [ref |-> -1, mv |-> 0]
At(F, c) == IF c \in DOMAIN F THEN F[c] ELSE Unused
MotionPred(F, mb, sh, part, ref) ==
  LET at == <<4 * mb[1] + sh.r.x, 4 * mb[2] + sh.r.y>>
      c == <<at[1] + sh.r.w, at[2] - 1>>
      d == <<at[1] - 1, at[2] - 1>>
      cc == IF c \in DOMAIN F THEN c ELSE d
      alone == B(at) \notin DOMAIN F /\ cc \notin DOMAIN F /\ A(at) \in DOMAIN F
      n == IF alone THEN [i \in 1..3 |-> At(F, A(at))]
           ELSE <<At(F, A(at)), At(F, B(at)), At(F, cc)>>
      hit == {i \in 1..3 : n[i].ref = ref}
      first == CASE part = 1 /\ sh.p = 0 -> {2} [] part = 1 /\ sh.p = 1 -> {1}
                 [] part = 2 /\ sh.p = 0 -> {1} [] part = 2 /\ sh.p = 1 -> {3} [] OTHER -> {}
      median == CHOOSE v \in {n[i].mv : i \in 1..3} :
                  /\ Cardinality({i \in 1..3 : n[i].mv < v}) <= 1
                  /\ Cardinality({i \in 1..3 : n[i].mv > v}) <= 1
  IN  CASE first # {} /\ first \subseteq hit -> n[CHOOSE i \in first : TRUE].mv
        [] Cardinality(hit) = 1 -> n[CHOOSE i \in hit : TRUE].mv
        [] OTHER -> median
SkipMotion(F, mb) ==
  LET at == <<4 * mb[1], 4 * mb[2]>>
      zero(c) == c \notin DOMAIN F \/ F[c] = [ref |-> 0, mv |-> 0]
  IN  IF zero(A(at)) \/ zero(B(at)) THEN 0
      ELSE MotionPred(F, mb, [p |-> 0, r |-> Whole], 0, 0)

\* The lists a partition uses; {}: direct, as all of a B_Skip or B_Direct_16x16.
Dirs(s, r, p) == CASE s.type = "P" -> {1} [] r.mode = "inter" -> r.dir[p] [] OTHER -> {}
IsDirect(s, r) == s.type = "B" /\ r.mode \in {"skip", "direct"}

\* Direct motion of a quadrant q in 1..4, the vectors of both lists (8.4.1.2).
ColBlock(s, mb, q) ==
  LET c == <<4 * mb[1] + (IF q \in {2, 4} THEN 3 ELSE 0), 4 * mb[2] + (IF q \in {3, 4} THEN 3 ELSE 0)>>
      l == IF s.colpic.mot[1].ref[c] >= 0 THEN 1 ELSE 2
      ref == s.colpic.mot[l].ref[c]
  IN  [intra |-> ref < 0, ref |-> ref, mv |-> s.colpic.mot[l].mv[c],
       pic |-> IF ref < 0 THEN 0 ELSE s.colpic.pocs[l][ref + 1]]
\* Spatial: the references and the predictions of the macroblock, both lists.
SpatialRef(f, mb) ==
  LET at == <<4 * mb[1], 4 * mb[2]>>
      c == <<at[1] + 4, at[2] - 1>>
      near == {A(at), B(at), IF c \in DOMAIN f THEN c ELSE <<at[1] - 1, at[2] - 1>>}
      found == {At(f, n).ref : n \in near} \ {-1}
  IN  IF found = {} THEN -1 ELSE Min(found)
Spatial(ref, pred, col) ==
  LET none == ref = <<-1, -1>>
      still == ~col.intra /\ col.ref = 0 /\ col.mv \in -1..1
      of(l) == IF none THEN [ref |-> 0, mv |-> 0]
               ELSE [ref |-> ref[l], mv |-> IF ref[l] < 0 \/ (ref[l] = 0 /\ still) THEN 0 ELSE pred[l]]
  IN  <<of(1), of(2)>>
Temporal(s, col) ==
  LET ref == IF col.intra THEN 1 ELSE CHOOSE k \in 1..s.nref : s.l0[k] = col.pic
      td == s.l1 - s.l0[ref]
      scale == ((s.poc - s.l0[ref]) * ((16384 + (td \div 2)) \div td) + 32) \div 64
      mvCol == IF col.intra THEN 0 ELSE col.mv
      mv == (scale * mvCol + 128) \div 256
  IN  <<[ref |-> ref - 1, mv |-> mv], [ref |-> 0, mv |-> mv - mvCol]>>
DirectBy(s, mb, ref, pred) ==
  LET one(q) == IF s.direct = "temporal" THEN Temporal(s, ColBlock(s, mb, q))
                ELSE Spatial(ref, pred, ColBlock(s, mb, q))
  IN  <<one(1), one(2), one(3), one(4)>>
SpatialPred(f, mb, ref) == IF ref < 0 THEN 0 ELSE MotionPred(f, mb, [p |-> 0, r |-> Whole], 0, ref)
DirectFrom(s, F, mb, ref) == DirectBy(s, mb, ref, <<SpatialPred(F[1], mb, ref[1]), SpatialPred(F[2], mb, ref[2])>>)
\* The motion of the four quadrants; not asked for unless something is direct.
Direct(s, F, mb) == DirectFrom(s, F, mb, <<SpatialRef(F[1], mb), SpatialRef(F[2], mb)>>)

\* One macroblock: the motion it adds to F, list by list, and the predictors of
\* its shapes.
Put(f, cells, ref, mv) == [c \in cells |-> [ref |-> ref, mv |-> mv]] @@ f
OnBoth(F, cells, m1, m2) == <<Put(F[1], cells, m1.ref, m1.mv), Put(F[2], cells, m2.ref, m2.mv)>>
ShapeMotion(s, r, sh, k, l, direct) ==
  LET dirs == Dirs(s, r, sh.p + 1)
  IN  CASE dirs = {} -> direct[sh.p + 1][l]
        [] l \in dirs -> [ref |-> IF l = 1 THEN r.ref[sh.p + 1] ELSE 0, mv |-> r.mv[l][k]]
        [] OTHER -> Unused
ShapePred(s, F, mb, r, sh, l) ==
  IF l \in Dirs(s, r, sh.p + 1)
  THEN MotionPred(F[l], mb, sh, r.part, IF l = 1 THEN r.ref[sh.p + 1] ELSE 0) ELSE 0
DecodeMotion(s, F, mb, r, direct) ==
  LET spread(l) == [c \in MbCells(mb) |-> direct[1 + Quad(BlkAt(c))][l]] @@ F[l]
      Shape(a, sh) ==
        [F |-> OnBoth(a.F, Rect(mb, sh.r), ShapeMotion(s, r, sh, Len(a.pred) + 1, 1, direct),
                      ShapeMotion(s, r, sh, Len(a.pred) + 1, 2, direct)),
         pred |-> Append(a.pred, <<ShapePred(s, a.F, mb, r, sh, 1), ShapePred(s, a.F, mb, r, sh, 2)>>)]
  IN  CASE IsDirect(s, r) -> [F |-> <<spread(1), spread(2)>>, pred |-> << >>]
        [] r.mode = "skip" /\ s.type = "P" ->
             [F |-> OnBoth(F, MbCells(mb), [ref |-> 0, mv |-> SkipMotion(F[1], mb)], Unused), pred |-> << >>]
        [] r.mode = "intra" -> [F |-> OnBoth(F, MbCells(mb), Unused, Unused), pred |-> << >>]
        [] r.mode = "inter" -> FoldLeft(Shape, [F |-> F, pred |-> << >>], Shapes(r))
\* The whole picture: the motion of both lists and every macroblock's predictors.
Motion(s, D) ==
  LET join(a, mb, m) == [F |-> m.F, pred |-> (mb :> m.pred) @@ a.pred]
      Mb(a, mb) == join(a, mb, DecodeMotion(s, a.F, mb, D[mb], Direct(s, a.F, mb)))
      empty == [c \in {} |-> Unused]
  IN  FoldLeft(Mb, [F |-> <<empty, empty>>, pred |-> [mb \in {} |-> << >>]], Raster)

---------------------------------------------------------------------------
\* Residual blocks as decoded.

Total(D, c) ==
  LET r == D[MbOf(c)]
  IN  IF r.mode = "skip" \/ Quad(BlkAt(c)) \notin cbp_luma(r) THEN 0 ELSE r.res.y[BlkAt(c) + 1]
ChromaMb(c) == <<c[1] \div 2, c[2] \div 2>>
TotalC(D, k, c) ==
  LET r == D[ChromaMb(c)]
  IN  IF r.mode = "skip" \/ cbp_chroma(r) < 2 THEN 0 ELSE r.res.cac[k][1 + (c[1] % 2) + 2 * (c[2] % 2)]
NC(total(_), dom, c) ==
  LET n == {x \in {A(c), B(c)} : x \in dom}
      sum == (IF A(c) \in dom THEN total(A(c)) ELSE 0) + (IF B(c) \in dom THEN total(B(c)) ELSE 0)
  IN  IF Cardinality(n) = 2 THEN (sum + 1) \div 2 ELSE sum

Skipped(D, n) == D[n].mode = "skip"
Intra(D, n) == D[n].mode = "intra"
\* The sum of the counts of a quadrant.
QuadTotal(r, q) == r.res.y[4*q + 1] + r.res.y[4*q + 2] + r.res.y[4*q + 3] + r.res.y[4*q + 4]
\* coded_block_flag as decoded: of an 8x8 block it is inferred to be 1.
Coded4(D, c) ==
  LET r == D[MbOf(c)]
  IN  /\ r.mode # "skip" /\ Quad(BlkAt(c)) \in cbp_luma(r)
      /\ tr8(r) \/ r.res.y[BlkAt(c) + 1] > 0
CodedC(D, k, c) == TotalC(D, k, c) > 0
CodedDcY(D, n) == Intra(D, n) /\ D[n].use = "i16" /\ D[n].res.dc > 0
CodedDcC(D, k, n) == ~Skipped(D, n) /\ cbp_chroma(D[n]) > 0 /\ D[n].res.cdc[k] > 0
\* condTermFlag of the two neighbours of a block of an intra or inter macroblock.
Inc(cell, dom, coded(_), intra) ==
  LET cond(c) == IF c \in dom THEN Bit(coded(c)) ELSE Bit(intra)
  IN  cond(A(cell)) + 2 * cond(B(cell))

\* Intra modes: DC beside the picture edge, and for what is not Intra NxN.
NxN(r) == r.mode = "intra" /\ r.use \in {"i4", "i8"}
ModeAt(D, c) ==
  LET r == D[MbOf(c)]
  IN  CASE ~NxN(r) -> 2 [] r.use = "i4" -> r.modes[BlkAt(c) + 1] [] r.use = "i8" -> r.modes[Quad(BlkAt(c)) + 1]
PredMode(D, c) ==
  IF A(c) \notin Cells \/ B(c) \notin Cells THEN 2 ELSE Min({ModeAt(D, A(c)), ModeAt(D, B(c))})

---------------------------------------------------------------------------
\* Syntax elements of a macroblock in the order of 7.3.5, each with its context.

Sel(b, seq) == IF b THEN seq ELSE << >>
Each(n, F(_)) == FlattenSeq([i \in 1..n |-> F(i)])
Bitstring(name, bits, ctx) == [i \in DOMAIN bits |-> <<name, ctx[i], bits[i]>>]

TypeBits == << <<0, 0, 0>>, <<0, 1, 1>>, <<0, 1, 0>>, <<0, 0, 1>> >>
SubBits == << <<1>>, <<0, 0>>, <<0, 1, 1>>, <<0, 1, 0>> >>
\* Intra16x16 after its first bin: terminate, luma, chroma (1 or 2 bins), mode.
I16Bits(r) ==
  <<1, 0, Bit(cbp_luma(r) # {})>>
  \o <<<<0>>, <<1, 0>>, <<1, 1>>>>[cbp_chroma(r) + 1] \o <<r.pred \div 2, r.pred % 2>>
I16Ctx(first, o, n, wide) ==
  [i \in 1..n |-> CASE i = 1 -> first [] i = 2 -> 276 [] i = 3 -> o [] i = 4 -> o + 1
                    [] OTHER -> IF wide THEN (IF i = 5 /\ n = 7 THEN o + 2 ELSE IF i = n THEN o + 4 ELSE o + 3)
                                ELSE IF i = 5 /\ n = 7 THEN o + 1 ELSE o + 2]
\* mb_type of a B macroblock (Table 9-37): the bins by code, and their contexts.
BTypeBits(code) ==
  CASE code = 0 -> <<0>>
    [] code \in {1, 2} -> <<1, 0, code - 1>>
    [] code \in 3..10 -> LET v == code - 3 IN <<1, 1, 0, v \div 4, (v \div 2) % 2, v % 2>>
    [] code \in 12..21 -> LET v == code - 12 IN <<1, 1, 1, v \div 8, (v \div 4) % 2, (v \div 2) % 2, v % 2>>
    [] code = 22 -> <<1, 1, 1, 1, 1, 1>>
BPrefix(s, D, mb, bits) ==
  LET plain(n) == ~IsDirect(s, D[n])
      inc == Exists(NeighA(mb), plain) + Exists(NeighB(mb), plain)
  IN  Bitstring("mb_type", bits,
        [i \in DOMAIN bits |-> CASE i = 1 -> 27 + inc [] i = 2 -> 30 [] i = 3 -> 32 - bits[2] [] OTHER -> 32])
BTypeCode(s, r) ==
  LET first == Dirs(s, r, 1)
      way == CASE first = {1} -> 0 [] first = {2} -> 1 [] OTHER -> 2
  IN  CASE r.mode = "direct" -> 0
        [] r.mode = "inter" /\ r.part = 0 -> 1 + way
        [] r.mode = "inter" /\ r.part \in {1, 2} -> <<4, 6, 20>>[way + 1] + r.part - 1
        [] OTHER -> 22
BSubBits == << <<0>>, <<1, 0, 0>>, <<1, 0, 1>>, <<1, 1, 0, 0, 0>> >>
BSubCode(s, r, p) ==
  CASE Dirs(s, r, p) = {} -> 0 [] Dirs(s, r, p) = {1} -> 1 [] Dirs(s, r, p) = {2} -> 2 [] OTHER -> 3
IntraTypeElems(s, D, mb) ==
  LET r == D[mb]
      other(n) == ~NxN(D[n])
      inc == Exists(NeighA(mb), other) + Exists(NeighB(mb), other)
      bits == IF NxN(r) THEN <<0>> ELSE I16Bits(r)
      n == Len(bits)
  IN  CASE s.type = "I" -> Bitstring("mb_type", bits, I16Ctx(3 + inc, 6, n, TRUE))
        [] s.type = "P" -> <<<<"mb_type", 14, 1>>>> \o Bitstring("mb_type", bits, I16Ctx(17, 18, n, FALSE))
        [] s.type = "B" -> BPrefix(s, D, mb, <<1, 1, 1, 1, 0, 1>>) \o Bitstring("mb_type", bits, I16Ctx(32, 33, n, FALSE))
IntraTypeValue(r) ==
  IF NxN(r) THEN 0
  ELSE 1 + r.pred + 4 * cbp_chroma(r) + (IF cbp_luma(r) # {} THEN 12 ELSE 0)

ModeElems(s, D, mb) ==
  LET r == D[mb]
      one(i) ==
        LET c == BlkCell(mb, IF r.use = "i8" THEN 4 * (i - 1) ELSE i - 1)
            p == PredMode(D, c)
            rem == IF r.modes[i] < p THEN r.modes[i] ELSE r.modes[i] - 1
        IN  IF s.cabac
            THEN IF r.modes[i] = p THEN << <<"pred_mode", 68, 1>> >>
                 ELSE Bitstring("pred_mode", <<0, rem % 2, (rem \div 2) % 2, rem \div 4>>, <<68, 69, 69, 69>>)
            ELSE IF r.modes[i] = p THEN << <<"prev_mode", 0, 1>> >>
                 ELSE << <<"prev_mode", 0, 0>>, <<"rem_mode", 0, rem>> >>
  IN  Each(Len(r.modes), one)
ChromaModeElems(s, D, mb) ==
  LET busy(n) == Intra(D, n) /\ D[n].cmode # 0
      inc == Exists(NeighA(mb), busy) + Exists(NeighB(mb), busy)
      bits == << <<0>>, <<1, 0>>, <<1, 1, 0>>, <<1, 1, 1>> >>[D[mb].cmode + 1]
  IN  IF s.cabac THEN Bitstring("chroma_mode", bits, <<64 + inc, 67, 67>>)
      ELSE << <<"chroma_mode", 0, D[mb].cmode>> >>

T8Elem(s, D, mb) ==
  LET n8(n) == ~Skipped(D, n) /\ tr8(D[n])
  IN  << <<"t8", IF s.cabac THEN 399 + Exists(NeighA(mb), n8) + Exists(NeighB(mb), n8) ELSE 0,
           Bit(tr8(D[mb]))>> >>
CbpElems(s, D, mb) ==
  LET r == D[mb]
      \* 8x8 blocks by position; a macroblock without the bit contributes 1.
      zero(n, q) == Skipped(D, n) \/ q \notin cbp_luma(D[n])
      left(q) == IF q \in {1, 3} THEN Bit(q - 1 \notin cbp_luma(r))
                 ELSE LET off(n) == zero(n, q + 1) IN Exists(NeighA(mb), off)
      top(q) == IF q \in {2, 3} THEN Bit(q - 2 \notin cbp_luma(r))
                ELSE LET off(n) == zero(n, q + 2) IN Exists(NeighB(mb), off)
      chroma(n, v) == ~Skipped(D, n) /\ cbp_chroma(D[n]) >= v
      inc(v) == LET has(n) == chroma(n, v) IN Exists(NeighA(mb), has) + 2 * Exists(NeighB(mb), has)
      cc == cbp_chroma(r)
  IN  IF ~s.cabac THEN << <<"cbp", IF r.mode = "intra" THEN "intra" ELSE "inter", <<cbp_luma(r), cc>>>> >>
      ELSE [i \in 1..4 |-> <<"cbp_luma", 73 + left(i - 1) + 2 * top(i - 1), Bit(i - 1 \in cbp_luma(r))>>]
           \o << <<"cbp_chroma", 77 + inc(1), Bit(cc > 0)>> >>
           \o Sel(cc > 0, << <<"cbp_chroma", 77 + 4 + inc(2), Bit(cc = 2)>> >>)

\* First shape of a partition, its corner.
PartAt(mb, r, p) ==
  LET k == CHOOSE j \in DOMAIN Shapes(r) :
              Shapes(r)[j].p = p - 1 /\ \A i \in 1..j - 1 : Shapes(r)[i].p # p - 1
  IN  <<4 * mb[1] + Shapes(r)[k].r.x, 4 * mb[2] + Shapes(r)[k].r.y>>
\* The shape of an inter macroblock that covers a cell.
ShapeAt(D, c) == CHOOSE j \in DOMAIN Shapes(D[MbOf(c)]) : c \in Rect(MbOf(c), Shapes(D[MbOf(c)])[j].r)
\* The list a cell codes for, from its own syntax: never so for skip and direct.
Codes(s, D, l, c) ==
  /\ c \in Cells /\ D[MbOf(c)].mode = "inter"
  /\ l \in Dirs(s, D[MbOf(c)], Shapes(D[MbOf(c)])[ShapeAt(D, c)].p + 1)
RefElems(s, D, mb) ==
  LET r == D[mb]
      big(c) == Codes(s, D, 1, c) /\ D[MbOf(c)].ref[Shapes(D[MbOf(c)])[ShapeAt(D, c)].p + 1] > 0
      inc(at) == Bit(big(A(at))) + 2 * Bit(big(B(at)))
      one(p) == CASE 1 \notin Dirs(s, r, p) -> << >>
                  [] 1 \in Dirs(s, r, p) /\ s.cabac ->
                       [b \in 1..r.ref[p] + 1 |->
                         <<"ref_idx", 54 + (IF b = 1 THEN inc(PartAt(mb, r, p)) ELSE IF b = 2 THEN 4 ELSE 5),
                           Bit(b <= r.ref[p])>>]
                  [] OTHER -> IF s.nref = 2 THEN << <<"ref_idx", "flag", 1 - r.ref[p]>> >>
                              ELSE << <<"ref_idx", "ue", r.ref[p]>> >>
  IN  Sel(s.nref > 1, Each(NParts(r.part), one))

\* The differences of the picture, by cell: 0 where nothing was coded.
Mvd(s, D, M, l, c) ==
  LET mb == MbOf(c)
  IN  IF Codes(s, D, l, c) THEN D[mb].mv[l][ShapeAt(D, c)] - M.pred[mb][ShapeAt(D, c)][l] ELSE 0
MvdElems(s, D, M, mb, l) ==
  LET r == D[mb]
      absAt(c) == Abs(Mvd(s, D, M, l, c))
      inc(c) == LET sum == absAt(A(c)) + absAt(B(c))
                IN  CASE sum < 3 -> 0 [] sum > 32 -> 2 [] OTHER -> 1
      one(k) == IF l \notin Dirs(s, r, Shapes(r)[k].p + 1) THEN << >>
                ELSE << <<"mvd", IF s.cabac THEN inc(<<4 * mb[1] + Shapes(r)[k].r.x, 4 * mb[2] + Shapes(r)[k].r.y>>) ELSE 0,
                          r.mv[l][k] - M.pred[mb][k][l]>> >>
  IN  Each(Len(Shapes(r)), one)

ResidualElems(s, D, mb) ==
  LET r == D[mb]
      intra == Intra(D, mb)
      i16 == intra /\ ~NxN(r)
      luma(c) == LET t(x) == Total(D, x)  d(x) == Coded4(D, x)
                 IN  IF s.cabac THEN <<IF i16 THEN "i16AC" ELSE "luma4x4", Inc(c, Cells, d, intra), r.res.y[BlkAt(c) + 1]>>
                     ELSE <<"coeff", NC(t, Cells, c), r.res.y[BlkAt(c) + 1]>>
      quad(q) == IF s.cabac /\ tr8(r) THEN << <<"luma8x8", "none", QuadTotal(r, q)>> >>
                 ELSE [i \in 1..4 |-> luma(BlkCell(mb, 4 * q + i - 1))]
      dcY == LET t(x) == Total(D, x)  d(n) == CodedDcY(D, n)
             IN  IF s.cabac THEN <<"i16DC", Inc(mb, MBs, d, TRUE), r.res.dc>>
                 ELSE <<"coeff", NC(t, Cells, BlkCell(mb, 0)), r.res.dc>>
      dcC(k) == LET d(n) == CodedDcC(D, k, n)
                IN  IF s.cabac THEN <<"chromaDC", Inc(mb, MBs, d, intra), r.res.cdc[k]>>
                    ELSE <<"coeff", -1, r.res.cdc[k]>>
      acC(k, b) == LET t(x) == TotalC(D, k, x)  d(x) == CodedC(D, k, x)  c == CBlkCell(mb, b)
                   IN  IF s.cabac THEN <<"chromaAC", Inc(c, CCells, d, intra), r.res.cac[k][b + 1]>>
                       ELSE <<"coeff", NC(t, CCells, c), r.res.cac[k][b + 1]>>
      quads(i) == Sel(i - 1 \in cbp_luma(r), quad(i - 1))
  IN  Sel(i16, <<dcY>>) \o Each(4, quads)
      \o Sel(cbp_chroma(r) > 0, <<dcC(1), dcC(2)>>)
      \o Sel(cbp_chroma(r) = 2, [i \in 1..8 |-> acC(1 + (i - 1) \div 4, (i - 1) % 4)])

\* mb_qp_delta; q: QP_Y of the previous macroblock, d: its mb_qp_delta or 0.
DeltaElems(s, q, qp) ==
  LET v == qp - q.qp
      n == IF v > 0 THEN 2 * v - 1 ELSE -2 * v
  IN  IF ~s.cabac THEN << <<"mb_qp_delta", 0, v>> >>
      ELSE [i \in 1..n + 1 |-> <<"mb_qp_delta", IF i = 1 THEN 60 + Bit(q.d # 0) ELSE IF i = 2 THEN 62 ELSE 63,
                                 Bit(i <= n)>>]

HasDelta(D, mb) == ~Skipped(D, mb) /\ (cbp_luma(D[mb]) # {} \/ cbp_chroma(D[mb]) > 0
                                       \/ (Intra(D, mb) /\ ~NxN(D[mb])))
Layer(s, D, M, mb, q) ==
  LET r == D[mb]
      coded == cbp_luma(r) # {} \/ cbp_chroma(r) > 0
      pSub(b) == IF s.cabac THEN Bitstring("sub_mb_type", SubBits[r.sub[b] + 1], <<21, 22, 23>>)
                 ELSE << <<"sub_mb_type", 0, r.sub[b]>> >>
      bSub(b) == LET bits == BSubBits[BSubCode(s, r, b) + 1]
                 IN  IF s.cabac THEN Bitstring("sub_mb_type", bits,
                                       <<36, 37, IF bits = BSubBits[4] THEN 38 ELSE 39, 39, 39>>)
                     ELSE << <<"sub_mb_type", 0, BSubCode(s, r, b)>> >>
      sub == CASE r.mode # "inter" \/ r.part # 3 -> << >>
               [] s.type = "P" -> Each(4, pSub) [] s.type = "B" -> Each(4, bSub)
      type == IF s.type = "B"
              THEN IF s.cabac THEN BPrefix(s, D, mb, BTypeBits(BTypeCode(s, r)))
                   ELSE << <<"mb_type", 0, BTypeCode(s, r)>> >>
              ELSE LET b == TypeBits[r.part + 1]
                   IN  IF s.cabac THEN Bitstring("mb_type", b, <<14, 15, IF b[2] # 1 THEN 16 ELSE 17>>)
                       ELSE << <<"mb_type", 0, r.part>> >>
      offset == CASE s.type = "I" -> 0 [] s.type = "P" -> 5 [] s.type = "B" -> 23
      motion == IF r.mode = "inter"
                THEN RefElems(s, D, mb) \o MvdElems(s, D, M, mb, 1)
                     \o (IF s.type = "B" THEN MvdElems(s, D, M, mb, 2) ELSE << >>)
                ELSE << >>
      head == IF Intra(D, mb)
              THEN (IF s.cabac THEN IntraTypeElems(s, D, mb)
                    ELSE << <<"mb_type", 0, IntraTypeValue(r) + offset>> >>)
                   \o Sel(NxN(r) /\ s.t8, T8Elem(s, D, mb)) \o Sel(NxN(r), ModeElems(s, D, mb))
                   \o ChromaModeElems(s, D, mb) \o Sel(NxN(r), CbpElems(s, D, mb))
              ELSE type \o sub \o motion \o CbpElems(s, D, mb)
                   \o Sel(s.t8 /\ cbp_luma(r) # {}
                            /\ (r.mode = "inter" /\ r.part = 3 => \A b8 \in 1..4 : r.sub[b8] = 0),
                          T8Elem(s, D, mb))
  IN  head \o Sel(HasDelta(D, mb), DeltaElems(s, q, s.qp[mb]) \o ResidualElems(s, D, mb))

\* slice_data, and QP_Y of every macroblock.
SliceOf(s, D, M) ==
  LET skipflag(mb) ==
        LET coded(n) == ~Skipped(D, n)
        IN  <<"mb_skip_flag", (IF s.type = "B" THEN 24 ELSE 11) + Exists(NeighA(mb), coded) + Exists(NeighB(mb), coded), Bit(Skipped(D, mb))>>
      Mb(a, mb) ==
        LET skip == Skipped(D, mb)
            run == <<"mb_skip_run", 0, a.run>>
            pre == IF s.type = "I" THEN << >> ELSE IF s.cabac THEN <<skipflag(mb)>>
                   ELSE IF skip THEN << >> ELSE <<run>>
            q == IF HasDelta(D, mb) THEN [qp |-> s.qp[mb], d |-> s.qp[mb] - a.q.qp] ELSE [qp |-> a.q.qp, d |-> 0]
        IN  [els |-> a.els \o pre \o (IF skip THEN << >> ELSE Layer(s, D, M, mb, a.q))
                     \o Sel(s.cabac, << <<"end_of_slice", 276, Bit(mb = Raster[Cols * Rows])>> >>),
             q |-> q, qpy |-> (mb :> q.qp) @@ a.qpy,
             run |-> IF skip THEN a.run + 1 ELSE 0]
      start == [els |-> << >>, q |-> [qp |-> s.slice_qp, d |-> 0], qpy |-> [mb \in {} |-> 0], run |-> 0]
      whole(end) == [els |-> end.els \o Sel(s.type # "I" /\ ~s.cabac, << <<"mb_skip_run", 0, end.run>> >>),
                     qpy |-> end.qpy, motion |-> M.F]
  IN  whole(FoldLeft(Mb, start, Raster))
SliceData(s, D) == SliceOf(s, D, Motion(s, D))

---------------------------------------------------------------------------
\* The in-loop filter: bS and the average quantiser of every edge it filters.

Strength(s, D, F, p, q, edge) ==
  LET coef(c) == LET r == D[MbOf(c)]
                 IN  /\ r.mode \in {"inter", "direct"} /\ Quad(BlkAt(c)) \in cbp_luma(r)
                     /\ IF tr8(r) THEN QuadTotal(r, Quad(BlkAt(c))) > 0 ELSE r.res.y[BlkAt(c) + 1] > 0
      \* The pictures predicted from, with the vectors.
      uses(c) == {l \in 1..2 : F[l][c].ref >= 0}
      pic(c, l) == CASE s.type = "P" -> F[l][c].ref [] l = 1 -> s.l0[F[1][c].ref + 1] [] OTHER -> s.l1
      pics(c) == {pic(c, l) : l \in uses(c)}
      far == \E l \in uses(p) : \E m \in uses(q) :
                pic(p, l) = pic(q, m) /\ Abs(F[l][p].mv - F[m][q].mv) >= 4
  IN  CASE Intra(D, MbOf(p)) \/ Intra(D, MbOf(q)) -> IF edge THEN 4 ELSE 3
        [] coef(p) \/ coef(q) -> 2
        [] pics(p) # pics(q) \/ Cardinality(uses(p)) # Cardinality(uses(q)) \/ far -> 1
        [] OTHER -> 0
Filter(s, D, std, mb) ==
  LET cell(e, back) == IF e[1] THEN <<4 * mb[1] + e[2] - back, 4 * mb[2] + e[3]>>
                       ELSE <<4 * mb[1] + e[3], 4 * mb[2] + e[2] - back>>
      bs(e) == Strength(s, D, std.motion, cell(e, 1), cell(e, 0), e[2] = 0)
      wanted == {e \in BOOLEAN \X (0..3) \X (0..3) :
                   cell(e, 1) \in Cells /\ (~Skipped(D, mb) /\ tr8(D[mb]) => e[2] % 2 = 0)}
  IN  {<<e, bs(e), (std.qpy[MbOf(cell(e, 1))] + std.qpy[mb] + 1) \div 2>> :
         e \in {x \in wanted : bs(x) > 0}}
=============================================================================
