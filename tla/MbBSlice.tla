------------------------------ MODULE MbBSlice ------------------------------
(***************************************************************************)
(* B macroblocks: direct motion, the grids a B macroblock writes, and its  *)
(* syntax (src/src/encoder/macroblock.c, and dpb_store of encoder.c for    *)
(* the co-located field).                                                  *)
(*                                                                         *)
(* Of a decision, dir gives the lists each partition uses, {} for a direct *)
(* quadrant; list 1 has one reference, so ref is of list 0.  dm is the     *)
(* direct motion by quadrant, [ref, mv] by list.  A direct macroblock has  *)
(* four direct quadrants.  s has also: poc, l0 (the POCs of list 0), l1    *)
(* (of the one of list 1), direct ("spatial", "temporal"), mvlim, colpic   *)
(* (the motion of the list-1 picture, and the POCs of its lists).          *)
(***************************************************************************)
EXTENDS MbEncode

---------------------------------------------------------------------------
\* Direct motion.

\* What a reference keeps of its motion: list 0's, or list 1's where only it is used.
StoredCol(pic, c) ==
  LET used == {l \in 1..2 : pic.mot[l].ref[c] >= 0}
      l == Min(used)
  IN  IF used = {} THEN [ref |-> -1, mv |-> 0, poc |-> -1]
      ELSE [ref |-> pic.mot[l].ref[c], mv |-> pic.mot[l].mv[c],
            poc |-> pic.pocs[l][pic.mot[l].ref[c] + 1]]
OuterCorner(mb, q) == <<4 * mb[1] + 3 * ((q - 1) % 2), 4 * mb[2] + 3 * ((q - 1) \div 2)>>
Col(s, mb, q) == StoredCol(s.colpic, OuterCorner(mb, q))

min_pos_ref(f, mb) ==
  LET x == 4 * mb[1]  y == 4 * mb[2]
      C == nb_at(f, x + 4, y - 1)
      corner == IF C.avail THEN C ELSE nb_at(f, x - 1, y - 1)
      refs == {nb_at(f, x - 1, y).ref, nb_at(f, x, y - 1).ref, corner.ref} \ {-1}
  IN  IF refs = {} THEN -1 ELSE Min(refs)

spatial_direct(s, g, mb) ==
  LET ref == [l \in 1..2 |-> min_pos_ref(g.mot[l], mb)]
      directZero == ref = <<-1, -1>>
      colZero(q) == Col(s, mb, q).ref = 0 /\ Abs(Col(s, mb, q).mv) <= 1
      mv(l, q) == IF directZero \/ ref[l] < 0 \/ (ref[l] = 0 /\ colZero(q)) THEN 0
                  ELSE mv_predict(g.mot[l], mb, ref[l])
  IN  [q \in 1..4 |-> [ref |-> IF directZero THEN <<0, 0>> ELSE ref, mv |-> <<mv(1, q), mv(2, q)>>]]

Clip(lo, hi, v) == Max({lo, Min({hi, v})})
dist_scale(s, poc0) ==
  LET tb == Clip(-128, 127, s.poc - poc0)
      td == Clip(-128, 127, s.l1 - poc0)
  IN  Clip(-1024, 1023, (tb * ((16384 + Abs(td \div 2)) \div td) + 32) \div 64)
\* << >>: direct is not available to the macroblock.
temporal_direct(s, mb) ==
  LET named(q) == {k \in 1..s.nref : s.l0[k] = Col(s, mb, q).poc}
      intra(q) == Col(s, mb, q).poc < 0
      r(q) == IF intra(q) THEN 1 ELSE Min(named(q))
      mvCol(q) == IF intra(q) THEN 0 ELSE Col(s, mb, q).mv
      mvL0(q) == (dist_scale(s, s.l0[r(q)]) * mvCol(q) + 128) \div 256
      inRange(v) == -s.mvlim <= v /\ v < s.mvlim
  IN  IF \A q \in 1..4 : /\ intra(q) \/ named(q) # {}
                         /\ inRange(mvL0(q)) /\ inRange(mvL0(q) - mvCol(q))
      THEN [q \in 1..4 |-> [ref |-> <<r(q) - 1, 0>>, mv |-> <<mvL0(q), mvL0(q) - mvCol(q)>>]]
      ELSE << >>
direct_mv(s, g, mb) == IF s.direct = "temporal" THEN temporal_direct(s, mb) ELSE spatial_direct(s, g, mb)

---------------------------------------------------------------------------
\* Search and commit.

part_ref(d, dm, p, l) ==
  CASE d.dir[p] = {}                    -> dm[p].ref[l]
    [] d.dir[p] # {} /\ l \notin d.dir[p] -> -1
    [] l \in d.dir[p]                   -> IF l = 1 THEN d.ref[p] ELSE 0
part_mv(d, dm, p, l) ==
  CASE part_ref(d, dm, p, l) < 0 -> 0
    [] part_ref(d, dm, p, l) >= 0 /\ d.dir[p] = {} -> dm[p].mv[l]
    [] OTHER -> d.mv[l][p]

\* The predictors of a list, each partition painted before the next is searched.
search_b(f0, mb, d, dm, l) ==
  LET sh == Shapes(d)
      cref(k) == IF l = 1 THEN d.ref[k] ELSE 0
      mvp(f, k) == IF d.part = 0 THEN mv_predict(f, mb, cref(k))
                   ELSE partition_mvp(f, mb, sh[k].r, d.part, k - 1, cref(k))
      Search(a, k) == [f |-> set_region_motion(a.f, Rect(mb, sh[k].r), part_mv(d, dm, k, l), part_ref(d, dm, k, l)),
                       pmv |-> Append(a.pmv, mvp(a.f, k))]
  IN  FoldLeft(Search, [f |-> f0, pmv |-> << >>], [k \in DOMAIN sh |-> k]).pmv

commit_b_motion(g, mb, r) ==
  [g EXCEPT !.mot = [l \in 1..2 |->
                       [mv  |-> PerShape(mb, r, LAMBDA k : part_mv(r, r.dm, k, l)) @@ @[l].mv,
                        ref |-> PerShape(mb, r, LAMBDA k : part_ref(r, r.dm, k, l)) @@ @[l].ref]],
            !.i4 = Paint(@, MbCells(mb), 2)]
\* The vector of a list direct does not use is left as it was.
commit_direct_motion(g, mb, dm) ==
  LET at(c) == dm[1 + Quad(BlkAt(c))]
      moved(l) == {c \in MbCells(mb) : at(c).ref[l] >= 0}
  IN  [g EXCEPT !.mot = [l \in 1..2 |->
                           [mv  |-> [c \in moved(l) |-> at(c).mv[l]] @@ @[l].mv,
                            ref |-> [c \in MbCells(mb) |-> at(c).ref[l]] @@ @[l].ref]],
                !.i4 = Paint(@, MbCells(mb), 2)]

BDirectWord(r) == [InterWord(r) EXCEPT !.direct = 1]
DirectQuads(r) == IF r.part = 3 THEN {q \in 0..3 : r.dir[q + 1] = {}} ELSE {}
author_b_direct_cabac(s, g, mb, r) ==
  [author_residual(s, g, mb, r) EXCEPT !.word[mb] = BDirectWord(r)]
\* B_8x8 writes the differences of both lists, the others those of the lists they use.
author_b_inter_cabac(s, g, mb, r) ==
  LET writes(l) == r.part = 3 \/ l \in r.dir[1]
      mvd(k, l) == IF l \in r.dir[k] THEN author_mvd(r.mv[l][k] - r.pmv[l][k]) ELSE 0
  IN  [author_residual(s, g, mb, r) EXCEPT
         !.mvd = [l \in 1..2 |-> IF writes(l) THEN PerShape(mb, r, LAMBDA k : mvd(k, l)) @@ @[l] ELSE @[l]],
         !.word[mb] = [InterWord(r) EXCEPT !.dq = DirectQuads(r)]]

---------------------------------------------------------------------------
\* Syntax.

\* Of a mode: L0, L1, Bi; of a B_8x8 quadrant 0 is direct.
DirCode(dir) == CASE dir = {} -> 0 [] dir = {1} -> 1 [] dir = {2} -> 2 [] dir = {1, 2} -> 3
UsersOf(r, l) == SelectSeq([k \in 1..NParts(r.part) |-> k], LAMBDA k : l \in r.dir[k])

B_PART_GOLOMB == << <<4, 5>>, <<6, 7>>, <<20, 21>> >>
emit_b_mb(s, g, mb, r) ==
  LET type == CASE r.part = 3 -> 22
                [] r.part = 0 -> DirCode(r.dir[1])
                [] OTHER      -> B_PART_GOLOMB[DirCode(r.dir[1])][r.part]
      mvds(l) == OverSeq(UsersOf(r, l), LAMBDA k : El("mvd", 0, r.mv[l][k] - r.pmv[l][k]))
  IN  emit_inter_residual(s, g, mb, r,
        <<El("mb_type", 0, type)>>
        \o (IF r.part = 3 THEN OverSeq(r.dir, LAMBDA d : El("sub_mb_type", 0, DirCode(d))) ELSE << >>)
        \o FlattenSeq(OverSeq(UsersOf(r, 1), LAMBDA k : write_ref_idx_cavlc(r.ref[k], s.nref)))
        \o mvds(1) \o mvds(2))

b_mbtype_ctx(g, mb) ==
  LET coded(w) == w.avail /\ w.skip = 0 /\ w.direct = 0
  IN  Bit(coded(LeftOf(g, mb))) + Bit(coded(TopOf(g, mb)))
B_PART_CBITS == << << <<1, 0, 0, 0, 1>>, <<1, 0, 0, 1, 0>> >>,
                   << <<1, 0, 0, 1, 1>>, <<1, 0, 1, 0, 0>> >>,
                   << <<1, 1, 1, 0, 0, 0>>, <<1, 1, 1, 0, 0, 1>> >> >>
B16Bits == << <<0, 0>>, <<0, 1>>, <<1, 0, 0, 0, 0>> >>
BTypeBins(r) ==
  LET bits == CASE r.part = 3 -> <<1, 1, 1, 1, 1>>
                [] r.part = 0 -> B16Bits[DirCode(r.dir[1])]
                [] OTHER      -> B_PART_CBITS[DirCode(r.dir[1])][r.part]
  IN  Bins("mb_type", [i \in DOMAIN bits |->
             <<CASE i = 1 -> 30 [] i = 2 -> 32 - bits[1] [] OTHER -> 32, bits[i]>>])
BSubType == << << <<36, 0>> >>, << <<36, 1>>, <<37, 0>>, <<39, 0>> >>, << <<36, 1>>, <<37, 0>>, <<39, 1>> >>,
               << <<36, 1>>, <<37, 1>>, <<38, 0>>, <<39, 0>>, <<39, 0>> >> >>
\* Mutant: the direct quadrants of a B_8x8 neighbour are forgotten.
b_ref_nb_NoQuadrants(g, c) ==
  IF c \notin Cells THEN 0
  ELSE LET w == mbcbp_get(g, c[1] \div 4, c[2] \div 4)
       IN  IF ~w.avail \/ w.skip = 1 \/ w.direct = 1 THEN 0 ELSE Bit(g.mot[1].ref[c] > 0)
\* A neighbour that is skipped or direct, as a macroblock or as a quadrant,
\* counts as reference 0 whatever its derived reference.
b_ref_nb(g, c) ==
  IF c \notin Cells THEN 0
  ELSE LET w == mbcbp_get(g, c[1] \div 4, c[2] \div 4)
       IN  IF ~w.avail \/ w.skip = 1 \/ w.direct = 1 \/ Quad(BlkAt(c)) \in w.dq THEN 0
           ELSE Bit(g.mot[1].ref[c] > 0)
\* Inside the macroblock the record tells: of B_8x8 the quadrant, else partition 0.
b_ref_inc(g, c, mb, r) ==
  IF c[1] >= 4 * mb[1] /\ c[2] >= 4 * mb[2]
  THEN LET p == IF r.part = 3 THEN 1 + Quad(BlkAt(c)) ELSE 1 IN Bit(1 \in r.dir[p] /\ r.ref[p] > 0)
  ELSE b_ref_nb(g, c)
b_ref_idx(g, mb, r, p) ==
  LET c == Corner(mb, part_rect(r.part, p - 1))
  IN  RefBins(r.ref[p], b_ref_inc(g, <<c[1] - 1, c[2]>>, mb, r) + 2 * b_ref_inc(g, <<c[1], c[2] - 1>>, mb, r))
emit_b_inter_cabac(s, g, mb, r) ==
  LET mvds(l) == OverSeq(UsersOf(r, l), LAMBDA k :
                   emit_mvd(g.mvd[l], Corner(mb, part_rect(r.part, k - 1)), r.mv[l][k] - r.pmv[l][k]))
  IN  emit_cabac_inter_tail(s, g, mb, r,
        Bins("mb_type", << <<27 + b_mbtype_ctx(g, mb), 1>> >>) \o BTypeBins(r)
        \o (IF r.part = 3
            THEN FlattenSeq(OverSeq(r.dir, LAMBDA d : Bins("sub_mb_type", BSubType[DirCode(d) + 1])))
            ELSE << >>)
        \o (IF s.nref > 1 THEN FlattenSeq(OverSeq(UsersOf(r, 1), LAMBDA k : b_ref_idx(g, mb, r, k)))
            ELSE << >>)
        \o mvds(1) \o mvds(2))
emit_b_direct_cabac(s, g, mb, r) ==
  emit_cabac_inter_tail(s, g, mb, r, Bins("mb_type", << <<27 + b_mbtype_ctx(g, mb), 0>> >>))
BIntraPrefix(g, mb) ==
  Bins("mb_type", << <<27 + b_mbtype_ctx(g, mb), 1>>, <<30, 1>>, <<31, 1>>, <<32, 1>>, <<32, 0>>, <<32, 1>> >>)
=============================================================================
