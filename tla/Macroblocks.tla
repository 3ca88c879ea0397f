---------------------------- MODULE Macroblocks ----------------------------
(***************************************************************************)
(* One picture through the macroblock layer                                *)
(* (src/src/encoder/macroblock.c: y264_frame_analyze, the wavefront cells, *)
(* y264_frame_emit; deblock.c).                                            *)
(*                                                                         *)
(* Analysis runs on a wavefront: a row may be two macroblocks behind the   *)
(* one above.  A cell decides its macroblock from what its neighbours left *)
(* in the grids and leaves its own; the record it keeps is all the         *)
(* emission has.  The emission is one serial pass, later; the in-loop      *)
(* filter follows the analysis, row by row when the staircase asks for it  *)
(* (inline) and by then needs the quantisers a decoder will derive, which  *)
(* depend on the syntax not written yet.                                   *)
(*                                                                         *)
(* film is a picture and what the search decides in it (the decisions are  *)
(* the environment's; predictors, P_Skip and direct motion are computed):  *)
(* type, cabac, nref, t8, slice_qp, qp and dec by macroblock, inline; of a *)
(* B picture also what MbBSlice lists.                                     *)
(***************************************************************************)
EXTENDS MbBSlice, MbDeblock

CONSTANT Films

VARIABLES film,
          g,       \* the frame-wide grids
          cur,     \* row -> macroblocks of it decided
          rec,     \* macroblock -> its record
          lane,    \* row -> the macroblocks its rate estimator has adapted to
          wpp,     \* row -> the estimator handed to the row below
          rowqc,   \* row -> the quantiser chain after it
          dbl,     \* macroblock -> the edges filtered
          out      \* the elements coded
vars == <<film, g, cur, rec, lane, wpp, rowqc, dbl, out>>

RowSet == 0..Rows - 1
RowMBs(r) == [i \in 1..Cols |-> <<i - 1, r>>]
Absent == [mode |-> "none"]
Unwritten == << <<-1, -1>> >>
NoChain == [prev |-> -1, last |-> 0]

---------------------------------------------------------------------------
\* Analysis.

\* The predictors the search of an inter macroblock sees, in coding order: each
\* (sub-)partition is painted before the next is searched.
shape_mvp(f, mb, d, k) ==
  LET sh == Shapes(d)[k]  cref == d.ref[sh.p + 1]
  IN  CASE d.part = 0 -> mv_predict(f, mb, cref)
        [] d.part \in {1, 2} -> partition_mvp(f, mb, sh.r, d.part, sh.p, cref)
        [] d.part = 3 -> sub_mvp(f, mb, sh.r, cref)
eval_inter_part(f0, mb, d) ==
  LET sh == Shapes(d)
      Search(a, k) ==
        [f |-> set_region_motion(a.f, Rect(mb, sh[k].r), d.mv[1][k], d.ref[sh[k].p + 1]),
         pmv |-> Append(a.pmv, shape_mvp(a.f, mb, d, k))]
  IN  FoldLeft(Search, [f |-> f0, pmv |-> << >>], [k \in DOMAIN sh |-> k]).pmv

\* A 16x16 block without residual on the P_Skip vector is coded as P_Skip.
analyze_p_mb(mb, d) ==
  LET smv == mv_skip(g.mot[1], mb)
      skips == \/ d.mode = "skip"
               \/ /\ d.mode = "inter" /\ d.part = 0 /\ d.ref[1] = 0
                  /\ d.mv[1][1] = smv /\ no_res(d)
  IN  CASE skips -> [mode |-> "skip", smv |-> smv]
        [] d.mode = "inter" -> [pmv |-> <<eval_inter_part(g.mot[1], mb, d)>>] @@ d
        [] d.mode = "intra" -> d

\* Direct modes only where the derivation holds; something else wins otherwise.
NeedsDirect(d) == d.mode \in {"skip", "direct"} \/ (d.mode = "inter" /\ DirectQuads(d) # {})
with_direct(mb, d, dm) ==
  CASE d.mode \in {"skip", "direct"} -> [dm |-> dm] @@ d
    [] d.mode = "inter" -> [pmv |-> [l \in 1..2 |-> search_b(g.mot[l], mb, d, dm, l)], dm |-> dm] @@ d
    [] d.mode = "intra" -> d
analyze_b_mb(mb, d, dm) == with_direct(mb, IF NeedsDirect(d) /\ dm = << >> THEN film.other ELSE d, dm)

\* An Intra analysis leaves its modes, an Intra verdict of a P slice has been
\* priced by the CAVLC writer, which unsets the motion.
AfterTrials(mb, r) ==
  LET trial == IF r.mode = "intra" THEN IntraModeGrid(g, mb, r) ELSE Paint(g.i4, MbCells(mb), 0)
      tried == [g EXCEPT !.i4 = trial,
                         !.tr8[mb] = IF r.mode = "skip" THEN 0 ELSE Bit(tr8(r))]
  IN  IF film.type = "P" /\ r.mode = "intra" THEN set_mb_intra_motion(tried, mb) ELSE tried

Skipped_p(h, mb, r) == mark_mb_meta(film, clear_mb_nnz(h, mb), mb, r.smv, 0)
Skipped_b(h, mb, r) == commit_direct_motion(clear_mb_nnz(h, mb), mb, r.dm)
Authored(h, mb, r) ==
  CASE r.mode = "skip" ->
         LET k == IF film.type = "B" THEN Skipped_b(h, mb, r) ELSE Skipped_p(h, mb, r)
         IN  IF film.cabac THEN [k EXCEPT !.word[mb] = SkipWord] ELSE k
    [] r.mode = "direct" ->
         commit_direct_motion(IF film.cabac THEN author_b_direct_cabac(film, h, mb, r)
                              ELSE author_residual(film, h, mb, r), mb, r.dm)
    [] r.mode = "inter" /\ film.type = "P" ->
         LET k == commit_inter_motion(h, mb, r)
         IN  IF film.cabac THEN author_inter_cabac(film, k, mb, r) ELSE author_residual(film, k, mb, r)
    [] r.mode = "inter" /\ film.type = "B" ->
         commit_b_motion(IF film.cabac THEN author_b_inter_cabac(film, h, mb, r)
                         ELSE author_residual(film, h, mb, r), mb, r)
    [] r.mode = "intra" ->
         LET k == IF film.cabac THEN author_intra_cabac(film, h, mb, r) ELSE author_residual(film, h, mb, r)
         IN  IF (film.type = "P" /\ ~film.cabac) \/ (film.type = "B" /\ film.cabac) THEN set_mb_intra_motion(k, mb) ELSE k

---------------------------------------------------------------------------
\* The quantiser chain.

qpd(ch, qp) == [prev |-> qp, last |-> qp - ch.prev]
mb_qp_post(ch) == [ch EXCEPT !.last = 0]
advance_qpd_chain(ch, qp, codes) == IF codes THEN qpd(ch, qp) ELSE mb_qp_post(ch)
\* Mutant: the filter takes the quantiser the macroblock was coded with.
commit_qpy_Coded(a, mb, r) ==
  [ch |-> advance_qpd_chain(a.ch, film.qp[mb], mb_codes_qpd(r)),
   mbqp |-> [a.mbqp EXCEPT ![mb] = film.qp[mb]]]
commit_qpy(a, mb, r) ==
  LET ch == advance_qpd_chain(a.ch, film.qp[mb], mb_codes_qpd(r))
  IN  [ch |-> ch, mbqp |-> [a.mbqp EXCEPT ![mb] = ch.prev]]
qc0 == [prev |-> film.slice_qp, last |-> 0]
wf_row_qpy_resolve(mbqp, r, qc, recs) ==
  FoldLeft(LAMBDA a, mb : commit_qpy(a, mb, recs[mb]), [ch |-> qc, mbqp |-> mbqp], RowMBs(r))

---------------------------------------------------------------------------
\* A cell of the analysis wavefront.

\* Mutant: a row is one macroblock behind the row above, not two.
Ready_Lag1(r) == r > 0 => cur[r - 1] >= (IF cur[r] + 1 < Cols THEN cur[r] + 1 ELSE Cols)
Ready(r) == r > 0 => cur[r - 1] >= (IF cur[r] + 2 < Cols THEN cur[r] + 2 ELSE Cols)
Seed(r) == IF r = 0 THEN << >> ELSE wpp[r - 1]
analyze_mb(mb, d) ==
  CASE film.type = "I" -> d
    [] film.type = "P" -> analyze_p_mb(mb, d)
    [] film.type = "B" -> analyze_b_mb(mb, d, direct_mv(film, g, mb))
\* The grids are g1 once macroblock mb, seeded so, is decided as recs says.
Decided(r, mb, seeded, recs) ==
  LET est == Append(seeded, mb)
      g1 == Authored(AfterTrials(mb, recs[mb]), mb, recs[mb])
      rowdone == film.inline /\ cur[r] = Cols - 1
      row == wf_row_qpy_resolve(g.mbqp, r, IF r = 0 THEN qc0 ELSE rowqc[r - 1], recs)
  IN  /\ cur' = [cur EXCEPT ![r] = @ + 1]
      /\ rec' = recs
      /\ lane' = [lane EXCEPT ![r] = est]
      /\ wpp' = IF cur[r] = 1 THEN [wpp EXCEPT ![r] = est] ELSE wpp
      /\ g' = IF rowdone THEN [g1 EXCEPT !.mbqp = row.mbqp] ELSE g1
      /\ rowqc' = IF rowdone THEN [rowqc EXCEPT ![r] = row.ch] ELSE rowqc
      /\ UNCHANGED <<film, dbl, out>>
\* The record, with the estimator it was priced with.
PricedWith(est, r) == [k \in {"est"} \cup DOMAIN r |-> IF k = "est" THEN est ELSE r[k]]
EstSeed(r) == IF cur[r] = 0 THEN Seed(r) ELSE lane[r]
Cell(r) ==
  LET mb == <<cur[r], r>>
  IN  /\ cur[r] < Cols /\ Ready(r)
      /\ Decided(r, mb, EstSeed(r), [rec EXCEPT ![mb] = PricedWith(EstSeed(r), analyze_mb(mb, film.dec[mb]))])

Analysed == \A r \in RowSet : cur[r] = Cols
\* The frame-level resolve, when the rows have not done it.
Resolve ==
  LET Row(a, r) == wf_row_qpy_resolve(a.mbqp, r - 1, a.ch, rec)
      all == FoldLeft(Row, [ch |-> qc0, mbqp |-> g.mbqp], [i \in 1..Rows |-> i])
  IN  /\ Analysed /\ rowqc[Rows - 1] = NoChain
      /\ g' = [g EXCEPT !.mbqp = all.mbqp]
      /\ rowqc' = [rowqc EXCEPT ![Rows - 1] = all.ch]
      /\ UNCHANGED <<film, cur, rec, lane, wpp, dbl, out>>

Filtered(r) == \A c \in 0..Cols - 1 : dbl[<<c, r>>] # {<<"none">>}
y264_deblock_rows(r) ==
  /\ ~Filtered(r) /\ \A q \in 0..r - 1 : Filtered(q)
  /\ IF film.inline THEN rowqc[r] # NoChain ELSE rowqc[Rows - 1] # NoChain
  /\ dbl' = [mb \in MBs |-> IF mb[2] = r THEN deblock_mb(g, film.type = "I", mb) ELSE dbl[mb]]
  /\ UNCHANGED <<film, g, cur, rec, lane, wpp, rowqc, out>>

---------------------------------------------------------------------------
\* Emission: y264_frame_emit, the whole picture.

delta_elements(ch, qp) ==
  IF film.cabac THEN cabac_mb_qp_delta(ch, qp) ELSE <<El("mb_qp_delta", 0, qp - ch.prev)>>
IntraOffset == CASE film.type = "I" -> 0 [] film.type = "P" -> 5 [] film.type = "B" -> 23
IntraPrefix(h, mb) ==
  CASE film.type = "I" -> << >> [] film.type = "P" -> <<El("mb_type", 14, 1)>> [] film.type = "B" -> BIntraPrefix(h, mb)
emit_mb(h, mb, r) ==
  CASE r.mode = "inter" /\ film.type = "P" ->
         IF film.cabac THEN emit_inter_cabac(film, h, mb, r) ELSE emit_inter_mb(film, h, mb, r)
    [] r.mode = "inter" /\ film.type = "B" ->
         IF film.cabac THEN emit_b_inter_cabac(film, h, mb, r) ELSE emit_b_mb(film, h, mb, r)
    [] r.mode = "direct" ->
         IF film.cabac THEN emit_b_direct_cabac(film, h, mb, r)
         ELSE emit_inter_residual(film, h, mb, r, <<El("mb_type", 0, 0)>>)
    [] r.mode = "intra" ->
         IF film.cabac THEN emit_intra_cabac_420(film, h, mb, r, IntraPrefix(h, mb))
         ELSE emit_intra_syntax(film, h, mb, r, IntraOffset)
\* The CAVLC writer of an Intra macroblock writes its transform size and its motion again.
emit_intra_meta(h, mb, r) ==
  LET k == [h EXCEPT !.tr8[mb] = Bit(r.use = "i8")]
  IN  IF film.type = "P" THEN set_mb_intra_motion(k, mb) ELSE k

\* e: what is out, the grids, the quantiser chain, and the run of skipped macroblocks.
\* k: the macroblock's elements; skipped macroblocks have none.
Elements(e, mb) ==
  IF rec[mb].mode = "skip" THEN Emitted(<< >>, FALSE, << >>) ELSE emit_mb(e.g, mb, rec[mb])
Coded(e, mb, k) == k.head \o (IF k.delta THEN delta_elements(e.ch, film.qp[mb]) ELSE << >>) \o k.tail
put_cavlc(e, mb, k) ==
  IF rec[mb].mode = "skip" THEN [e EXCEPT !.run = @ + 1, !.ch = mb_qp_post(@)]
  ELSE [out |-> e.out \o (IF film.type = "I" THEN << >> ELSE <<El("mb_skip_run", 0, e.run)>>) \o Coded(e, mb, k),
        g |-> IF rec[mb].mode = "intra" THEN emit_intra_meta(e.g, mb, rec[mb]) ELSE e.g,
        ch |-> advance_qpd_chain(e.ch, film.qp[mb], k.delta), run |-> 0]
put_cabac(e, mb, k) ==
  LET skip == Bit(rec[mb].mode = "skip")
      flag == IF film.type = "I" THEN << >>
              ELSE <<cabac_mb_skip(e.g, mb, skip, IF film.type = "B" THEN 24 ELSE 11)>>
  IN  [g |-> e.g,
       out |-> e.out \o flag \o Coded(e, mb, k)
               \o <<El("end_of_slice", 276, Bit(mb = <<Cols - 1, Rows - 1>>))>>,
       ch |-> advance_qpd_chain(e.ch, film.qp[mb], k.delta), run |-> 0]
\* The writers of a slice: emit_i_..., emit_p_... and emit_b_...
emit_cavlc(e, mb) == put_cavlc(e, mb, Elements(e, mb))
emit_cabac(e, mb) == put_cabac(e, mb, Elements(e, mb))
Written(e) ==
  /\ out' = IF film.cabac \/ film.type = "I" THEN e.out ELSE Append(e.out, El("mb_skip_run", 0, e.run))
  /\ g' = e.g
y264_frame_emit ==
  LET start == [out |-> << >>, g |-> g, ch |-> qc0, run |-> 0]
  IN  /\ Analysed /\ rowqc[Rows - 1] # NoChain /\ out = << >>
      /\ Written(IF film.cabac THEN FoldLeft(emit_cabac, start, Raster) ELSE FoldLeft(emit_cavlc, start, Raster))
      /\ UNCHANGED <<film, cur, rec, lane, wpp, rowqc, dbl>>

---------------------------------------------------------------------------
\* Frame start: the references are reset, and with CABAC the cbp words and the
\* vector differences; the other grids hold the previous picture.
Stale == 5
Init ==
  /\ film \in Films
  /\ g = [mot  |-> [l \in 1..2 |-> [mv |-> [c \in Cells |-> Stale], ref |-> [c \in Cells |-> -1]]],
          mvd  |-> [l \in 1..2 |-> [c \in Cells |-> 0]],
          i4   |-> [c \in Cells |-> Stale],
          nnz  |-> [c \in Cells |-> Stale],
          nnzc |-> [k \in 1..2 |-> [c \in CCells |-> Stale]],
          word |-> [mb \in MBs |-> NoWord],
          tr8  |-> [mb \in MBs |-> 0],
          mbqp |-> [mb \in MBs |-> Stale]]
  /\ cur = [r \in RowSet |-> 0]
  /\ rec = [mb \in MBs |-> Absent]
  /\ lane = [r \in RowSet |-> << >>]
  /\ wpp = [r \in RowSet |-> Unwritten]
  /\ rowqc = [r \in RowSet |-> NoChain]
  /\ dbl = [mb \in MBs |-> {<<"none">>}]
  /\ out = << >>

Done == out # << >> /\ Filtered(Rows - 1)
Next == \/ \E r \in RowSet : Cell(r) \/ y264_deblock_rows(r)
        \/ Resolve \/ y264_frame_emit
        \/ (Done /\ UNCHANGED vars)
Spec == Init /\ [][Next]_vars
---------------------------------------------------------------------------
\* The macroblocks the estimator of <<c, r>> has adapted to when the rows are
\* coded one after the other: two of every row above, and those before it.
EstOf(c, r) ==
  [i \in 1..2 * r + c |-> IF i <= 2 * r THEN <<(i - 1) % 2, (i - 1) \div 2>> ELSE <<i - 1 - 2 * r, r>>]
\* The rate estimator a CABAC macroblock is priced with has adapted to what the
\* stream order of wavefront parallel processing gives, however the rows overlap.
EstAsSerial ==
  film.cabac =>
    \A mb \in MBs : rec[mb] # Absent =>
      rec[mb].est = EstOf(mb[1], IF Cols = 1 THEN 0 ELSE mb[2])
=============================================================================
