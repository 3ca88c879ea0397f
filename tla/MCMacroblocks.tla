--------------------------- MODULE MCMacroblocks ---------------------------
(***************************************************************************)
(* Instances of Macroblocks, and what the layer owes a decoder.            *)
(*                                                                         *)
(* The decisions of a picture are an orthogonal array over a table: any    *)
(* two macroblocks, or a macroblock and a parameter of the slice, take     *)
(* every combination of their values in some film.                         *)
(***************************************************************************)
EXTENDS Macroblocks, MbDecoder

NoRes == [y |-> [b \in 1..16 |-> 0], dc |-> 0, want8 |-> FALSE, cdc |-> <<0, 0>>,
          cac |-> << <<0, 0, 0, 0>>, <<0, 0, 0, 0>> >>]
\* Luma in the quadrants of quads, on the blocks b with b % 4 in at.
Luma(quads, at, n) ==
  [NoRes EXCEPT !.y = [b \in 1..16 |-> IF Quad(b - 1) \in quads /\ (b - 1) % 4 \in at THEN n ELSE 0]]
Chroma(res, dc, ac) == [res EXCEPT !.cdc = <<dc, 1 - dc>>, !.cac = << <<0, ac, 0, 0>>, <<ac, 0, 0, 2 * ac>> >>]
Wide(res) == [res EXCEPT !.want8 = TRUE]

Inter(part, sub, ref, mv, res) ==
  [mode |-> "inter", part |-> part, sub |-> sub, ref |-> ref, mv |-> <<mv>>, res |-> res]
Bi(part, dir, ref, mv0, mv1, res) ==
  [mode |-> "inter", part |-> part, sub |-> IF part = 3 THEN <<0, 0, 0, 0>> ELSE << >>, dir |-> dir,
   ref |-> ref, mv |-> <<mv0, mv1>>, res |-> res]
DirectMb(res) ==
  [mode |-> "direct", part |-> 3, sub |-> <<0, 0, 0, 0>>, dir |-> [p \in 1..4 |-> {}], res |-> res]
IntraMb(use, modes, pred, cmode, res) ==
  [mode |-> "intra", part |-> 0, sub |-> << >>, use |-> use, modes |-> modes, pred |-> pred,
   cmode |-> cmode, res |-> res]
Modes(n, a, b) == [i \in 1..n |-> IF i % 3 = 0 THEN a ELSE b]

IntraTable == <<
  IntraMb("i4", Modes(16, 0, 8), 0, 0, NoRes),
  IntraMb("i4", Modes(16, 2, 1), 0, 3, Chroma(Luma({1, 2}, {0, 3}, 4), 0, 1)),
  IntraMb("i8", Modes(4, 5, 2), 0, 1, Luma({0, 3}, {1}, 3)),
  IntraMb("i8", Modes(4, 0, 1), 0, 0, Chroma(NoRes, 1, 0)),
  IntraMb("i16", << >>, 2, 0, NoRes),
  IntraMb("i16", << >>, 3, 2, [Chroma(Luma({2}, {2}, 5), 1, 0) EXCEPT !.dc = 2]),
  IntraMb("i16", << >>, 0, 0, [Chroma(NoRes, 0, 3) EXCEPT !.dc = 1]) >>

InterTable == <<
  [mode |-> "skip", part |-> 0],
  Inter(0, << >>, <<0>>, <<0>>, NoRes),
  Inter(0, << >>, <<0>>, <<5>>, Wide(Luma({0, 1}, {3}, 2))),
  Inter(0, << >>, <<2>>, <<-40>>, Chroma(NoRes, 0, 0)),
  Inter(1, << >>, <<0, 1>>, <<5, 5>>, Chroma(Luma({1}, {0, 1}, 7), 1, 2)),
  Inter(1, << >>, <<1, 0>>, <<-3, 0>>, NoRes),
  Inter(2, << >>, <<1, 0>>, <<2, 9>>, Wide(Luma({2, 3}, {0}, 1))),
  Inter(2, << >>, <<0, 2>>, <<0, 60>>, Luma({3}, {2, 3}, 3)),
  Inter(3, <<0, 0, 0, 0>>, <<0, 1, 2, 0>>, <<1, -6, 8, 0>>, Wide(Chroma(Luma({0, 2}, {1, 2}, 2), 1, 0))),
  Inter(3, <<1, 0, 2, 3>>, <<0, 0, 1, 0>>, <<4, 0, 30, 1, 1, 6, -2, 0, 3>>, Luma({1, 3}, {0}, 1)),
  IntraTable[2], IntraTable[3], IntraTable[7] >>

BTable == <<
  [mode |-> "skip", part |-> 0],
  DirectMb(NoRes),
  DirectMb(Wide(Chroma(Luma({0, 3}, {1}, 2), 1, 0))),
  Bi(0, <<{1}>>, <<2>>, <<7>>, <<0>>, NoRes),
  Bi(0, <<{2}>>, <<0>>, <<0>>, <<-4>>, Luma({1}, {2}, 1)),
  Bi(0, <<{1, 2}>>, <<1>>, <<45>>, <<-9>>, Wide(Luma({0, 1, 2}, {0, 1}, 3))),
  Bi(1, <<{1}, {1}>>, <<0, 1>>, <<3, -2>>, <<0, 0>>, Chroma(NoRes, 0, 1)),
  Bi(2, <<{2}, {2}>>, <<0, 0>>, <<0, 0>>, <<6, 1>>, NoRes),
  Bi(1, <<{1, 2}, {1, 2}>>, <<2, 0>>, <<1, 1>>, <<-2, 20>>, Luma({2}, {3}, 6)),
  Bi(3, <<{}, {1}, {2}, {1, 2}>>, <<1, 1, 1, 1>>, <<0, 4, 0, -5>>, <<0, 0, 2, 33>>, NoRes),
  Bi(3, <<{1, 2}, {}, {1}, {}>>, <<2, 2, 2, 2>>, <<-1, 0, 3, 0>>, <<8, 0, 0, 0>>, Wide(Luma({3}, {0, 1}, 1))),
  IntraTable[2], IntraTable[6] >>

\* The motion of the list-1 picture around a macroblock: 0 intra, 1 list 1 only,
\* 2 and 4 other references, 3 still.
ColKinds == << <<0, 2, 3, 4>>, <<4, 3, 4, 2>>, <<3, 3, 0, 4>>, <<2, 1, 3, 0>> >>

\* Column t of row n of the array.
Column(p, n, t) == (n[1] + n[2] * t + n[3] * t * t) % p
Film(table, type, n) ==
  LET p == Len(table)
      col(t) == Column(p, n, t)
      t8 == (col(p - 1) % 3) # 0
      nref == 1 + (col(p - 2) % 3)
      plain(d) == IF d.mode = "intra" /\ d.use = "i8"
                  THEN [d EXCEPT !.use = "i4", !.modes = Modes(16, 2, 1)]
                  ELSE IF d.mode = "inter" THEN [d EXCEPT !.res.want8 = FALSE] ELSE d
      \* An 8x8 transform needs whole 8x8 blocks.
      whole(d) == IF d.mode = "inter" /\ d.part = 3 /\ \E b \in 1..4 : d.sub[b] # 0
                  THEN [d EXCEPT !.res.want8 = FALSE] ELSE d
      active(d) == IF d.mode = "inter" THEN [d EXCEPT !.ref = [i \in DOMAIN @ |-> @[i] % nref]] ELSE d
      at(i) == active(IF t8 THEN whole(table[col(i) + 1]) ELSE plain(table[col(i) + 1]))
      place(mb) == mb[1] + mb[2] * Cols
      kind(c) == ColKinds[1 + (col(p - 5) % 4)][1 + ((c[1] \div 3 + 2 * (c[2] \div 3)) % 4)]
      colref(l, c) == CASE kind(c) = 0 -> -1 [] kind(c) = 1 -> l - 2 [] OTHER -> IF l = 1 THEN kind(c) % 3 ELSE -1
      colpic == [mot |-> [l \in 1..2 |->
                            [ref |-> [c \in Cells |-> colref(l, c)],
                             mv |-> [c \in Cells |-> <<0, -7, 14, 1, 12>>[1 + kind(c)]]]],
                 pocs |-> << <<8, 4, 0>>, <<16>> >>]
      bipred == [direct |-> IF col(p - 4) % 2 = 0 THEN "temporal" ELSE "spatial", poc |-> 10, l0 |-> <<8, 4, 0>>, l1 |-> 12,
                 mvlim |-> IF col(p - 6) % 3 = 0 THEN 10 ELSE 15, colpic |-> colpic, other |-> Bi(0, <<{1}>>, <<0>>, <<2>>, <<0>>, NoRes)]
      base == [type |-> type, cabac |-> (col(p - 3) % 2) = 0, inline |-> type = "P" /\ (col(p - 4) % 2) = 0,
       nref |-> nref, t8 |-> t8, slice_qp |-> 26,
       qp |-> [mb \in MBs |-> 26 + ((col(p - 1) + 5 * place(mb)) % 4)],
       dec |-> [mb \in MBs |-> at(place(mb))]]
  IN  IF type = "B" THEN bipred @@ base ELSE base
RowsOf(p, fillings) == (0..p - 1) \X (0..p - 1) \X fillings
MCFilms == {Film(InterTable, "P", n) : n \in RowsOf(Len(InterTable), {0})}
           \cup {Film(BTable, "B", n) : n \in RowsOf(Len(BTable), {0})}
           \cup {Film(IntraTable, "I", n) : n \in RowsOf(Len(IntraTable), {0})}
---------------------------------------------------------------------------
Std == SliceData(film, rec)
FilteredAs(D, std) == [mb \in MBs |-> Filter(film, D, std, mb)]

\* What is coded is the slice data of these macroblocks, element by element,
\* under the contexts a decoder derives: every prediction, context and count
\* the emission reads from a grid is what the neighbour in coding order left,
\* never the picture before, a trial of the analysis, or a later macroblock.
Conforms == Done => out = Std.els

\* The filter works on the edges, at the strengths and quantisers, that a decoder
\* derives from the stream, also where a row is filtered before any of it is
\* coded.
DeblockAgrees == Done => dbl = FilteredAs(rec, Std)
=============================================================================
