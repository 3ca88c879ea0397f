---------------------------- MODULE SliceCoding ----------------------------
(***************************************************************************)
(* One slice from its header to its NAL unit, on either entropy coder:     *)
(* build_slice and append_nal of encoder.c over the bit writer, the CAVLC  *)
(* block coder, the CABAC engine and y264_nal_write.                       *)
(*                                                                         *)
(* The macroblock layer is external: a unit is one syntax element group    *)
(* it hands to the coder (a residual block, a motion vector component, a   *)
(* header field), taken from a set.  Beside the coder that keeps its bits  *)
(* runs the price-only twin the encoder's decisions are made with: a       *)
(* counting writer, or an engine in est_mode.                              *)
(***************************************************************************)
EXTENDS Cavlc, CabacParse, Trellis

CONSTANTS
  Headers,     \* slice headers: sequences of fields
  CavlcUnits,  \* blocks with the neighbour count they are coded under
  CabacUnits,  \* residual blocks and motion vector components
  RdoqBlocks,  \* blocks the quantiser still has to choose the levels of
  Ctx0,        \* the context states a slice starts with
  Sizes,       \* sizes of the RBSP buffer
  OutRooms,    \* bytes left in the output buffer
  Slack,       \* bytes kept between the engine's end and the buffer's (64)
  MbShare,     \* raw_mb_bits * nmb / 32: bins a slice has to itself
  MaxUnits     \* bound: units of a slice

VARIABLES
  pc,      \* "header", "data", "quantise", "trailing", "done"
  cabac,   \* entropy_coding_mode_flag
  size,    \* of the RBSP buffer
  room,    \* of the output buffer
  bs,      \* the bit writer
  cb,      \* the arithmetic engine, once the header is aligned
  twin,    \* the price-only coder's running price, in 1/256 bits
  est,     \* the engine in est_mode
  quote,   \* the same price asked block by block (RDOQ, mode decision)
  paid,    \* what the bins and bits written were worth
  rdoq,    \* the block being quantised, the position and the lattice's nodes
  script,  \* what has been coded
  nal      \* the NAL unit, NoNal when the slice is refused

vars == <<pc, cabac, size, room, bs, cb, twin, est, quote, paid, rdoq, script, nal>>

NoEngine == init_engine(<<0>>, 0, Ctx0)
NoBlock  == [block |-> <<>>, at |-> 0, nodes |-> <<>>]

---------------------------------------------------------------------------
\* Header fields: <<"u", n, value>>, <<"ue", value>>, <<"se", value>>.

PutField(b, f) == CASE f[1] = "u"  -> bs_write(b, f[2], f[3])
                    [] f[1] = "ue" -> bs_write_ue(b, f[2])
                    [] f[1] = "se" -> bs_write_se(b, f[2])

PutFields(b, fields) == Folded(PutField, b, fields)

Init ==
  /\ pc = "header" /\ cabac \in BOOLEAN
  /\ size \in Sizes /\ room \in OutRooms
  /\ bs = bs_init(size) /\ cb = NoEngine
  /\ twin = 0 /\ quote = 0 /\ paid = 0
  /\ est = [ctx |-> Ctx0, bits |-> 0]
  /\ rdoq = NoBlock /\ script = <<>> /\ nal = NoNal

\* The header is priced by the counting writer as it is written; the
\* arithmetic engine takes over at the byte after it.
SliceHeader(h) ==
  /\ pc = "header"
  /\ LET written == PutFields(bs, h)
         aligned == IF cabac THEN bs_align_ones(written) ELSE written
     IN  /\ bs' = aligned
         /\ cb' = IF cabac THEN init_engine(aligned.p, size - Slack, Ctx0) ELSE cb
         /\ paid' = IF written.overflow THEN 0 ELSE 256 * bs_pos_bits(written)
         /\ twin' = IF written.overflow THEN 0
                    ELSE 256 * bs_pos_bits(PutFields(bs_init_count, h))
  /\ quote' = twin'
  /\ script' = <<h>>
  /\ pc' = "data"
  /\ UNCHANGED <<cabac, size, room, est, rdoq, nal>>

---------------------------------------------------------------------------
\* Slice data.

Coding == pc = "data" /\ Len(script) <= MaxUnits

CavlcBlock(u) ==
  /\ Coding /\ ~cabac
  /\ LET after == cavlc_residual(bs, u.block, u.nC)
         price == bs_pos_bits(cavlc_residual(bs_init_count, u.block, u.nC))
     IN  /\ bs' = after
         /\ paid' = IF after.overflow THEN paid
                    ELSE paid + 256 * (bs_pos_bits(after) - bs_pos_bits(bs))
         /\ twin' = IF after.overflow THEN twin ELSE twin + 256 * price
  /\ quote' = twin'
  /\ script' = Append(script, u)
  /\ UNCHANGED <<pc, cabac, size, room, cb, est, rdoq, nal>>

SliceEnd ==
  /\ pc = "data" /\ ~cabac
  /\ bs' = bs_rbsp_trailing(bs)
  /\ pc' = "trailing"
  /\ UNCHANGED <<cabac, size, room, cb, twin, est, quote, paid, rdoq, script, nal>>

BinsOf(u) == IF u.kind = "res" THEN ResidualBins(u.cat, u.block, u.nza, u.nzb)
             ELSE MvdBins(u.base, u.inc, u.mvd)

EstUnit(e, u) == IF u.kind = "res" THEN EstResidual(e, u.cat, u.block, u.nza, u.nzb)
                 ELSE EstMvd(e, u.base, u.inc, u.mvd)

\* cabac_zero_words: 00 00 as often as it takes for the bins to stay within
\* 32/3 of the bytes and MbShare, while the buffer lasts.
Crowd(c) == 3 * c.nbins - 32 * (Len(c.out) - Len(bs.p)) - 3 * MbShare

ZeroWords(c) ==
  IF c.overflow \/ Crowd(c) <= 0 THEN c
  ELSE [c EXCEPT !.out = @ \o Zeros(2 * Min({(Crowd(c) + 93) \div 96,
                                             (size - Len(c.out)) \div 2}))]

\* A unit that ends a macroblock: its bins, and the terminating bin, which
\* flushes the engine on the last macroblock of the slice.
PutUnit(u, last) ==
  /\ LET bins == BinsOf(u)
         worth(e, b) == IF IsBypass(b) THEN [e EXCEPT !.bits = @ + 256 * b.n]
                        ELSE EstDecision(e, b.ctx, b.v)
         mine == EstUnit(est, u)
         coded == EncodeTerminate(EncodeBins(cb, bins), IF last THEN 1 ELSE 0)
     IN  /\ cb' = IF last THEN ZeroWords(coded) ELSE coded
         /\ est' = mine
         /\ paid' = paid + Folded(worth, [ctx |-> cb.ctx, bits |-> 0], bins).bits
         /\ twin' = twin + mine.bits - est.bits
         \* a 4:2:2 DC or an 8x8 block repeats significance contexts within
         \* itself, which the read-only price does not follow
         /\ quote' = quote + IF u.kind = "res" /\ u.cat < 5
                             THEN ResidualPrice(est.ctx, u.cat, u.block, u.nza, u.nzb)
                             ELSE mine.bits - est.bits
  /\ script' = Append(script, u)
  /\ pc' = IF last THEN "trailing" ELSE "data"
  /\ UNCHANGED <<cabac, size, room, bs, nal>>

CabacUnit(u, last) ==
  /\ Coding /\ cabac
  /\ PutUnit(u, last)
  /\ UNCHANGED rdoq

\* A block whose levels the quantiser chooses first, with the estimator's
\* contexts: the walk one scan position at a time, from the last nonzero
\* naive level down.  Bound: one such block, the first of its slice.
Quantise(b) ==
  /\ pc = "data" /\ cabac /\ Len(script) = 1
  /\ rdoq' = [block |-> b, at |-> LastNaive(b), nodes |-> 0 :> StartNode(est.ctx, b)]
  /\ pc' = "quantise"
  /\ UNCHANGED <<cabac, size, room, bs, cb, twin, est, quote, paid, script, nal>>

ScanPosition ==
  /\ pc = "quantise" /\ rdoq.at > 0
  /\ rdoq' = [rdoq EXCEPT !.at = @ - 1,
                          !.nodes = WalkPosition(est.ctx, rdoq.block, @, rdoq.at)]
  /\ UNCHANGED <<pc, cabac, size, room, bs, cb, twin, est, quote, paid, script, nal>>

\* The coder takes the winner's levels, signed.
RdoqUnit(last) ==
  /\ pc = "quantise" /\ rdoq.at = 0
  /\ LET b      == rdoq.block
         levels == rdoq.nodes[Winner(est.ctx, b, rdoq.nodes)].chain
     IN  \* the macroblock layer leaves out an 8x8 block without a level
         /\ b.cat = Cat8x8 => ~Empty(levels)
         /\ PutUnit([kind |-> "res", cat |-> b.cat, nza |-> b.nza, nzb |-> b.nzb,
                     block |-> [i \in DOMAIN levels |-> b.sign[i] * levels[i]]], last)
  /\ rdoq' = NoBlock

---------------------------------------------------------------------------
\* The RBSP of a finished slice, empty when a byte was dropped, and the NAL
\* unit append_nal makes of it.

Overflowed == IF cabac THEN cb.overflow ELSE bs.overflow
Rbsp == IF Overflowed THEN <<>> ELSE IF cabac THEN cb.out ELSE bs.p

RefIdc == 2
SliceType == 1

AppendNal ==
  /\ pc = "trailing"
  /\ nal' = IF Rbsp = <<>> THEN NoNal ELSE nal_write(room, RefIdc, SliceType, Rbsp)
  /\ pc' = "done"
  /\ UNCHANGED <<cabac, size, room, bs, cb, twin, est, quote, paid, rdoq, script>>

Next ==
  \/ \E h \in Headers : SliceHeader(h)
  \/ \E u \in CavlcUnits : CavlcBlock(u)
  \/ SliceEnd
  \/ \E u \in CabacUnits, last \in BOOLEAN : CabacUnit(u, last)
  \/ \E b \in RdoqBlocks : Quantise(b)
  \/ ScanPosition
  \/ \E last \in BOOLEAN : RdoqUnit(last)
  \/ AppendNal

Spec == Init /\ [][Next]_vars

---------------------------------------------------------------------------
\* What a decoder reads back.

Found == Stripped(nal)

FieldAt(r, f) ==
  CASE f[1] = "u"  -> [v |-> ReadBits(r, f[2]), r |-> Skip(r, f[2])]
    [] f[1] = "ue" -> [v |-> ReadUe(r), r |-> Skip(r, UeLength(r))]
    [] f[1] = "se" -> [v |-> ReadSe(r), r |-> Skip(r, UeLength(r))]

RECURSIVE ReadFields(_, _)
ReadFields(r, fields) ==
  LET More(f, got) ==
        LET rest == ReadFields(got.r, Tail(fields))
        IN  [rest EXCEPT !.fields = << [f EXCEPT ![Len(f)] = got.v] >> \o @]
  IN  IF fields = <<>> THEN [fields |-> <<>>, r |-> r]
      ELSE More(Head(fields), FieldAt(r, Head(fields)))

\* The blocks a CAVLC slice holds, one after the other, and where they end.
RECURSIVE ReadBlocks(_, _)
ReadBlocks(r, units) ==
  LET More(u, got) ==
        LET rest == ReadBlocks(got.r, Tail(units))
        IN  [rest EXCEPT !.blocks = << [u EXCEPT !.block = got.block] >> \o @]
  IN  IF units = <<>> THEN [blocks |-> <<>>, r |-> r]
      ELSE More(Head(units), ParseBlock(r, Len(Head(units).block), Head(units).nC))

\* The units of a CABAC slice, each with the terminating bin after it.
UnitAt(d, u) ==
  LET Res(got) == [u |-> [u EXCEPT !.block = got.block], d |-> got.d]
      Mvd(got) == [u |-> [u EXCEPT !.mvd = got.v], d |-> got.d]
  IN  IF u.kind = "res" THEN Res(DecResidual(d, u.cat, u.nza, u.nzb))
      ELSE Mvd(DecMvd(d, u.base, u.inc))

RECURSIVE ReadUnits(_, _)
ReadUnits(d, units) ==
  LET Ended(u, term) ==
        <<u>> \o IF term.bin = IF Len(units) = 1 THEN 1 ELSE 0
                 THEN ReadUnits(term, Tail(units)) ELSE <<"lost">>
      Unit(got) == Ended(got.u, dec_terminate(got.d))
  IN  IF units = <<>> THEN <<>> ELSE Unit(UnitAt(d, Head(units)))

Payload == Unescaped(SubSeq(Found, 6, Len(Found)), 0)

Decoded ==
  LET Blocks(body) == IF BitAt(body.r) = 1   \* rbsp_stop_one_bit, right after the data
                      THEN body.blocks ELSE <<"lost">>
      Data(bytes, at) ==
        IF cabac THEN ReadUnits(dec_init(bytes, ByteAligned(at).pos, Ctx0), Tail(script))
        ELSE Blocks(ReadBlocks(at, Tail(script)))
      Slice(bytes, head) == <<head.fields>> \o Data(bytes, head.r)
      Nal(bytes) == Slice(bytes, ReadFields(OpenBits(bytes), script[1]))
  IN  Nal(Payload)

---------------------------------------------------------------------------
\* A finished slice is refused whole or is one NAL unit a decoder finds and
\* reads back exactly: header, every level and vector, and the end of the
\* slice where it is.  It is refused only when a byte was dropped or the
\* output has no room (bitstream.c:26, cabac.c:457, nal.c:9, cavlc.c:416).
Decodes ==
  pc = "done" =>
    IF nal = NoNal THEN Overflowed \/ room < NalRoom(Len(Rbsp))
    ELSE OneUnit(nal) /\ Len(nal) <= room /\ Decoded = script

\* The prices the encoder decides with are the prices it pays: the counting
\* writer, the est_mode walks with their fused tables and the read-only
\* block price agree with the bits and bins written, and est_mode leaves the
\* contexts as the real walk does (cavlc.c:294-408, cabac.c:649-690, 1502).
\* Every path the quantiser's lattice ends with, so the one it returns, costs
\* what its score says: the contexts it treats as untouched or carries along
\* the path, the tables it looks prefixes up in and the positions it skips
\* make no difference to the price of the block (cabac.c:933-949, 984, 1106).
PricesHonest ==
  /\ twin = paid /\ quote = paid
  /\ pc # "header" => est.ctx = (IF cabac THEN cb.ctx ELSE Ctx0)
  /\ pc = "quantise" /\ rdoq.at = 0 => ScoresHonest(est.ctx, rdoq.block, rdoq.nodes)
=============================================================================
