------------------------------- MODULE Cabac -------------------------------
(***************************************************************************)
(* The CABAC coder (src/src/encoder/cabac.c): the byte-queue arithmetic    *)
(* engine, the residual and motion-vector binarisations on top of it, the  *)
(* price-only walks that must follow them bin by bin, and the bit-serial   *)
(* decoder.                                                                *)
(*                                                                         *)
(* An engine is a record: `low`, `range`, `queue` and `obytes` are the     *)
(* code's; `out` the bytes from the first of the slice (its header, whose  *)
(* last byte is p[-1] of the first write), `end` how many fit, `nbins`     *)
(* counts bins (the terminating ones apart, as in the code), `ctx` the     *)
(* packed context states <<pStateIdx, valMPS>> as 2 * pStateIdx + valMPS.  *)
(* est_mode is a record of its own with `ctx` and the price `bits`.        *)
(*                                                                         *)
(* A bin is a record: one decision in a context, or a run of n bypass bins *)
(* with the binary value v.                                                *)
(***************************************************************************)
EXTENDS BitWriter

CONSTANT EntBits  \* EntBits[pStateIdx][lps]: the estimator's price of a bin

Magnitude(x) == IF x < 0 THEN -x ELSE x

\* rangeTabLPS[pStateIdx][qCodIRangeIdx] and the state transitions.
rangeTabLPS == <<
  <<128,176,208,240>>, <<128,167,197,227>>, <<128,158,187,216>>, <<123,150,178,205>>,
  <<116,142,169,195>>, <<111,135,160,185>>, <<105,128,152,175>>, <<100,122,144,166>>,
  <<95,116,137,158>>, <<90,110,130,150>>, <<85,104,123,142>>, <<81,99,117,135>>,
  <<77,94,111,128>>, <<73,89,105,122>>, <<69,85,100,116>>, <<66,80,95,110>>,
  <<62,76,90,104>>, <<59,72,86,99>>, <<56,69,81,94>>, <<53,65,77,89>>,
  <<51,62,73,85>>, <<48,59,69,80>>, <<46,56,66,76>>, <<43,53,63,72>>,
  <<41,50,59,69>>, <<39,48,56,65>>, <<37,45,54,62>>, <<35,43,51,59>>,
  <<33,41,48,56>>, <<32,39,46,53>>, <<30,37,43,50>>, <<29,35,41,48>>,
  <<27,33,39,45>>, <<26,31,37,43>>, <<24,30,35,41>>, <<23,28,33,39>>,
  <<22,27,32,37>>, <<21,26,30,35>>, <<20,24,29,33>>, <<19,23,27,31>>,
  <<18,22,26,30>>, <<17,21,25,28>>, <<16,20,23,27>>, <<15,19,22,25>>,
  <<14,18,21,24>>, <<14,17,20,23>>, <<13,16,19,22>>, <<12,15,18,21>>,
  <<12,14,17,20>>, <<11,14,16,19>>, <<11,13,15,18>>, <<10,12,15,17>>,
  <<10,12,14,16>>, <<9,11,13,15>>, <<9,11,12,14>>, <<8,10,12,14>>,
  <<8,9,11,13>>, <<7,9,11,12>>, <<7,9,10,12>>, <<7,8,10,11>>,
  <<6,8,9,11>>, <<6,7,9,10>>, <<6,7,8,9>>, <<2,2,2,2>> >>

transIdxMPS(s) == IF s < 62 THEN s + 1 ELSE s
transIdxLPS == <<
   0, 0, 1, 2, 2, 4, 4, 5, 6, 7, 8, 9, 9,11,11,12,13,13,15,15,16,16,
  18,18,19,19,21,21,22,22,23,24,24,25,26,26,27,27,28,29,29,30,30,30,
  31,32,32,33,33,33,34,34,35,35,35,36,36,36,37,37,37,38,38,63>>

ctx_trans(s, bin) ==
  LET state == s \div 2
      mps   == s % 2
  IN  IF bin = mps THEN 2 * transIdxMPS(state) + mps
      ELSE 2 * transIdxLPS[state + 1] + (IF state = 0 THEN 1 - mps ELSE mps)

LpsRange(s, range) == rangeTabLPS[s \div 2 + 1][((range \div 64) % 4) + 1]

\* __builtin_clz(range) - 23: doublings until range is at least 256.
Renorm(range) == CHOOSE n \in 0..8 :
  range * 2^n >= 256 /\ (n = 0 \/ range * 2^(n - 1) < 256)

---------------------------------------------------------------------------
\* The engine.

init_engine(header, end, ctx) ==
  [low |-> 0, range |-> 510, queue |-> -9, obytes |-> 0, out |-> header,
   end |-> end, overflow |-> FALSE, nbins |-> 0, ctx |-> ctx]

\* The bytes held back at 0xff, once it is known whether a carry runs through.
Deferred_Kept(n, cry) == [i \in 1..n |-> 255]              \* (mutant) the carry stops short
Deferred(n, cry) == [i \in 1..n |-> (255 + cry) % 256]

\* E_PUTBYTE: a settled byte leaves the queue.  0xff waits for a carry; any
\* other byte takes the carry with it into the byte before.
PutByte(c) ==
  LET byte == c.low \div 2^(c.queue + 10)
      cry  == byte \div 256
      rest == [c EXCEPT !.low = @ % 2^(c.queue + 10), !.queue = @ - 8]
      n    == Len(c.out)
  IN  IF c.queue < 0 THEN c
      ELSE IF byte % 256 = 255 THEN [rest EXCEPT !.obytes = @ + 1]
      ELSE IF n + c.obytes < c.end
      THEN [rest EXCEPT !.obytes = 0,
              !.out = [@ EXCEPT ![n] = (@ + cry) % 256]
                      \o Deferred(c.obytes, cry) \o <<byte % 256>>]
      ELSE [rest EXCEPT !.obytes = 0, !.overflow = TRUE]

Shifted(c, n) ==
  PutByte([c EXCEPT !.range = @ * 2^n, !.low = @ * 2^n, !.queue = @ + n])

\* E_DEC
EncodeDecision(c, at, bin) ==
  LET s   == c.ctx[at]
      lps == LpsRange(s, c.range)
      mps == c.range - lps
      hit == bin = s % 2
      d   == [c EXCEPT !.range = IF hit THEN mps ELSE lps,
                       !.low   = IF hit THEN @ ELSE @ + mps,
                       !.nbins = @ + 1, !.ctx[at] = ctx_trans(s, bin)]
  IN  Shifted(d, Renorm(d.range))

\* E_BYPASS_N: n bins at once, in chunks of at most eight, the first one
\* sized so that the others are whole.  E_BYPASS is the run of one.
RECURSIVE EncodeBypass(_, _, _)
EncodeBypass(c, n, v) ==
  LET k     == ((n - 1) % 8) + 1
      chunk == PutByte([c EXCEPT !.low = @ * 2^k + ((v \div 2^(n - k)) % 256) * c.range,
                                 !.queue = @ + k, !.nbins = @ + k])
  IN  IF n = k THEN chunk ELSE EncodeBypass(chunk, n - k, v % 2^(n - k))

\* y264_cabac_encode_terminate; a one flushes, with the stop bit forced into
\* the settled low and the bytes still deferred written as they stand.
EncodeTerminate(c, bin) ==
  LET t    == [c EXCEPT !.range = @ - 2]
      low  == t.low + t.range
      set  == [t EXCEPT !.low = (low + 1 - (low % 2)) * 1024, !.queue = @ + 10]
      out  == PutByte(PutByte(set))
      pend == out.queue + 8
      tail == IF pend > 0
              THEN PutByte([out EXCEPT !.low = @ * 2^(8 - pend), !.queue = @ + 8 - pend])
              ELSE out
  IN  IF bin = 0 THEN Shifted(t, Renorm(t.range))
      ELSE [tail EXCEPT !.out = @ \o [i \in 1..tail.obytes |-> 255],
                        !.obytes = 0, !.range = 2]

---------------------------------------------------------------------------
\* Binarisation.

Dec(at, bin)  == [ctx |-> at, n |-> 1, v |-> bin]
Bypass(n, v)  == [ctx |-> -1, n |-> n, v |-> v]
IsBypass(b)   == b.ctx < 0

Encode(c, b) == IF IsBypass(b) THEN EncodeBypass(c, b.n, b.v) ELSE EncodeDecision(c, b.ctx, b.v)
EncodeBins(c, bins) == Folded(Encode, c, bins)

\* UEG_PACK: the Exp-Golomb suffix of order k as one bypass run.
UegPack(k, val) ==
  LET m == Log2(val + 2^k) - k
  IN  Bypass(2 * m + k + 1, (2^(m + 1) - 2) * 2^(k + m) + val - (2^m - 1) * 2^k)

\* ctxBlockCat 0..4 in order, then 5 for a 4:2:2 chroma DC block and 6 for
\* an 8x8 luma block, which has no coded block flag.
Cat8x8 == 6
CBF_BASE == <<85, 89, 93, 97, 101, 97>>
SIG_OFF  == <<105, 120, 134, 149, 152, 149, 402>>
LAST_OFF == <<166, 181, 195, 210, 213, 210, 417>>
LVL_OFF  == <<227, 237, 247, 257, 266, 257, 426>>
CNT_M1   == <<15, 14, 15, 3, 14, 7, 63>>
SizeOf(cat) == CNT_M1[cat + 1] + 1

\* Scan positions count from zero, as in the code: l[i + 1] is level i.
SIG8 == <<
  0, 1, 2, 3, 4, 5, 5, 4, 4, 3, 3, 4, 4, 4, 5, 5, 4, 4, 4, 4, 3, 3, 6, 7, 7, 7,
  8, 9, 10, 9, 8, 7, 7, 6, 11, 12, 13, 11, 6, 7, 8, 9, 14, 10, 9, 8, 6, 11, 12,
  13, 11, 6, 9, 14, 10, 9, 11, 12, 13, 11, 14, 10, 12>>
LAST8 == <<
  0, 1, 1, 1, 1, 1, 1, 1, 1, 1, 1, 1, 1, 1, 1, 1, 2, 2, 2, 2, 2, 2, 2, 2, 2, 2,
  2, 2, 2, 2, 2, 2, 3, 3, 3, 3, 3, 3, 3, 3, 4, 4, 4, 4, 4, 4, 4, 4, 5, 5, 5, 5,
  6, 6, 6, 6, 7, 7, 7, 7, 8, 8, 8>>

sig_ctxinc(cat, i) ==
  CASE cat = 5      -> IF i \div 2 < 2 THEN i \div 2 ELSE 2
    [] cat = Cat8x8 -> SIG8[i + 1]
    [] OTHER        -> i
last_ctxinc(cat, i) == IF cat = Cat8x8 THEN LAST8[i + 1] ELSE sig_ctxinc(cat, i)

LVL1_CTX   == <<1, 2, 3, 4, 0, 0, 0, 0>>
LVLGT1_CTX == <<5, 5, 5, 5, 6, 7, 8, 9>>
LVLGT1_CTX_422DC == <<5, 5, 5, 5, 6, 7, 8, 8>>
Gt1Table(cat) == IF cat = 5 THEN LVLGT1_CTX_422DC ELSE LVLGT1_CTX
LVL_TRANS(big, node) ==
  IF big THEN <<4, 4, 4, 4, 5, 6, 7, 7>>[node + 1] ELSE <<1, 2, 3, 3, 4, 5, 6, 7>>[node + 1]

LastPos(l) == CHOOSE i \in 0..(Len(l) - 1) :
  l[i + 1] # 0 /\ \A j \in (i + 1)..(Len(l) - 1) : l[j + 1] = 0
Empty(l)   == \A i \in DOMAIN l : l[i] = 0
Sign(x)    == IF x < 0 THEN 1 ELSE 0
Backward(l) == Reverse(SelectSeq(l, LAMBDA x : x # 0))

\* E_LEVELS: nonzero levels from the high end, at level-context node `node`.
RECURSIVE LevelBins(_, _, _)
LevelBins(cat, levels, node) ==
  IF levels = <<>> THEN <<>>
  ELSE LET co  == Head(levels)
           a   == Magnitude(co)
           at1 == LVL_OFF[cat + 1] + LVL1_CTX[node + 1]
           atg == LVL_OFF[cat + 1] + Gt1Table(cat)[node + 1]
           ones == [t \in 1..((IF a < 15 THEN a ELSE 15) - 2) |-> Dec(atg, 1)]
           sfx == UegPack(0, a - 15)
       IN  (IF a = 1 THEN <<Dec(at1, 0), Bypass(1, Sign(co))>>
            ELSE <<Dec(at1, 1)>> \o ones
                 \o IF a < 15 THEN <<Dec(atg, 0), Bypass(1, Sign(co))>>
                    ELSE <<Bypass(sfx.n + 1, 2 * sfx.v + Sign(co))>>)
           \o LevelBins(cat, Tail(levels), LVL_TRANS(a > 1, node))

CbfCtx(cat, nza, nzb) == CBF_BASE[cat + 1] + 2 * nzb + nza
SigCtx(cat, i)  == SIG_OFF[cat + 1] + sig_ctxinc(cat, i)
LastCtx(cat, i) == LAST_OFF[cat + 1] + last_ctxinc(cat, i)

\* y264_cabac_residual and _8x8: coded block flag, significance map up to the
\* last coded position (the last of the block carries no flags), levels.
ResidualBins(cat, l, nza, nzb) ==
  LET last == LastPos(l)
      at(i) == IF l[i + 1] = 0 THEN <<Dec(SigCtx(cat, i), 0)>>
               ELSE <<Dec(SigCtx(cat, i), 1), Dec(LastCtx(cat, i), 0)>>
  IN  (IF cat = Cat8x8 THEN <<>>
       ELSE <<Dec(CbfCtx(cat, nza, nzb), IF Empty(l) THEN 0 ELSE 1)>>)
      \o IF Empty(l) THEN <<>>
         ELSE FlattenSeq([i \in 1..last |-> at(i - 1)])
              \o (IF last < CNT_M1[cat + 1]
                  THEN <<Dec(SigCtx(cat, last), 1), Dec(LastCtx(cat, last), 1)>>
                  ELSE <<>>)
              \o LevelBins(cat, Backward(l), 0)

\* cabac_mvd_comp: a component of a motion vector difference, context base
\* and increment chosen by its caller.
MvdPrefixCtx == <<3, 4, 5, 6, 6, 6, 6, 6>>
MvdBins(base, inc, mvd) ==
  LET a == Magnitude(mvd)
      ones(n) == [i \in 1..n |-> Dec(base + MvdPrefixCtx[i], 1)]
  IN  IF mvd = 0 THEN <<Dec(base + inc, 0)>>
      ELSE <<Dec(base + inc, 1)>>
           \o (IF a < 9 THEN ones(a - 1) \o <<Dec(base + MvdPrefixCtx[a], 0)>>
               ELSE ones(8) \o <<UegPack(3, a - 9)>>)
           \o <<Bypass(1, Sign(mvd))>>

---------------------------------------------------------------------------
\* Price only.  est_tab gives a bin's price and next state; unary_bits and
\* unary_trans fold a whole greater-than-one prefix into one lookup.

est_bits(s, bin) == EntBits[s \div 2][IF bin = s % 2 THEN 0 ELSE 1]

EstDecision(e, at, bin) ==
  [e EXCEPT !.bits = @ + est_bits(e.ctx[at], bin), !.ctx[at] = ctx_trans(@, bin)]

\* A greater-than-one prefix: pf - 1 ones, then a zero unless it is open.
Prefix_Closed(pf) == [t \in 1..pf |-> IF t < pf THEN 1 ELSE 0]    \* (mutant) always closed
Prefix(pf) == [t \in 1..(pf - 1) |-> 1] \o IF pf < 14 THEN <<0>> ELSE <<>>

\* Entry pf of the tables from state s.
Unary(pf, s) ==
  LET step(u, bin) == [bits |-> u.bits + est_bits(u.s, bin), s |-> ctx_trans(u.s, bin)]
  IN  Folded(step, [bits |-> 0, s |-> s], Prefix(pf))

\* Price of the Exp-Golomb suffix of order k, by the counting loop.
RECURSIVE SuffixBits(_, _)
SuffixBits(k, val) ==
  IF val >= 2^k THEN 256 + SuffixBits(k + 1, val - 2^k) ELSE 256 * (1 + k)

\* The levels, greater-than-one contexts from table gt1.
RECURSIVE EstLevels(_, _, _, _, _)
EstLevels(e, cat, gt1, levels, node) ==
  IF levels = <<>> THEN e
  ELSE LET a   == Magnitude(Head(levels))
           one == EstDecision(e, LVL_OFF[cat + 1] + LVL1_CTX[node + 1], IF a > 1 THEN 1 ELSE 0)
           atg == LVL_OFF[cat + 1] + gt1[node + 1]
           u   == Unary(IF a < 15 THEN a - 1 ELSE 14, one.ctx[atg])
           big == [one EXCEPT !.bits = @ + u.bits + (IF a >= 15 THEN SuffixBits(0, a - 15) ELSE 0),
                              !.ctx[atg] = u.s]
           got == IF a > 1 THEN big ELSE one
           on  == [got EXCEPT !.bits = @ + 256]
       IN  EstLevels(on, cat, gt1, Tail(levels), LVL_TRANS(a > 1, node))

\* The est_mode branch of y264_cabac_residual, and y264_cabac_residual_8x8_est:
\* as the emit walk, but one pass over the positions below the last, flags
\* after, and table-driven levels.
EstResidual(e, cat, l, nza, nzb) ==
  LET cbf  == IF cat = Cat8x8 THEN e
              ELSE EstDecision(e, CbfCtx(cat, nza, nzb), IF Empty(l) THEN 0 ELSE 1)
      last == LastPos(l)
      flag(x, i) ==
        LET sig == EstDecision(x, SigCtx(cat, i), IF l[i + 1] # 0 THEN 1 ELSE 0)
        IN  IF l[i + 1] # 0 THEN EstDecision(sig, LastCtx(cat, i), 0) ELSE sig
      map  == Folded(flag, cbf, [i \in 1..last |-> i - 1])
      end  == IF last < CNT_M1[cat + 1]
              THEN EstDecision(EstDecision(map, SigCtx(cat, last), 1), LastCtx(cat, last), 1)
              ELSE map
  IN  IF Empty(l) THEN cbf ELSE EstLevels(end, cat, Gt1Table(cat), Backward(l), 0)

\* y264_cabac_est_mvd
EstMvd(e, base, inc, mvd) ==
  LET a == Magnitude(mvd)
      one(x, i) == EstDecision(x, base + MvdPrefixCtx[i], 1)
      first == EstDecision(e, base + inc, IF mvd = 0 THEN 0 ELSE 1)
      ones  == Folded(one, first, [i \in 1..((IF a < 9 THEN a ELSE 9) - 1) |-> i])
      tail  == IF a < 9 THEN EstDecision(ones, base + MvdPrefixCtx[a], 0)
               ELSE [ones EXCEPT !.bits = @ + 256 * UegPack(3, a - 9).n]
  IN  IF mvd = 0 THEN first ELSE [tail EXCEPT !.bits = @ + 256]

\* y264_cabac_residual_bits and _8x8_bits: contexts read, only the level ones
\* evolving.  est_levels takes every category through LVLGT1_CTX, which for a
\* 4:2:2 DC block is not the context the coder uses at node 7.
ResidualPrice(ctx, cat, l, nza, nzb) ==
  LET last == LastPos(l)
      flag(n, i) == n + IF l[i + 1] = 0 THEN est_bits(ctx[SigCtx(cat, i)], 0)
                        ELSE est_bits(ctx[SigCtx(cat, i)], 1)
                             + est_bits(ctx[LastCtx(cat, i)], IF i = last THEN 1 ELSE 0)
      upto == IF last < CNT_M1[cat + 1] THEN last + 1 ELSE last
      cbf  == IF cat = Cat8x8 THEN 0
              ELSE est_bits(ctx[CbfCtx(cat, nza, nzb)], IF Empty(l) THEN 0 ELSE 1)
      map  == Folded(flag, cbf, [i \in 1..upto |-> i - 1])
  IN  IF Empty(l) THEN cbf
      ELSE EstLevels([ctx |-> ctx, bits |-> map], cat, LVLGT1_CTX, Backward(l), 0).bits

---------------------------------------------------------------------------
\* The bit-serial decoder (y264_cabac_dec_*).

dec_init(bytes, pos, ctx) ==
  LET r == [buf |-> bytes, pos |-> pos]
  IN  [buf |-> bytes, pos |-> pos + 9, range |-> 510, offset |-> ReadBits(r, 9),
       ctx |-> ctx, bin |-> 0]

\* n more bits into the offset, as the range is doubled n times.
Pull(d, n) == [d EXCEPT !.offset = @ * 2^n + ReadBits(d, n), !.range = @ * 2^n, !.pos = @ + n]

\* The decision is bin; mps is the range below which the likely one lies.
Decided(d, at, bin, likely, mps) ==
  LET e == [d EXCEPT !.bin = bin, !.ctx[at] = ctx_trans(@, bin),
                     !.range = IF likely THEN mps ELSE @ - mps,
                     !.offset = IF likely THEN @ ELSE @ - mps]
  IN  Pull(e, Renorm(e.range))

dec_decision(d, at) ==
  LET Below(mps) == IF d.offset < mps THEN Decided(d, at, d.ctx[at] % 2, TRUE, mps)
                    ELSE Decided(d, at, 1 - (d.ctx[at] % 2), FALSE, mps)
  IN  Below(d.range - LpsRange(d.ctx[at], d.range))

dec_bypass(d) ==
  LET offset == 2 * d.offset + BitAt(d)
      bin    == IF offset >= d.range THEN 1 ELSE 0
  IN  [d EXCEPT !.offset = offset - bin * d.range, !.pos = @ + 1, !.bin = bin]

dec_terminate(d) ==
  LET e == [d EXCEPT !.range = @ - 2]
  IN  IF e.offset >= e.range THEN [e EXCEPT !.bin = 1]
      ELSE Pull([e EXCEPT !.bin = 0], Renorm(e.range))
============================================================================
