------------------------------- MODULE Cavlc -------------------------------
(***************************************************************************)
(* The CAVLC residual coder (src/src/encoder/cavlc.c): what               *)
(* y264_cavlc_residual writes for one block, what the separate pricing    *)
(* walk says it would cost, and the parse of clause 9.2 that a decoder    *)
(* runs on the result.                                                    *)
(*                                                                         *)
(* A block is a sequence of levels in scan order.                         *)
(***************************************************************************)
EXTENDS VlcTables

TokenTable(nC)     == <<"coeff_token", IF nC = -2 THEN 4 ELSE IF nC = -1 THEN 3
                          ELSE IF nC < 2 THEN 0 ELSE IF nC < 4 THEN 1 ELSE 2>>
TotalTable(max, tc) == <<IF max = 4 THEN "tzc" ELSE IF max = 8 THEN "tzc8" ELSE "tz4", tc>>
RunTable(left)      == <<"run_before", IF left > 7 THEN 7 ELSE left>>

Abs(x) == IF x < 0 THEN -x ELSE x

---------------------------------------------------------------------------
\* What both walks read off a block.

Coded(l)      == {i \in DOMAIN l : l[i] # 0}
\* Positions of the nonzero levels, high to low frequency (the code's idx[]).
HighToLow(l)  == Reverse(SelectSeq([i \in DOMAIN l |-> i], LAMBDA i : l[i] # 0))
LastCoded(l)  == IF Coded(l) = {} THEN 0 ELSE HighToLow(l)[1]

\* Trailing ones: at most three, from the high end, stopped by the first
\* level of another magnitude.
TrailingOnes(l) ==
  LET idx == HighToLow(l)
      ones == {k \in 0..3 : k <= Len(idx) /\ \A j \in 1..k : Abs(l[idx[j]]) = 1}
  IN  CHOOSE k \in ones : \A j \in ones : j <= k

\* level_prefix, and the size and value of level_suffix.
RECURSIVE Escape(_, _, _)
Escape(r, prefix, size) ==
  IF r < 2^size THEN [prefix |-> prefix, size |-> size, suffix |-> r]
  ELSE Escape(r - 2^size, prefix + 1, size + 1)

LevelParts(code, suffix_length) ==
  IF suffix_length = 0
  THEN IF code < 14 THEN [prefix |-> code, size |-> 0, suffix |-> 0]
       ELSE IF code < 30 THEN [prefix |-> 14, size |-> 4, suffix |-> code - 14]
       ELSE Escape(code - 30, 15, 12)
  ELSE IF code \div 2^suffix_length < 15
       THEN [prefix |-> code \div 2^suffix_length, size |-> suffix_length,
             suffix |-> code % 2^suffix_length]
       ELSE Escape(code - 15 * 2^suffix_length, 15, 12)

write_level(bs, code, suffix_length) ==
  LET lv == LevelParts(code, suffix_length)
  IN  bs_write(bs_write1(bs_write_zero(bs, lv.prefix), 1), lv.size, lv.suffix)

\* The same lengths computed a second time, for the pricing walk.
RECURSIVE EscapeLen(_, _, _)
EscapeLen(r, prefix, size) ==
  IF r < 2^size THEN prefix + 1 + size ELSE EscapeLen(r - 2^size, prefix + 1, size + 1)

level_len(code, suffix_length) ==
  IF suffix_length = 0
  THEN IF code < 14 THEN code + 1
       ELSE IF code < 30 THEN 14 + 1 + 4 ELSE EscapeLen(code - 30, 15, 12)
  ELSE IF code \div 2^suffix_length < 15
       THEN code \div 2^suffix_length + 1 + suffix_length
       ELSE EscapeLen(code - 15 * 2^suffix_length, 15, 12)

\* levelCode of the k-th level coded after t1 trailing ones: the first one
\* cannot be +-1 when fewer than three trailing ones were signalled.
LevelCode(level, first, t1) ==
  (IF level > 0 THEN 2 * level - 2 ELSE -2 * level - 1)
  - (IF first /\ t1 < 3 THEN 2 ELSE 0)

FirstSuffix(tc, t1) == IF tc > 10 /\ t1 < 3 THEN 1 ELSE 0

NextSuffix(suffix_length, level) ==
  LET s == IF suffix_length = 0 THEN 1 ELSE suffix_length
  IN  IF Abs(level) > 3 * 2^(s - 1) /\ s < 6 THEN s + 1 ELSE s

\* The levels after the trailing ones as <<levelCode, suffixLength>> pairs.
RECURSIVE LevelWalk(_, _, _, _)
LevelWalk(levels, first, t1, suffix_length) ==
  IF levels = <<>> THEN <<>>
  ELSE << <<LevelCode(Head(levels), first, t1), suffix_length>> >>
       \o LevelWalk(Tail(levels), FALSE, t1, NextSuffix(suffix_length, Head(levels)))

\* The zero runs between the coded levels, while zeros are left, as
\* <<zeros left, run>> pairs.
RECURSIVE RunWalk(_, _)
RunWalk(idx, left) ==
  IF Len(idx) < 2 \/ left <= 0 THEN <<>>
  ELSE LET run == idx[1] - idx[2] - 1
       IN  << <<left, run>> >> \o RunWalk(Tail(idx), left - run)

---------------------------------------------------------------------------
\* y264_cavlc_residual on a writer that keeps its bits.

residual(bs, l, nC) ==
  LET idx   == HighToLow(l)
      tc    == Len(idx)
      t1    == TrailingOnes(l)
      lv    == [k \in 1..tc |-> l[idx[k]]]
      zeros == LastCoded(l) - tc
      token == IF nC >= 8
               THEN bs_write(bs, 6, IF tc = 0 THEN 3 ELSE 4 * (tc - 1) + t1)
               ELSE PutBits(bs, Vlc[TokenTable(nC)][<<tc, t1>>])
      signs == PutBits(token, [k \in 1..t1 |-> IF lv[k] < 0 THEN 1 ELSE 0])
      walk  == LevelWalk(SubSeq(lv, t1 + 1, tc), TRUE, t1, FirstSuffix(tc, t1))
      levels == Folded(LAMBDA b, x : write_level(b, x[1], x[2]), signs, walk)
      total == IF tc < Len(l)
               THEN PutBits(levels, Vlc[TotalTable(Len(l), tc)][zeros])
               ELSE levels
  IN  IF tc = 0 THEN token
      ELSE Folded(LAMBDA b, x : PutBits(b, Vlc[RunTable(x[1])][x[2]]),
                total, RunWalk(idx, zeros))

\* cavlc_len_tc, the price of the same block without a bitstream.
residual_len(l, nC) ==
  LET idx   == HighToLow(l)
      tc    == Len(idx)
      t1    == TrailingOnes(l)
      zeros == LastCoded(l) - tc
      token == IF nC >= 8 THEN 6 ELSE Len(Vlc[TokenTable(nC)][<<tc, t1>>])
      walk  == LevelWalk([k \in 1..(tc - t1) |-> l[idx[t1 + k]]], TRUE, t1,
                         FirstSuffix(tc, t1))
      total == IF tc < Len(l) THEN Len(Vlc[TotalTable(Len(l), tc)][zeros]) ELSE 0
      Sum(n, x) == n + x
  IN  IF tc = 0 THEN token
      ELSE token + t1 + total
           + Folded(Sum, 0, [k \in DOMAIN walk |-> level_len(walk[k][1], walk[k][2])])
           + Folded(Sum, 0, [k \in DOMAIN RunWalk(idx, zeros) |->
                LET x == RunWalk(idx, zeros)[k] IN Len(Vlc[RunTable(x[1])][x[2]])])

\* A price-only writer takes the length and nothing else.
cavlc_residual(bs, l, nC) ==
  IF bs.count_only
  THEN [bs EXCEPT !.bits = @ + residual_len(l, nC)]
  ELSE residual(bs, l, nC)

---------------------------------------------------------------------------
\* The parse of clause 9.2.

\* The entry of a code at the reader, and the reader after it.
CodeAt(r, code) ==
  LET x == CHOOSE x \in DOMAIN code :
             \A i \in 1..Len(code[x]) : BitAt(Skip(r, i - 1)) = code[x][i]
  IN  [v |-> x, r |-> Skip(r, Len(code[x]))]

VlcAt(r, t) == CodeAt(r, Vlc[t])

\* 9.2.2.1: levelSuffixSize and levelCode from level_prefix.
ParseLevel(r, suffix_length) ==
  LET prefix == ZerosAhead(r)
      size   == IF prefix = 14 /\ suffix_length = 0 THEN 4
                ELSE IF prefix >= 15 THEN prefix - 3 ELSE suffix_length
      after  == Skip(r, prefix + 1)
  IN  [code |-> (IF prefix < 15 THEN prefix ELSE 15) * 2^suffix_length
                + ReadBits(after, size)
                + (IF prefix >= 15 /\ suffix_length = 0 THEN 15 ELSE 0)
                + (IF prefix >= 16 THEN 2^(prefix - 3) - 4096 ELSE 0),
       r |-> Skip(after, size)]

\* 9.2.2.1: the level of a levelCode, and the suffixLength after it.
LevelOf(code) == IF code % 2 = 0 THEN (code + 2) \div 2 ELSE (-code - 1) \div 2
Grown(level, s) == IF Abs(level) > 3 * 2^(s - 1) /\ s < 6 THEN s + 1 ELSE s

RECURSIVE ParseLevels(_, _, _, _)
ParseLevels(r, n, offset, suffix_length) ==
  LET More(level, after) ==
        LET rest == ParseLevels(after, n - 1, 0,
                      Grown(level, IF suffix_length = 0 THEN 1 ELSE suffix_length))
        IN  [rest EXCEPT !.levels = <<level>> \o @]
      Next(got) == More(LevelOf(got.code + offset), got.r)
  IN  IF n = 0 THEN [levels |-> <<>>, r |-> r] ELSE Next(ParseLevel(r, suffix_length))

\* 9.2.3: the runs before each level; the last one takes the zeros left.
RECURSIVE ParseRuns(_, _, _)
ParseRuns(r, n, left) ==
  LET More(run) == LET rest == ParseRuns(run.r, n - 1, left - run.v)
                   IN  [rest EXCEPT !.runs = <<run.v>> \o @]
  IN  IF n = 1 \/ left = 0
      THEN [runs |-> [k \in 1..n |-> IF k = n THEN left ELSE 0], r |-> r]
      ELSE More(VlcAt(r, RunTable(left)))

\* coeff_token: TotalCoeff and TrailingOnes.
FixedToken(code) == IF code = 3 THEN <<0, 0>> ELSE <<code \div 4 + 1, code % 4>>
ParseToken(r, nC) ==
  IF nC >= 8 THEN [v |-> FixedToken(ReadBits(r, 6)), r |-> Skip(r, 6)]
  ELSE VlcAt(r, TokenTable(nC))

\* The k-th level, counted from the high end, sits below the runs above it.
Placed(max, level, zeros, runs) ==
  LET tc    == Len(level)
      place == [k \in 1..tc |-> (tc + zeros) - (k - 1)
                  - Folded(LAMBDA n, x : n + x, 0, SubSeq(runs, 1, k - 1))]
  IN  [i \in 1..max |-> IF \E k \in 1..tc : place[k] = i
                        THEN level[CHOOSE k \in 1..tc : place[k] = i] ELSE 0]

ParseBlock(r, max, nC) ==
  LET Whole(level, zeros, runs) == [block |-> Placed(max, level, zeros, runs.runs), r |-> runs.r]
      Runs(level, zeros) == Whole(level, zeros.v, ParseRuns(zeros.r, Len(level), zeros.v))
      Total(level, after) ==
        Runs(level, IF Len(level) < max THEN VlcAt(after, TotalTable(max, Len(level)))
                    ELSE [v |-> 0, r |-> after])
      Rest(ones, lv) == Total(ones \o lv.levels, lv.r)
      Levels(tc, t1, after) ==
        Rest([k \in 1..t1 |-> IF BitAt(Skip(after, k - 1)) = 1 THEN -1 ELSE 1],
             ParseLevels(Skip(after, t1), tc - t1, IF t1 < 3 THEN 2 ELSE 0, FirstSuffix(tc, t1)))
      Token(token) == IF token.v[1] = 0 THEN [block |-> Zeros(max), r |-> token.r]
                      ELSE Levels(token.v[1], token.v[2], token.r)
  IN  Token(ParseToken(r, nC))
=============================================================================
