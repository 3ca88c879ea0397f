----------------------------- MODULE CabacParse -----------------------------
(***************************************************************************)
(* What a decoder makes of a CABAC slice: the residual_block_cabac and     *)
(* mvd syntax of the standard (7.3.5.3.3, 9.3.2, 9.3.3.1) on top of the    *)
(* decoding engine of cabac.c.  The context of a level is counted here     *)
(* from the levels already decoded, as the standard states it, where the   *)
(* encoder walks a table of eight nodes.                                   *)
(***************************************************************************)
EXTENDS Cabac, FiniteSets

\* n bypass bins as a number.
RECURSIVE DecRun(_, _, _)
DecRun(d, n, v) ==
  IF n = 0 THEN [d |-> d, v |-> v]
  ELSE LET e == dec_bypass(d) IN DecRun(e, n - 1, 2 * v + e.bin)

\* The Exp-Golomb suffix of order k (9.3.2.3); gives up on a prefix no level has.
RECURSIVE DecUeg(_, _, _)
DecUeg(d, k, base) ==
  LET Suffix(r)  == [d |-> r.d, v |-> base + r.v]
      Ones(e) == IF e.bin = 1 /\ k < 20 THEN DecUeg(e, k + 1, base + 2^k)
                 ELSE Suffix(DecRun(e, k, 0))
  IN  Ones(dec_bypass(d))

\* A truncated unary prefix: a one per context of `at` at most.
RECURSIVE DecUnary(_, _, _)
DecUnary(d, at, n) ==
  LET One(e) == IF e.bin = 0 THEN [d |-> e, v |-> n] ELSE DecUnary(e, at, n + 1)
  IN  IF n = Len(at) THEN [d |-> d, v |-> n] ELSE One(dec_decision(d, at[n + 1]))

\* A prefix under the contexts `at`, its suffix of order k when it is full,
\* and the sign of a value that is not zero after `bias` is added.
DecSigned(d, at, k, bias) ==
  LET Signed(v, e) == [d |-> e, v |-> IF e.bin = 1 THEN -v ELSE v]
      Value(x) == IF x.v + bias = 0 THEN [d |-> x.d, v |-> 0]
                  ELSE Signed(x.v + bias, dec_bypass(x.d))
      Prefixed(pre) == Value(IF pre.v = Len(at) THEN DecUeg(pre.d, k, Len(at)) ELSE pre)
  IN  Prefixed(DecUnary(d, at, 0))

\* The significance map: the coded positions in scan order.
SigAt(cat, i) == SIG_OFF[cat + 1] + (IF cat = 5 THEN IF i \div 2 < 2 THEN i \div 2 ELSE 2
                                     ELSE IF cat = Cat8x8 THEN SIG8[i + 1] ELSE i)
LastAt(cat, i) == LAST_OFF[cat + 1] + (IF cat = 5 THEN IF i \div 2 < 2 THEN i \div 2 ELSE 2
                                       ELSE IF cat = Cat8x8 THEN LAST8[i + 1] ELSE i)
RECURSIVE DecMap(_, _, _, _)
DecMap(d, cat, i, coded) ==
  LET Lst(lst) == IF lst.bin = 1 THEN [d |-> lst, coded |-> Append(coded, i)]
                  ELSE DecMap(lst, cat, i + 1, Append(coded, i))
      Sig(sig) == IF sig.bin = 0 THEN DecMap(sig, cat, i + 1, coded)
                  ELSE Lst(dec_decision(sig, LastAt(cat, i)))
  IN  IF i = SizeOf(cat) - 1 THEN [d |-> d, coded |-> Append(coded, i)]
      ELSE Sig(dec_decision(d, SigAt(cat, i)))

\* Levels from the high end; eq1 and gt1 count those decoded before.
RECURSIVE DecLevels(_, _, _, _, _)
DecLevels(d, cat, n, eq1, gt1) ==
  LET first == IF gt1 > 0 THEN 0 ELSE IF eq1 < 3 THEN eq1 + 1 ELSE 4
      most  == IF cat \in {3, 5} THEN 3 ELSE 4
      more  == 5 + (IF gt1 < most THEN gt1 ELSE most)
      at    == [i \in 1..14 |-> LVL_OFF[cat + 1] + (IF i = 1 THEN first ELSE more)]
      More(one, x) ==
        LET rest == DecLevels(x.d, cat, n - 1, eq1 + one, gt1 + 1 - one)
        IN  [rest EXCEPT !.levels = Append(@, x.v)]
      Level(x) == More(IF x.v \in {-1, 1} THEN 1 ELSE 0, x)
  IN  IF n = 0 THEN [d |-> d, levels |-> <<>>] ELSE Level(DecSigned(d, at, 0, 1))

DecResidual(d, cat, nza, nzb) ==
  LET Block(coded, lv) ==
        [d |-> lv.d,
         block |-> [i \in 1..SizeOf(cat) |->
           LET k == {j \in DOMAIN coded : coded[j] = i - 1}
           IN  IF k = {} THEN 0 ELSE lv.levels[CHOOSE j \in k : TRUE]]]
      Map(map) == Block(map.coded, DecLevels(map.d, cat, Len(map.coded), 0, 0))
      Cbf(cbf) == IF cbf.bin = 0 THEN [d |-> cbf, block |-> [i \in 1..SizeOf(cat) |-> 0]]
                  ELSE Map(DecMap(cbf, cat, 0, <<>>))
  IN  Cbf(IF cat = Cat8x8 THEN [d EXCEPT !.bin = 1]
          ELSE dec_decision(d, CBF_BASE[cat + 1] + 2 * nzb + nza))

DecMvd(d, base, inc) ==
  DecSigned(d, [i \in 1..9 |-> base + (IF i = 1 THEN inc ELSE IF i < 5 THEN i + 1 ELSE 6)], 3, 0)
=============================================================================
