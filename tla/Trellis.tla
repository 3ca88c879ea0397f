------------------------------ MODULE Trellis ------------------------------
(***************************************************************************)
(* The rate-distortion quantiser (y264_cabac_trellis_4x4, _8x8 and         *)
(* trellis_core of src/src/encoder/cabac.c): one reverse Viterbi pass over *)
(* the scan positions, with the eight nodes of the level-context walk as   *)
(* states.                                                                 *)
(*                                                                         *)
(* A block is a record of the code's arguments: per scan position (from 1) *)
(* the naive level qn, the coefficient absc, the dequantiser unmf and the  *)
(* weight w2; psy256, psyp and psy_lo for the texture reward (psy256 = 0   *)
(* without); L = 25 lambda; cat, nza, nzb for the contexts.                *)
(*                                                                         *)
(* A node is a record: the score of the best path to it, the levels of     *)
(* that path by position, and the four context bytes a path can change,    *)
(* b = <<ctx 0, ctx 4, ctx 8, ctx 9>>.  A node no path has reached is not  *)
(* in the domain.                                                          *)
(***************************************************************************)
EXTENDS Cabac

unq(b, i, a) == (b.unmf[i] * a + 128) \div 256

Reward(b, i, a) ==
  IF i > b.psy_lo THEN b.psy256 * Magnitude(b.psyp[i] + unq(b, i, a)) ELSE 0

Distortion(b, i, a) == ((b.absc[i] - unq(b, i, a)) ^ 2) * b.w2[i]
Score(b, i, a) == Distortion(b, i, a) - Reward(b, i, a)

\* Scan position of the last nonzero naive level, 0 when there is none: what
\* lies above is dropped on every path and left out of the scores.
LastNaive(b) == IF Empty(b.qn) THEN 0 ELSE LastPos(b.qn) + 1

---------------------------------------------------------------------------
\* Rates at node j.  Nodes 0..2 read a level flag no path can have touched,
\* nodes 0..5 a greater-than-one context likewise.

Lst0(ctx, b, k) == ctx[LVL_OFF[b.cat + 1] + k]

FlagState(ctx, b, nd, j) ==
  IF j <= 2 THEN Lst0(ctx, b, j + 1) ELSE IF j = 3 THEN nd.b[2] ELSE nd.b[1]

\* Which of the path's bytes holds the greater-than-one context of nodes 6, 7.
CarriedGt1(b, j) == IF j = 6 THEN 3 ELSE IF b.cat = 5 THEN 3 ELSE 4
Gt1State(ctx, b, nd, j) ==
  IF j <= 3 THEN Lst0(ctx, b, 5) ELSE IF j <= 5 THEN Lst0(ctx, b, j + 2)
  ELSE nd.b[CarriedGt1(b, j)]

\* The flag states the search reads at a position: by the maps of an 8x8 block,
\* one context per position for every 4x4 category.
SigState(ctx, b, i) ==
  ctx[SIG_OFF[b.cat + 1] + IF b.cat = Cat8x8 THEN SIG8[i] ELSE i - 1]
LastState(ctx, b, i) ==
  ctx[LAST_OFF[b.cat + 1] + IF b.cat = Cat8x8 THEN LAST8[i] ELSE i - 1]

\* significant_coeff_flag and last_significant_coeff_flag of a coded level:
\* the first one the reverse walk keeps (from node 0) is the last of the block.
MapBits(ctx, b, j, i) ==
  IF i = Len(b.qn) THEN 0
  ELSE est_bits(SigState(ctx, b, i), 1) + est_bits(LastState(ctx, b, i), IF j = 0 THEN 1 ELSE 0)

DropBits(ctx, b, j, i) ==
  IF j = 0 \/ i = Len(b.qn) THEN 0 ELSE est_bits(SigState(ctx, b, i), 0)

LevelRate(ctx, b, nd, j, a) ==
  est_bits(FlagState(ctx, b, nd, j), IF a > 1 THEN 1 ELSE 0)
  + (IF a = 1 THEN 0
     ELSE Unary(IF a < 15 THEN a - 1 ELSE 14, Gt1State(ctx, b, nd, j)).bits)
  + (IF a >= 15 THEN SuffixBits(0, a - 15) ELSE 0)
  + 256

\* The path's context bytes after level a at node j.
Evolved(nd, b, j, a) ==
  LET flag == IF j = 3 THEN 2 ELSE 1
      gt1  == CarriedGt1(b, j)
      one  == IF j <= 2 THEN nd.b
              ELSE [nd.b EXCEPT ![flag] = ctx_trans(@, IF a > 1 THEN 1 ELSE 0)]
  IN  IF a > 1 /\ j >= 6
      THEN [one EXCEPT ![gt1] = Unary(IF a < 15 THEN a - 1 ELSE 14, @).s]
      ELSE one

---------------------------------------------------------------------------
\* trellis_core.

Dest(j, a) == IF a = 0 THEN j ELSE LVL_TRANS(a > 1, j)

Extend(ctx, b, nd, j, i, a) ==
  IF a = 0
  THEN [nd EXCEPT !.score = @ + Score(b, i, 0) + b.L * DropBits(ctx, b, j, i)]
  ELSE [score |-> nd.score + Score(b, i, a)
                  + b.L * (MapBits(ctx, b, j, i) + LevelRate(ctx, b, nd, j, a)),
        chain |-> [nd.chain EXCEPT ![i] = a],
        b     |-> Evolved(nd, b, j, a)]

\* Candidates in the order the code tries them: two per node, node by node,
\* then the one above the naive level where texture is rewarded.
Order(b, i) ==
  LET q    == b.qn[i]
      pair == [k \in 1..16 |-> <<(k - 1) \div 2, IF k % 2 = 1 THEN q - 1 ELSE q>>]
      up   == [k \in 1..8 |-> <<k - 1, q + 1>>]
  IN  pair \o IF b.psy256 > 0 /\ i > b.psy_lo THEN up ELSE <<>>

\* A score that only ties leaves the earlier path in place.
Accept(cur, d, nd) ==
  IF d \in DOMAIN cur /\ cur[d].score <= nd.score THEN cur ELSE (d :> nd) @@ cur

Step(ctx, b, prev, i) ==
  LET try(cur, t) ==
        IF t[1] \notin DOMAIN prev THEN cur
        ELSE Accept(cur, Dest(t[1], t[2]), Extend(ctx, b, prev[t[1]], t[1], i, t[2]))
  IN  Folded(try, <<>>, Order(b, i))

\* A naive zero stays zero on every path.
ForcedDrop(ctx, b, prev, i) ==
  [j \in DOMAIN prev |->
     [prev[j] EXCEPT !.score = @ + Distortion(b, i, 0) + b.L * DropBits(ctx, b, j, i)]]

\* One scan position of the walk.
WalkPosition(ctx, b, nodes, i) ==
  IF b.qn[i] = 0 THEN ForcedDrop(ctx, b, nodes, i) ELSE Step(ctx, b, nodes, i)

StartNode(ctx, b) ==
  [score |-> 0, chain |-> Zeros(Len(b.qn)),
   b |-> <<Lst0(ctx, b, 0), Lst0(ctx, b, 4), Lst0(ctx, b, 8), Lst0(ctx, b, 9)>>]

\* y264_cabac_trellis_4x4 prices the coded block flag once, at the end;
\* y264_cabac_trellis_8x8 has none.  The empty block keeps a tie.
Total(ctx, b, fin, j) ==
  fin[j].score
  + IF b.cat = Cat8x8 THEN 0
    ELSE b.L * est_bits(ctx[CbfCtx(b.cat, b.nza, b.nzb)], IF j = 0 THEN 0 ELSE 1)

Winner(ctx, b, fin) ==
  CHOOSE j \in DOMAIN fin :
    /\ \A k \in DOMAIN fin : Total(ctx, b, fin, j) <= Total(ctx, b, fin, k)
    /\ \A k \in DOMAIN fin : k < j => Total(ctx, b, fin, j) < Total(ctx, b, fin, k)

---------------------------------------------------------------------------
\* What a choice of levels costs, from the definitions: distortion of every
\* position the walk visits, and the price of the block as a whole.
SumTo(b, l) ==
  LET upto[n \in 0..LastNaive(b)] ==
        IF n = 0 THEN 0
        ELSE upto[n - 1] + IF b.qn[n] = 0 THEN Distortion(b, n, 0) ELSE Score(b, n, l[n])
  IN  upto[LastNaive(b)]

Cost(ctx, b, l) == SumTo(b, l) + b.L * ResidualPrice(ctx, b.cat, l, b.nza, b.nzb)

\* Every path the lattice ends with costs what its score says.
ScoresHonest(ctx, b, fin) ==
  \A j \in DOMAIN fin : Total(ctx, b, fin, j) = Cost(ctx, b, fin[j].chain)
============================================================================
