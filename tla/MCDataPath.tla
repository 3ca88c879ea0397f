----------------------------- MODULE MCDataPath -----------------------------
(***************************************************************************)
(* The data of a slice, from samples to levels (Kernels) and from levels   *)
(* to bits (SliceCoding).  The two share no state: a behaviour runs one,   *)
(* with the other at rest.                                                 *)
(***************************************************************************)
EXTENDS SliceCoding, Kernels

---------------------------------------------------------------------------
(* Units to code: the context states of a P slice at QP 30 and the bin     *)
(* prices of the code, and units chosen for the carries, escapes and zero  *)
(* runs they cause.                                                        *)

\* ent_bits, as ent_init computes it: the price of the less and of the more
\* probable bin in each of the 64 states.
LpsPrice == <<
  256, 275, 294, 314, 333, 352, 371, 391, 410, 429, 448, 468, 487, 506, 525,
  545, 564, 583, 602, 622, 641, 660, 679, 699, 718, 737, 756, 776, 795, 814,
  833, 853, 872, 891, 910, 930, 949, 968, 987, 1007, 1026, 1045, 1064, 1084,
  1103, 1122, 1141, 1161, 1180, 1199, 1218, 1238, 1257, 1276, 1295, 1315,
  1334, 1353, 1372, 1392, 1411, 1430, 1449, 1469 >>
MpsPrice == <<
  256, 238, 221, 206, 192, 180, 168, 157, 148, 139, 130, 122, 115, 108, 102,
  96, 90, 85, 80, 76, 72, 68, 64, 60, 57, 54, 51, 48, 46, 43, 41, 39, 37, 35,
  33, 31, 29, 28, 26, 25, 24, 22, 21, 20, 19, 18, 17, 16, 15, 15, 14, 13, 12,
  12, 11, 11, 10, 10, 9, 9, 8, 8, 7, 7 >>
MCEntBits == [s \in 0..63 |-> [lps \in 0..1 |-> IF lps = 1 THEN LpsPrice[s + 1] ELSE MpsPrice[s + 1]]]

At(first, states) == [i \in first..(first + Len(states) - 1) |-> states[i - first + 1]]
MCCtx0 ==
  At(40, <<0, 11, 23, 5, 33, 25, 55, 10, 13, 23, 0, 25, 23, 49>>)
  @@ At(93, <<9, 23, 17, 37, 0, 15, 13, 33>>)
  @@ At(134, <<11, 14, 2, 12, 14, 14, 50, 26, 6, 1, 12, 1, 3, 10, 57, 11, 2, 31>>)
  @@ At(195, <<20, 28, 16, 14, 6, 2, 2, 2, 11, 27, 23, 29, 51, 45, 75, 9, 9, 39>>)
  @@ At(247, <<8, 80, 58, 48, 34, 40, 10, 1, 9, 15, 13, 84, 46, 16, 6, 18, 5, 23, 25, 10>>)
  @@ At(402, <<15, 12, 8, 20, 24, 28, 52, 34, 46, 50, 78, 58, 54, 80, 76,
      98, 48, 22, 5, 21, 47, 73, 95, 125, 18, 84, 70, 66, 50, 60, 30, 22, 24,
      4>>)

MCHeaders == {
  << <<"ue", 0>>, <<"ue", 5>>, <<"se", -3>> >>,
  << <<"u", 31, 0>>, <<"ue", 6>>, <<"se", 1>> >> }

BlockUnit(block, nC) == [kind |-> "block", block |-> block, nC |-> nC]
MCLevels == {0, 1, -20, 2100}
MCCavlcUnits ==
  {BlockUnit(ab \o <<c, d>>, -1) : ab \in {<<0, 0>>, <<-1, 0>>, <<0, 3>>}, c \in MCLevels, d \in {0, 1}}
  \cup {BlockUnit(<<0, 0, 5, 0, -1, 0, 0, 1>>, -2), BlockUnit(<<7, 1, -1, 1, 1, 0, 0, 0>>, -2)}
  \cup {BlockUnit([i \in 1..16 |-> IF i \in {1, 9, 11, 15} THEN i - 5 ELSE 0], nC) : nC \in {1, 3, 7, 8}}
  \cup {BlockUnit([i \in 1..n |-> IF i < 13 THEN x ELSE 0], 8) : n \in {15, 16}, x \in {1, 2, -5000}}
  \cup {BlockUnit([i \in 1..16 |-> i - 9 + (IF i > 8 THEN 1 ELSE 0)], 2), BlockUnit(Zeros(15), 9)}

Res(cat, block, nza, nzb) ==
  [kind |-> "res", cat |-> cat, block |-> block, nza |-> nza, nzb |-> nzb]
At64(low) == [i \in 1..64 |-> IF i <= Len(low) THEN low[i] ELSE 0]
Mvd(base, inc, mvd) == [kind |-> "mvd", base |-> base, inc |-> inc, mvd |-> mvd]
MCCabacUnits ==
  {Mvd(40, 1, v) : v \in {0, -19, 369}} \cup {Mvd(47, 2, v) : v \in {-7, 8, -589}}
  \cup {Mvd(40, 2, 2413)}
  \cup {Res(3, <<a, 0, c, d>>, 0, 1) : a \in {0, -1}, c \in {0, 2, -300}, d \in {0, 14}}
  \cup {Res(5, <<2, -2, 2, 3, -2, 2, 1, 1>>, 1, 0), Res(5, <<0, 0, 1, 0, 1, 0, 0, 0>>, 0, 0)}
  \cup {Res(2, [i \in 1..16 |-> IF i \in {1, 4, n} THEN 5 - i ELSE 0], 1, 1) : n \in {6, 16}}
  \cup {Res(6, At64(<<2, 0, -1, 0, 0, x>>), 0, 0) : x \in {1, 20}}
  \cup {Res(6, [i \in 1..64 |-> IF i = 47 THEN 1 ELSE 0], 0, 0)}
  \cup {Res(6, At64(<<0, 1, 2, 2, -3, 2, 2, 1, 0, 0, 0, 0, 1>>), 0, 0)}
  \cup {Res(2, [i \in 1..16 |-> IF i = 2 THEN x ELSE 0], 0, 1) : x \in {15, -16, 4000}}

\* Blocks for the quantiser: five levels above one at the high end take the
\* walk to its last node, forced zeros lie between, and the low positions
\* take every small level and the ones around the unary prefix's end.
Naive(a, b, c, high) ==
  [i \in 1..16 |-> IF i = 1 THEN a ELSE IF i = 2 THEN b ELSE IF i = 4 THEN c
                   ELSE IF i \in 6..10 THEN high ELSE IF i = 13 THEN 1 ELSE 0]
ToQuantise(cat, qn, slack, psy, lambda) ==
  [cat |-> cat, qn |-> qn, sign |-> [i \in DOMAIN qn |-> IF i % 2 = 0 THEN -1 ELSE 1],
   absc |-> [i \in DOMAIN qn |-> IF qn[i] = 0 THEN 3 ELSE 10 * qn[i] + slack],
   unmf |-> [i \in DOMAIN qn |-> 2560], w2 |-> [i \in DOMAIN qn |-> 16 + i],
   psy256 |-> psy, psyp |-> [i \in DOMAIN qn |-> 5 - i], psy_lo |-> 1,
   L |-> lambda, nza |-> 0, nzb |-> 1]
MCRdoqBlocks ==
  {ToQuantise(2, Naive(a, b, 1, high), slack, psy, lambda) :
     a \in {0, 15}, b \in {2, 16}, high \in {1, 3}, slack \in {-4, 2}, psy \in {0, 40},
     lambda \in {1, 5}}
  \cup {ToQuantise(6, At64(<<1, b, 0, 2, 3, 2, 2, 2, 2, 0, 1>>), -4, psy, 1) :
          b \in {1, 15}, psy \in {0, 40}}

---------------------------------------------------------------------------
(* Calls of the kernels: blocks of noise and of extremes, vectors to every *)
(* fraction inside the picture, at its border and far outside.             *)

Noise(seed, x, y) == ((x * 37 + y * 101 + seed * 53 + 5) * (x + 3 * y + 11 * seed + 7) + x * y) % 256
\* Samples: noise, black or white by chance, a checkerboard, flat extremes.
Texture(t, x, y) ==
  CASE t < 4 -> Noise(t, x, y)
    [] t \in 4..5 -> IF Noise(t, x, y) < 128 THEN 0 ELSE 255
    [] t = 6 -> 255 * ((x + y) % 2)
    [] t = 7 -> 255 * ((x + y + 1) % 2)
    [] t = 8 -> 255
    [] t = 9 -> 0
    [] t = 10 -> IF x = 3 /\ y = 2 THEN 255 ELSE 0
Sheet(t, w, h) == [y \in 0..(h - 1) |-> [x \in 0..(w - 1) |-> Texture(t, x, y)]]

Pairs == {<<0, 1>>, <<4, 5>>, <<6, 7>>, <<8, 9>>, <<10, 9>>}
ResidualCalls ==
  {[kind |-> "residual", src |-> Sheet(t[1], 8, 8), pred |-> Sheet(t[2], 8, 8), qp |-> qp, intra |-> wt[1],
    flat |-> wt[2], levMax |-> 0] :
     t \in {<<0, 1>>, <<4, 5>>, <<9, 8>>, <<10, 9>>}, qp \in {0, 23, 24, 51},
     wt \in {<<TRUE, TRUE>>, <<FALSE, TRUE>>, <<TRUE, FALSE>>}}
DcCalls ==
  {[kind |-> "dc", dc |-> [k \in 1..16 |-> (Texture(t, k, 3) - 128) * 15], cf |-> cf, qp |-> qp,
    intra |-> intra, flat |-> intra] :
     t \in {0, 1, 4, 8}, cf \in 1..2, qp \in {0, 11, 24, 33, 36, 51}, intra \in BOOLEAN}
Availability ==
  {[ht |-> ht, hl |-> hl, htl |-> ht /\ hl, htr |-> htr /\ ht] : ht \in BOOLEAN, hl \in BOOLEAN, htr \in BOOLEAN}
IntraCalls ==
  {[kind |-> "intra", src |-> Sheet(t + 1, 16, 16),
    nb |-> [top |-> [x \in 0..31 |-> Texture(t, x, 40)], left |-> [y \in 0..15 |-> Texture(t, 41, y)],
            corner |-> Texture(t, 9, 9), ht |-> a.ht, hl |-> a.hl, htl |-> a.htl, htr |-> a.htr]] :
     t \in {0, 4, 8}, a \in Availability}
ScoreCalls ==
  {[kind |-> "scores", a |-> Sheet(t[1], 16, 16), b |-> Sheet(t[2], 16, 16), dotprod |-> d, w0 |-> w0] :
     t \in Pairs, d \in BOOLEAN, w0 \in {32, 128}}
Pic(t, w, h, b) == [w |-> w, h |-> h, border |-> b, px |-> Sheet(t, w, h)]
Shapes == {<<16, 8>>, <<8, 8>>, <<4, 4>>}
MotionCalls ==
  {[kind |-> "motion", pic |-> Pic(t, 24, 16, 8), bx |-> 8, by |-> 0, mv |-> <<4 * p[1] + f[1], 4 * p[2] + f[2]>>,
    w |-> s[1], h |-> s[2], sw |-> 2, sh |-> IF t = 0 THEN 2 ELSE 1] :
     t \in {0, 5}, s \in Shapes, p \in {<<-3, 4>>, <<-15, 3>>, <<5, 12>>}, f \in {<<0,0>>,<<1,3>>,<<2,1>>,<<3,2>>,<<2,2>>}}
  \cup
  {[kind |-> "motion", pic |-> Pic(t, 24, 16, 8), bx |-> 8, by |-> 0, mv |-> mv,
    w |-> 8, h |-> 8, sw |-> 1, sh |-> 1] :
     t \in {0}, mv \in {<<f, g>> : f \in 0..3, g \in 0..3} \cup {<<-300, 2>>, <<305, -301>>, <<-56,-26>>, <<-57, -25>>, <<35,32>>,<<41,37>>}}
Smooth(t, amp, x, y) == 100 + (IF x > 3 THEN t * 6 ELSE 0) + (Noise(t, x, y) % (2 * amp + 1)) - amp
EdgeCalls ==
  {[kind |-> "edge", dir |-> d, bs |-> str, q |-> q,
    rows |-> IF d = "vertical" THEN [y \in 0..3 |-> [x \in 0..7 |-> Smooth(t, amp, x, y)]]
             ELSE [y \in 0..7 |-> [x \in 0..3 |-> Smooth(t, amp, y, x)]]] :
     d \in {"vertical", "horizontal"}, str \in 1..4, q \in {20, 36, 51}, t \in 0..3, amp \in {2, 7}}
  \cup
  {[kind |-> "edge", dir |-> "chroma", bs |-> str, q |-> q, span |-> 2, g |-> 0,
    rows |-> [y \in 0..7 |-> [x \in 0..7 |-> Smooth(t, amp, y, x)]]] :
     str \in {<<0, 1, 2, 4>>, <<3, 4, 0, 1>>}, q \in {20, 36, 51}, t \in 0..3, amp \in {2, 7}}
Context(t, left, top, tr8) ==
  [kind |-> "strength",
   cell |-> [d \in (-1..3) \X (-1..3) |->
     LET n == Noise(t, d[1] + 3, d[2] + 5)
     IN [ref |-> [l \in 0..1 |-> IF n % 7 = 0 THEN -1 ELSE ((n \div (7 * (l + 1))) % 3) - l],
         x |-> [l \in 0..1 |-> (Noise(t + l, d[1] + 9, d[2] + 2) % 3) * 2 - 300 * l],
         y |-> [l \in 0..1 |-> (Noise(t + l, d[2] + 9, d[1] + 2) % 3) * 2]]],
   nnz |-> [d \in (-2..3) \X (-2..3) |-> IF Noise(t, d[1] + 7, d[2] + 4) % 5 = 0 THEN 3 ELSE 0],
   tr8_cur |-> tr8[1], tr8_left |-> tr8[2], tr8_top |-> tr8[3], have_left |-> left, have_top |-> top]
StrengthCalls ==
  {Context(t, l, tp, tr8) : t \in 0..5, l \in BOOLEAN, tp \in BOOLEAN, tr8 \in {<<0, 0, 0>>, <<1, 0, 1>>, <<1, 1, 0>>}}
PictureCalls == {[kind |-> "picture", pic |-> Pic(t, 24, 32, 8), nt |-> 2] : t \in {0, 5}}
MCReads ==
  {[bx |-> 8, by |-> 16, mv |-> <<4 * p[1] + f[1], 4 * p[2] + f[2]>>, w |-> s, h |-> s] :
     p \in {<<0, -8>>, <<-16, -24>>}, s \in {4, 8}, f \in {<<0,0>>,<<1,3>>,<<2,1>>,<<3,2>>,<<2,2>>,<<3,3>>}}
  \cup {[bx |-> 8, by |-> 16, mv |-> mv, w |-> 8, h |-> 8] : mv \in {<<-70, 3>>, <<61, 62>>, <<62, 63>>, <<63, 61>>}}
MCCalls == ResidualCalls \cup DcCalls \cup IntraCalls \cup ScoreCalls \cup MotionCalls \cup EdgeCalls
         \cup StrengthCalls \cup PictureCalls

MCInit ==
  \/ Init /\ call = Rest /\ planes = <<>> /\ result = <<>>
  \/ /\ KernelInit
     /\ pc = "rest" /\ cabac = FALSE /\ size = 0 /\ room = 0 /\ bs = bs_init(0) /\ cb = NoEngine
     /\ twin = 0 /\ quote = 0 /\ paid = 0 /\ est = [ctx |-> Ctx0, bits |-> 0]
     /\ rdoq = NoBlock /\ script = <<>> /\ nal = NoNal
MCNext == (Next /\ UNCHANGED kvars) \/ (KernelNext /\ UNCHANGED vars)
MCSpec == MCInit /\ [][MCNext]_<<vars, kvars>>
=============================================================================
