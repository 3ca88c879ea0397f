----------------------------- MODULE MCStaircase -----------------------------
(* Instances of Staircase: encoders and the mini-GOPs they are given.       *)
EXTENDS Staircase

Shape(rows, lag, bframes, nref, wide, tight, pool, script, fail) ==
    [rows |-> rows, lag |-> lag, bframes |-> bframes, nref |-> nref, wide |-> wide,
     tight |-> tight, pool |-> pool, script |-> script, fail |-> fail]
All == 9                        \* no cap on the pool of picture buffers

\* At width: a full ring; a picture tall enough for the reference B's trailer
\* to overlap its anchor's analysis; a deep list 0 at a long lag; a pool of
\* one bag.
Wide ==
    {Shape(2, 1, 2, 1, TRUE, FALSE, All, <<2, 2, 2, 2>>, NoPic),
     Shape(5, 1, 2, 2, TRUE, FALSE, All, <<2, 2>>, NoPic),
     Shape(3, 2, 3, 2, TRUE, FALSE, All, <<3, 2, 1>>, NoPic),
     Shape(2, 1, 3, 1, TRUE, FALSE, 1, <<3, 1, 2, 3, 3>>, NoPic)}
\* One burst in flight: mini-GOPs of every length and an IDR; the tight window.
Narrow ==
    {Shape(5, 1, 3, 1, FALSE, FALSE, 0, <<2, 3, 1, 2, 0, Idr, 3, 2>>, NoPic),
     Shape(4, 1, 3, 2, FALSE, TRUE, 0, <<3, 3, 3>>, NoPic)}
\* A picture whose bits overflow.
Failing ==
    {Shape(2, 1, 2, 1, TRUE, FALSE, All, <<2, 2, 2>>, <<1, "L">>),
     Shape(2, 1, 2, 1, TRUE, FALSE, All, <<2, 2, 2>>, <<1, "A">>),
     Shape(3, 1, 2, 1, FALSE, FALSE, 0, <<2, 2, 2>>, <<2, "R">>)}
AllShapes == Wide \cup Narrow \cup Failing

\* One burst in flight, one reference, the tight window.
TightShapes == {Shape(3, 1, 2, 1, FALSE, TRUE, 0, <<2, 2, 2>>, NoPic)}
=============================================================================
