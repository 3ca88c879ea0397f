-------------------------------- MODULE MCPool --------------------------------
(* The submitters and jobs of the model-checked instances of Pool.          *)
EXTENDS Pool, TLC

Wave(r, c) == [kind |-> 0, nrows |-> r, ncols |-> c, prio |-> FALSE, parkable |-> TRUE,
               gated |-> FALSE]
Units(n) == [kind |-> 1, nrows |-> n, ncols |-> 1, prio |-> FALSE, parkable |-> FALSE,
             gated |-> FALSE]
Urgent(x) == [x EXCEPT !.prio = TRUE]
Gated(x) == [x EXCEPT !.gated = TRUE]

\* As it ships: a batch of more wavefronts than the table has slots, beside a
\* latency-critical parallel-for.
Shipped ==
    [park |-> FALSE, wake1 |-> TRUE, rows |-> 0,
     plan |-> "encoder" :> << <<Wave(1, 1), Wave(2, 2), Wave(1, 1)>> >> @@
              "side" :> << <<Urgent(Units(2))>> >>]

\* Parking on and one wake per event off: a wavefront whose third row becomes
\* claimable while its second is parked, and a gated one, which gives its
\* workers something to park for.
Parking ==
    [park |-> TRUE, wake1 |-> FALSE, rows |-> 2,
     plan |-> "encoder" :> << <<Wave(3, 4)>> >> @@
              "side" :> << <<Gated(Wave(2, 2))>> >>]

Both == {Shipped, Parking}
=============================================================================
