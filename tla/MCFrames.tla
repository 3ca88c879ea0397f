------------------------------- MODULE MCFrames -------------------------------
(* The encoders of the model-checked instances of Frames.                   *)
EXTENDS Frames

\* CRF, CQP: no rate control waits for a frame's bits.
Plain(film, bframes, nref, window) ==
    [pyr |-> bframes >= 2, nref |-> nref, window |-> window, maxfn |-> window + 1,
     bframes |-> bframes, w2 |-> TRUE, fp |-> FALSE, rc |-> "none", lag |-> 0, nodrain |-> TRUE,
     vbv |-> FALSE, bound |-> "off", bails |-> FALSE, la |-> 0, film |-> film]
Abr(film, bframes, nref, window) == [Plain(film, bframes, nref, window) EXCEPT !.rc = "rcp"]

\* The windows are as sps.max_num_ref_frames sizes them: nref, one for a future
\* anchor, and the reference B's of a mini-GOP.
Encoders == {
    [Plain(7, 2, 1, 3) EXCEPT !.w2 = FALSE],
    Plain(5, 3, 2, 4),
    [Plain(6, 1, 2, 3) EXCEPT !.rc = "serial"],
    [Abr(5, 2, 1, 3) EXCEPT !.la = 1],
    [Abr(6, 3, 2, 4) EXCEPT !.fp = TRUE, !.bails = TRUE],
    [Abr(6, 3, 1, 3) EXCEPT !.fp = TRUE, !.lag = 1],
    [Abr(5, 2, 1, 3) EXCEPT !.vbv = TRUE, !.bound = "first"],
    [Abr(4, 1, 1, 2) EXCEPT !.vbv = TRUE, !.bound = "all"],
    [Abr(6, 2, 2, 4) EXCEPT !.w2 = FALSE, !.nodrain = FALSE] }
=============================================================================
