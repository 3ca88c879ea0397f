---------------------------- MODULE MCGopParallel ----------------------------
(* Inputs of a few GOPs of one to three frames. *)
EXTENDS GopParallel

Whole == [source |-> "file", frames |-> 5, length |-> 5, keyint |-> 2, threads |-> 2,
          window |-> 0, abr |-> TRUE, twopass |-> FALSE, cuts |-> {}, wfail |-> None,
          bad |-> [at |-> None, how |-> "none"], flushes |-> 2, fails |-> {}]

With(v, change) == [f \in DOMAIN v |-> IF f \in DOMAIN change THEN change[f] ELSE v[f]]

Piped == With(Whole, [source |-> "pipe", abr |-> FALSE])
Cut   == With(Whole, [source |-> "cuts", frames |-> 6, cuts |-> {0, 1, 4}])

\* A pipe under a bit rate: what is carried follows what was read in time.
PipedAbr == With(Whole, [source |-> "pipe", keyint |-> 1])

Failing(v, calls) == With(v, [fails |-> calls])
BadAt(v, where, what) == With(v, [bad |-> [at |-> where, how |-> what]])

All == {
    With(Whole, [threads |-> 3]),                   \* one GOP each, of unequal length
    With(Whole, [frames |-> 2]),                    \* the file is shorter than it was
    BadAt(Whole, 3, "payload"), BadAt(Whole, 5, "header"),
    With(Whole, [wfail |-> 1, keyint |-> 1]),       \* the second write fails
    Failing(Whole, {<<"frame", 1>>, <<"flush", 1, 2>>, <<"headers", 2>>}),
    Failing(With(Whole, [keyint |-> 1, window |-> 1]),    \* five GOPs, a forced window
            {<<"open", 1>>, <<"frame", 4>>}),
    Failing(With(Whole, [keyint |-> 1, frames |-> 4, length |-> 4]),
            {<<"open", 2>>, <<"flush", 0, 1>>}),
    Piped, With(Piped, [keyint |-> 1, frames |-> 4]), With(Piped, [frames |-> 0]),
    With(Piped, [twopass |-> TRUE, keyint |-> 1]),
    BadAt(Piped, 3, "table"), BadAt(With(Piped, [keyint |-> 1]), 4, "payload"),
    Cut, With(Cut, [keyint |-> 3, frames |-> 4]), BadAt(Cut, 2, "header"),
    PipedAbr, Failing(With(PipedAbr, [frames |-> 4]), {<<"open", 1>>, <<"frame", 2>>})}

\* What the comment on rc_state takes for granted, that the record of the
\* hand-out names every GOP.  Of PipedAbr TLC finds it violated: a worker that
\* takes a GOP before it is read leaves no name.
RecordWhole == \A k \in 0..(Min({job.next_gop, NGops}) - 1) : Handed(k) # None
=============================================================================
