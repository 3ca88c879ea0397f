------------------------------ MODULE MCLaThread ------------------------------
(* Instances of LaThread: encoders and films.                               *)
EXTENDS LaThread

\* Two B's per anchor in the smallest ring the engage gate admits; one B per
\* anchor in a ring deep enough for the prefetch to find work; two, in a ring
\* so tight that the slots of popped B's are typed anew before the next walk.
SmallRing == [bframes |-> 2, depth |-> 5, buf |-> 1, keyint |-> 99, scmin |-> 2, badapt |-> TRUE]
DeepRing == [bframes |-> 1, depth |-> 7, buf |-> 3, keyint |-> 99, scmin |-> 2, badapt |-> TRUE]
TightRing == [bframes |-> 2, depth |-> 10, buf |-> 1, keyint |-> 9, scmin |-> 2, badapt |-> FALSE]
Rings == {SmallRing, DeepRing, TightRing}

\* Nothing happens; a cut; a flash that looks like one; frames that repel B's.
Film(k, kind) == [f \in 1 .. Frames |-> IF f \in k THEN kind ELSE "calm"]
Plots == {Film({}, "calm"), Film({5}, "cut"), Film({7}, "flash"), Film({4, 5}, "dear")}
===============================================================================
