----------------------------- MODULE GopParallel -----------------------------
(***************************************************************************)
(* The GOP-parallel path of the command line front end, encode_threaded()  *)
(* in src/cli/yah264_cli.c.  A reader thread parses the input into a       *)
(* bounded store of frames; each worker takes a GOP, waits for its frames  *)
(* one at a time, codes it with an encoder of its own and publishes the    *)
(* bytes; the main thread plans the split, starts the workers and writes   *)
(* the GOPs in order.  One mutex guards the job, so an action is one       *)
(* section under it, with the unlocked work that leads up to it.  Three    *)
(* condition variables carry the waits: space (the reader), ready (the     *)
(* workers, and the main thread of a pipe) and emit (the writer, and the   *)
(* workers that wait for the rate control of an earlier GOP).              *)
(*                                                                         *)
(* Frames and GOPs count from 0.  The bytes of a GOP are those of the      *)
(* calls of its encoder that did not fail, which the worker appends one    *)
(* after the other, and of the rate-control state the encoder imported.    *)
(* Which frames come out of which call is the encoder's business.  Not     *)
(* modelled: what realloc does to an unlocked reader of the GOP table,     *)
(* which cannot move before its 63rd entry; pass 1 and 2 of the two-pass   *)
(* files; the diagnostic overrides of the split.                           *)
(***************************************************************************)
EXTENDS Integers, Sequences, FiniteSets, SequencesExt, FiniteSetsExt

CONSTANTS
    Envs,        \* the inputs and options the encode may be started with
    MaxThreads,  \* the largest --threads among them
    ReadAhead    \* stream_readahead(): frames of read-ahead per worker

\* The calls of an encoder: to open that of a GOP, for its headers, with a
\* frame, and, for the n-th time, without one to empty it.
EncoderCalls == ({"open", "headers", "frame"} \X Nat) \cup ({"flush"} \X Nat \X Nat)

ASSUME GopAssumption ==
    /\ MaxThreads \in Nat \ {0}
    /\ ReadAhead \in Nat \ {0}
    /\ \A v \in Envs :
         /\ v.source \in {"file", "pipe", "cuts"}
         /\ v.frames \in Nat /\ v.length \in Nat /\ v.keyint \in Nat \ {0}
         /\ v.threads \in 1..MaxThreads /\ v.window \in Nat
         /\ v.abr \in BOOLEAN /\ v.twopass \in BOOLEAN
         /\ v.cuts \subseteq Nat /\ IsFiniteSet(v.cuts)
         /\ v.bad.how \in {"none", "header", "payload", "table"}
         /\ v.flushes \in Nat /\ v.fails \subseteq EncoderCalls

Main    == -1
Reader  == -2
Workers == 0..(MaxThreads - 1)
Threads == Workers \cup {Main, Reader}
None    == -1
Endless == 99      \* INT_MAX, the window of the cut-aware split

VARIABLES
    env,     \* the chosen element of Envs
    pc,      \* where each thread is
    asleep,  \* the condition variable each thread waits on, or "no"
    job,     \* gop_job_t, the part under its lock
    loc,     \* the locals of each gop_worker
    plan,    \* what encode_threaded settles before it starts the workers
    out      \* the GOPs written to the output

vars == <<env, pc, asleep, job, loc, plan, out>>

NGops == Len(job.gop_start) - 1
GopStart(g) == job.gop_start[g + 1]
GopLen(g) == GopStart(g + 1) - GopStart(g)

\* The split at every keyint frames of n.
Arithmetic(n) ==
    [i \in 1..((n + env.keyint - 1) \div env.keyint) + 1 |->
        Min({n, (i - 1) * env.keyint})]

\* Frames of the store that are allocated: published and not yet freed.
Live == job.n_read - Cardinality(job.freed)

FileWindow(v) ==
    LET need == Min({(v.threads + 1) * v.keyint, v.length})
        gops == (v.length + v.keyint - 1) \div v.keyint
    IN Min({need, (Min({gops, v.threads}) + 1) * ReadAhead})

Window(v) ==
    CASE v.source = "cuts" -> Endless
      [] v.window > 0      -> v.window
      [] v.source = "file" -> FileWindow(v)
      [] OTHER             -> (v.threads + 1) * v.keyint

\* The reader has been started; of a file the GOP table is already whole.
Init ==
    /\ env \in Envs
    /\ pc = [t \in Threads |-> CASE t = Main -> "split" [] t = Reader -> "header" [] OTHER -> "none"]
    /\ asleep = [t \in Threads |-> "no"]
    /\ job = [gop_start |-> IF env.source = "file" THEN Arithmetic(env.length) ELSE <<0>>,
              gops_final |-> env.source = "file",
              n_read |-> 0, freed |-> {}, window |-> Window(env), waiting |-> 0,
              eof |-> FALSE, rerr |-> FALSE, abort |-> FALSE,
              next_gop |-> 0, pull_gop |-> <<>>,
              gop_done |-> {}, gop_data |-> <<>>, rc_ready |-> {}, rc_state |-> {}]
    /\ loc = [w \in Workers |-> [g |-> None, k |-> None, i |-> 0, end |-> 0, first |-> 0,
                                 scan |-> 0, carry |-> <<>>, bytes |-> {}]]
    /\ plan = [known |-> FALSE, g |-> 0, owned |-> FALSE, order |-> <<>>]
    /\ out = <<>>

-----------------------------------------------------------------------------
\* pthread_cond_broadcast on the condition variables in cvs, while t moves on.
Woken(cvs) == [s \in Threads |-> IF asleep[s] \in cvs THEN "no" ELSE asleep[s]]

Runs(t, at) == pc[t] = at /\ asleep[t] = "no"
Goes(t, to) == pc' = [pc EXCEPT ![t] = to]

\* Thread t waits on cv and comes back to the test it is at.
Waits(t, cv) == asleep' = [asleep EXCEPT ![t] = cv] /\ UNCHANGED pc

-----------------------------------------------------------------------------
(* y4m_reader *)

Bad(how) == env.bad = [at |-> job.n_read, how |-> how]

ReaderFails ==
    /\ job' = [job EXCEPT !.rerr = TRUE, !.abort = TRUE, !.eof = TRUE, !.gops_final = TRUE]
    /\ asleep' = Woken({"ready", "emit", "space"})
    /\ Goes(Reader, "gone")

\* The FRAME header: the end of the input, one that is malformed, or a wait
\* for room.
ReadHeader ==
    /\ Runs(Reader, "header")
    /\ IF job.n_read >= env.frames
       THEN Goes(Reader, "tail") /\ UNCHANGED <<asleep, job>>
       ELSE IF Bad("header") THEN ReaderFails
       ELSE Goes(Reader, "room") /\ UNCHANGED <<asleep, job>>
    /\ UNCHANGED <<env, loc, plan, out>>

\* The wait for room, which a starving worker overrides.
ReadRoom ==
    /\ Runs(Reader, "room")
    /\ IF Live >= job.window /\ job.waiting = 0 /\ ~job.abort
       THEN Waits(Reader, "space")
       ELSE Goes(Reader, IF job.abort THEN "tail" ELSE "frame") /\ UNCHANGED asleep
    /\ UNCHANGED <<env, job, loc, plan, out>>

\* gop_push
Pushed(table, end) == Append(table, end)

\* The payload of the frame, its publication, and the GOP boundary when the
\* table is still growing.
ReadFrame ==
    /\ Runs(Reader, "frame")
    /\ \/ /\ Bad("payload")
          /\ ReaderFails
       \/ /\ ~Bad("payload")
          /\ LET n    == job.n_read + 1
                 ends == ~job.gops_final /\ n % env.keyint = 0
             IN IF ends /\ Bad("table")
                THEN /\ job' = [job EXCEPT !.n_read = n, !.rerr = TRUE, !.abort = TRUE,
                                           !.eof = TRUE, !.gops_final = TRUE]
                     /\ asleep' = Woken({"ready", "emit", "space"})
                     /\ Goes(Reader, "gone")
                ELSE /\ job' = [job EXCEPT !.n_read = n,
                                           !.gop_start = IF ends THEN Pushed(@, n) ELSE @]
                     /\ asleep' = Woken({"ready"})
                     /\ Goes(Reader, "header")
    /\ UNCHANGED <<env, loc, plan, out>>

\* Past the last frame.  A file whose length gave the count must end here.  A
\* reader that was stopped is in the middle of it, and what follows may look
\* like a line or not.
ReadTail ==
    /\ Runs(Reader, "tail")
    /\ \/ /\ env.source = "file"
          /\ Bad("header") \/ job.n_read < env.frames
          /\ ReaderFails
       \/ /\ ~(env.source = "file" /\ Bad("header"))
          /\ job' = [job EXCEPT
                !.eof = TRUE, !.gops_final = TRUE,
                !.gop_start = IF ~job.gops_final /\ job.n_read > Last(@)
                              THEN Pushed(@, job.n_read) ELSE @]
          /\ asleep' = Woken({"ready", "emit"})
          /\ Goes(Reader, "gone")
    /\ UNCHANGED <<env, loc, plan, out>>

-----------------------------------------------------------------------------
\* The elements of S in the order of the total order Less: qsort.
Ranked(S, Less(_, _)) ==
    [k \in 1..Cardinality(S) |->
        CHOOSE x \in S : Cardinality({y \in S : Less(y, x)}) = k - 1]

(* encode_threaded up to the start of the workers *)

\* The GOP table of the cut-aware split: an IDR at each cut of the pre-scan.
CutTable(n) ==
    Append(Ranked({f \in env.cuts : f < n}, LAMBDA a, b : a < b), n)

\* A file goes on; the cut-aware split waits for the whole input; a pipe waits
\* until the split can be decided: at the end of the input, or with more GOPs
\* than threads.
Split ==
    /\ Runs(Main, "split")
    /\ \/ /\ env.source = "file"
          /\ Goes(Main, "plan")
          /\ plan' = [plan EXCEPT !.known = TRUE]
          /\ UNCHANGED <<job, asleep>>
       \/ /\ env.source = "cuts"
          /\ pc[Reader] = "gone"
          /\ Goes(Main, "plan")
          /\ plan' = [plan EXCEPT !.known = TRUE]
          /\ job' = [job EXCEPT !.gop_start = IF job.rerr \/ job.n_read = 0 THEN @
                                              ELSE CutTable(job.n_read),
                                !.gops_final = TRUE]
          /\ UNCHANGED asleep
       \/ /\ env.source = "pipe"
          /\ IF ~job.abort /\ ~job.gops_final /\ NGops <= env.threads
             THEN Waits(Main, "ready") /\ UNCHANGED plan
             ELSE /\ Goes(Main, "plan")
                  /\ plan' = [plan EXCEPT !.known = job.gops_final]
                  /\ UNCHANGED asleep
          /\ UNCHANGED job
    /\ UNCHANGED <<env, loc, out>>

Refused == env.twopass /\ ~plan.known

\* A read error, an empty input, or two passes over a pipe: stop the reader.
Abandon ==
    /\ Runs(Main, "plan")
    /\ job.rerr \/ (job.gops_final /\ NGops = 0) \/ Refused
    /\ job' = [job EXCEPT !.abort = TRUE]
    /\ asleep' = Woken({"space"})
    /\ Goes(Main, "join")
    /\ UNCHANGED <<env, loc, plan, out>>

Ragged == \E g \in 0..(NGops - 1) : GopLen(g) # GopLen(0)

\* gop_len_cmp: longest first, the index breaking ties.
Before(a, b) == GopLen(a) > GopLen(b) \/ (GopLen(a) = GopLen(b) /\ a < b)

Plan ==
    /\ Runs(Main, "plan")
    /\ ~(job.rerr \/ (job.gops_final /\ NGops = 0) \/ Refused)
    /\ LET gops   == IF plan.known THEN NGops ELSE env.threads + 1
           g      == Min({env.threads, gops})
           owned  == plan.known /\ g > 1 /\ g = gops /\ Ragged
           queued == plan.known /\ g > 1 /\ g < gops
           narrow == env.source # "cuts" /\ env.window = 0
       IN /\ plan' = [plan EXCEPT !.g = g, !.owned = owned,
                          !.order = IF queued THEN Ranked(0..(gops - 1), Before) ELSE <<>>]
          /\ job' = [job EXCEPT !.window = IF narrow THEN Min({@, (g + 1) * ReadAhead}) ELSE @]
          /\ asleep' = IF narrow /\ (g + 1) * ReadAhead < job.window THEN Woken({"space"}) ELSE asleep
          /\ pc' = [t \in Threads |-> CASE t = Main -> "write"
                                        [] t \in 0..(g - 1) -> "claim"
                                        [] OTHER -> pc[t]]
    /\ UNCHANGED <<env, loc, out>>

-----------------------------------------------------------------------------
(* gop_worker *)

\* Wait for GOP l.g to exist and for its first frame, then settle where it ends.
Seek(w, l, j) ==
    LET n     == Len(j.gop_start) - 1
        first == j.gop_start[l.g + 1]
        next  == j.gop_start[l.g + 2]
        end   == IF j.eof THEN Min({next, j.n_read}) ELSE next
    IN \/ /\ j.abort \/ (l.g >= n /\ j.gops_final)
          /\ Goes(w, "leave")
          /\ loc' = [loc EXCEPT ![w] = l]
          /\ UNCHANGED asleep
       \/ /\ ~j.abort
          /\ \/ l.g >= n /\ ~j.gops_final
             \/ l.g < n /\ j.n_read <= first /\ ~j.eof
          /\ Goes(w, "seek")
          /\ loc' = [loc EXCEPT ![w] = l]
          /\ asleep' = [asleep EXCEPT ![w] = "ready"]
       \/ /\ ~j.abort /\ l.g < n
          /\ j.n_read > first \/ j.eof
          /\ Goes(w, IF end <= first THEN "empty" ELSE "carry")
          /\ loc' = [loc EXCEPT ![w] = [l EXCEPT !.first = first, !.i = first, !.end = end]]
          /\ UNCHANGED asleep

\* The GOP this worker codes next: the one it owns, or the head of the queue.
NextOwned(w) == IF loc[w].scan <= w THEN w ELSE NGops

FromQueue(k) == IF k < NGops /\ plan.order # <<>> THEN plan.order[k + 1] ELSE k

\* pull_gop[k] is written only for a GOP that exists; -1 elsewhere.
Pulled(pull, k, g) ==
    [i \in 1..(k + 1) |-> IF i <= Len(pull) THEN pull[i]
                          ELSE IF g < NGops THEN g ELSE None]

Claim(w) ==
    /\ Runs(w, "claim")
    /\ LET k == IF plan.owned THEN None ELSE job.next_gop
           g == IF plan.owned THEN NextOwned(w) ELSE FromQueue(k)
           l == [loc[w] EXCEPT !.g = g, !.k = k, !.scan = g + 1]
       IN /\ job' = IF plan.owned THEN job
                    ELSE [job EXCEPT !.next_gop = k + 1, !.pull_gop = Pulled(@, k, g)]
          /\ Seek(w, l, job)
    /\ UNCHANGED <<env, plan, out>>

SeekAgain(w) ==
    /\ Runs(w, "seek")
    /\ Seek(w, loc[w], job)
    /\ UNCHANGED <<env, job, plan, out>>

\* The input ended before this GOP.
PublishEmpty(w) ==
    /\ Runs(w, "empty")
    /\ job' = [job EXCEPT !.gop_done = @ \cup {loc[w].g}, !.rc_ready = @ \cup {loc[w].g}]
    /\ asleep' = Woken({"emit"})
    /\ Goes(w, "claim")
    /\ UNCHANGED <<env, loc, plan, out>>

Handed(k) == job.pull_gop[k + 1]

\* Mutant: the predecessor is one place too late.
Pred_Late(w) ==
    IF ~env.abr \/ loc[w].k < plan.g THEN None ELSE Handed(loc[w].k - plan.g + 1)

\* The GOP handed out as many places earlier as there are workers, and the
\* frames of the GOPs between them.
Pred(w) ==
    IF ~env.abr \/ loc[w].k < plan.g THEN None ELSE Handed(loc[w].k - plan.g)

Ahead(w) ==
    LET between == {i \in (loc[w].k - plan.g + 1)..(loc[w].k - 1) : Handed(i) # None}
    IN SumFunction([i \in between |-> GopLen(Handed(i))])

\* Whether the encoder of GOP g is opened.  Every call of one that is not fails.
Opens(g) == <<"open", g>> \notin env.fails

\* What a call of the encoder of GOP g appends: nothing when it fails, and
\* nobody is told.
Output(g, call) == IF Opens(g) /\ call \notin env.fails THEN {call} ELSE {}

\* The flush loop ends at the first call that fails: what the encoder still
\* holds is lost with it.
Flushed(g) ==
    {<<"flush", g, n>> : n \in {m \in 1..env.flushes :
        \A before \in 1..m : Output(g, <<"flush", g, before>>) # {}}}

\* Wait for the state of the predecessor, open the encoder on it and write the
\* headers.
Carry(w) ==
    /\ Runs(w, "carry")
    /\ LET p == Pred(w)
       IN IF p # None /\ ~job.abort /\ p \notin job.rc_ready
          THEN Waits(w, "emit") /\ UNCHANGED loc
          ELSE /\ loc' = [loc EXCEPT
                     ![w].carry = IF Opens(loc[w].g) /\ p # None /\ p \in job.rc_state
                                  THEN <<p, Ahead(w)>> ELSE <<>>,
                     ![w].bytes = Output(loc[w].g, <<"headers", loc[w].g>>)]
               /\ Goes(w, "feed")
               /\ UNCHANGED asleep
    /\ UNCHANGED <<env, job, plan, out>>

\* Wait for frame i.  While it waits the worker counts itself in waiting and
\* the reader may pass the window.
Feed(w) ==
    /\ pc[w] \in {"feed", "starve"} /\ asleep[w] = "no"
    /\ LET i       == loc[w].i
           waiting == job.waiting - IF pc[w] = "starve" THEN 1 ELSE 0
       IN IF ~job.abort /\ job.n_read <= i /\ ~job.eof
          THEN /\ job' = [job EXCEPT !.waiting = waiting + 1]
               /\ asleep' = [Woken({"space"}) EXCEPT ![w] = "ready"]
               /\ Goes(w, "starve")
          ELSE /\ job' = [job EXCEPT !.waiting = waiting]
               /\ Goes(w, IF ~job.abort /\ i < job.n_read THEN "code" ELSE "publish")
               /\ UNCHANGED asleep
    /\ UNCHANGED <<env, loc, plan, out>>

\* Hand the frame to the encoder and free it.  A call that fails loses what it
\* would have returned, and the worker goes on.
Code(w) ==
    /\ Runs(w, "code")
    /\ LET i == loc[w].i
       IN /\ job' = [job EXCEPT !.freed = @ \cup {i}]
          /\ loc' = [loc EXCEPT ![w].i = i + 1,
                                ![w].bytes = @ \cup Output(loc[w].g, <<"frame", i>>)]
          /\ Goes(w, IF i + 1 < loc[w].end THEN "feed" ELSE "publish")
    /\ asleep' = Woken({"space"})
    /\ UNCHANGED <<env, plan, out>>

\* f with d at g.
Stored(f, g, d) == [x \in DOMAIN f \cup {g} |-> IF x = g THEN d ELSE f[x]]

\* Flush and close the encoder, publish the GOP and its rate-control state; a
\* GOP that lost bytes is published like any other.  An encoder that was not
\* opened has no state.
Publish(w) ==
    /\ Runs(w, "publish")
    /\ LET l == loc[w]
       IN job' = [job EXCEPT
            !.rc_state = IF env.abr /\ Opens(l.g) THEN @ \cup {l.g} ELSE @,
            !.rc_ready = @ \cup {l.g},
            !.gop_data = Stored(@, l.g,
                [g |-> l.g, first |-> l.first, end |-> l.i, carry |-> l.carry,
                 bytes |-> l.bytes \cup Flushed(l.g)]),
            !.gop_done = @ \cup {l.g}]
    /\ asleep' = Woken({"space", "emit"})
    /\ Goes(w, "claim")
    /\ UNCHANGED <<env, loc, plan, out>>

\* Mutant: it leaves without a word.
Leave_Silent(w) ==
    /\ Runs(w, "leave")
    /\ Goes(w, "gone")
    /\ UNCHANGED <<env, job, asleep, loc, plan, out>>

\* A worker that leaves may be the last one somebody waits for.
Leave(w) ==
    /\ Runs(w, "leave")
    /\ asleep' = Woken({"emit"})
    /\ Goes(w, "gone")
    /\ UNCHANGED <<env, job, loc, plan, out>>

-----------------------------------------------------------------------------
(* encode_threaded: the writer *)

Emitted == Len(out)

\* Mutant: an aborted job is written on as long as GOPs are published.
WriterDone_Trusts == job.gops_final /\ Emitted >= NGops

WriterDone == job.abort \/ (job.gops_final /\ Emitted >= NGops)

\* The output takes no more at GOP env.wfail, if there is something to write.
WriteBreaks ==
    /\ Emitted = env.wfail
    /\ Emitted \in DOMAIN job.gop_data /\ job.gop_data[Emitted].bytes # {}

\* The lowest GOP not yet written, or the end; an empty GOP writes nothing,
\* and a failed write stops the job.
Write ==
    /\ Runs(Main, "write")
    /\ IF WriterDone THEN Goes(Main, "join") /\ UNCHANGED <<asleep, out>>
       ELSE IF Emitted \in job.gop_done
       THEN /\ out' = Append(out, IF Emitted \in DOMAIN job.gop_data THEN job.gop_data[Emitted] ELSE [g |-> Emitted])
            /\ Goes(Main, IF WriteBreaks THEN "wfailed" ELSE "write")
            /\ UNCHANGED asleep
       ELSE Waits(Main, "emit") /\ UNCHANGED out
    /\ UNCHANGED <<env, job, loc, plan>>

WriteFails ==
    /\ Runs(Main, "wfailed")
    /\ job' = [job EXCEPT !.abort = TRUE]
    /\ asleep' = Woken({"space", "ready"})
    /\ Goes(Main, "join")
    /\ UNCHANGED <<env, loc, plan, out>>

Join ==
    /\ Runs(Main, "join")
    /\ \A t \in Threads \ {Main} : pc[t] \in {"none", "gone"}
    /\ Goes(Main, "returned")
    /\ UNCHANGED <<env, asleep, job, loc, plan, out>>

\* pthread_cond_wait may return unasked.
SpuriousWake(t) ==
    /\ asleep[t] # "no"
    /\ asleep' = [asleep EXCEPT ![t] = "no"]
    /\ UNCHANGED <<env, pc, job, loc, plan, out>>

-----------------------------------------------------------------------------
ReaderStep == ReadHeader \/ ReadRoom \/ ReadFrame \/ ReadTail

MainStep == Split \/ Abandon \/ Plan \/ Write \/ WriteFails \/ Join

WorkerStep(w) ==
    \/ Claim(w) \/ SeekAgain(w) \/ PublishEmpty(w) \/ Carry(w)
    \/ Feed(w) \/ Code(w) \/ Publish(w) \/ Leave(w)

Returned == pc[Main] = "returned" /\ UNCHANGED vars

Next ==
    \/ ReaderStep
    \/ MainStep
    \/ \E w \in Workers : WorkerStep(w)
    \/ \E t \in Threads : SpuriousWake(t)
    \/ Returned

\* The threads run: none is kept from the processor for ever.
Fairness ==
    /\ WF_vars(ReaderStep)
    /\ WF_vars(MainStep)
    /\ \A w \in Workers : WF_vars(WorkerStep(w))

Spec == Init /\ [][Next]_vars /\ Fairness

-----------------------------------------------------------------------------
(* Properties *)

\* The frames of GOP g that were read, and the frames an encoder was fed.
Frames(g) == {f \in GopStart(g)..(GopStart(g + 1) - 1) : f < job.n_read}
Fed(x) == x.first..(x.end - 1)

\* The calls the encoder of GOP g is owed before the flush.
Owed(g) == {<<"headers", g>>} \cup {<<"frame", f>> : f \in Frames(g)}

\* What is written is the input, GOP after GOP, whatever order the workers ran
\* in and whichever read, write or call of an encoder failed: every frame of a
\* GOP that was read was handed to its encoder, and its bytes are those of every
\* call it is owed, but for the calls that failed, and of the flush up to the
\* first that did.  In particular a GOP that a worker cut short when the job was
\* aborted, which it publishes like any other, is never written.  And that is
\* all of the input, or the exit status says that a read, a write or the
\* set-up failed.
OutputWhole ==
    /\ pc[Main] \in {"join", "returned"} =>
          \/ job.gops_final /\ Emitted = NGops
          \/ job.rerr \/ Refused \/ env.wfail \in 0..(Emitted - 1)
    /\ \A i \in 1..Emitted :
          LET g == i - 1
          IN /\ g < NGops
             /\ IF "first" \in DOMAIN out[i]
                THEN /\ out[i].g = g /\ Fed(out[i]) = Frames(g)
                     /\ out[i].bytes =
                           (UNION {Output(g, call) : call \in Owed(g)}) \cup Flushed(g)
                ELSE Frames(g) = {}

\* Where GOP g is in the order the GOPs are handed out in, and who is there.
Place(g) == IF plan.order = <<>> THEN g ELSE (CHOOSE k \in 1..Len(plan.order) : plan.order[k] = g) - 1
Given(k) == IF plan.order = <<>> THEN k ELSE plan.order[k + 1]

\* Whether the record of the hand-out names the GOP of place k.  Of a split that
\* was not known when the workers started it names those that existed when
\* they were taken.
Named(k) == plan.known \/ Handed(k) # None

CarryOf(g) ==
    LET k       == Place(g)
        p       == Given(k - plan.g)
        between == {i \in (k - plan.g + 1)..(k - 1) : Named(i)}
    IN IF \/ ~env.abr \/ plan.owned \/ k < plan.g
          \/ ~Named(k - plan.g)
          \/ ~Opens(g) \/ ~Opens(p) \/ GopStart(p) >= job.n_read
       THEN <<>>
       ELSE <<p, SumFunction([i \in between |-> GopLen(Given(i))])>>

\* The rate control a GOP starts from depends on the hand-out order alone, as
\* the comment on rc_state says: every GOP that is written imported the state
\* of the GOP handed out as many places earlier as there are workers, and the
\* frames between them; nothing, if that one left no state.  Of a pipe whose
\* split was not known in time it never imports another, but it also imports
\* nothing after a GOP that was taken before it was read.
CarryByHandout ==
    \A i \in 1..Emitted : "first" \in DOMAIN out[i] => out[i].carry = CarryOf(out[i].g)

\* encode_threaded returns, whatever fails: no thread is left on a condition
\* variable that nobody will signal again.
AllReturn == <>(pc[Main] = "returned")
=============================================================================
