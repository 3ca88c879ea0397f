------------------------------- MODULE JobSlot -------------------------------
(***************************************************************************)
(* The life of a job slot of src/src/common/threadpool.c: registration,    *)
(* the claims of its units with and without the pool mutex, the completion *)
(* count, the done flag, and the reuse of the slot by the next job while   *)
(* workers of the last one are still on their way out of it.  "Slot reuse  *)
(* requires done, done requires every claimed unit complete, so the only   *)
(* reachable hazard is the claim word itself, and the seq tag closes it."  *)
(*                                                                         *)
(* Registration holds the mutex but the lock-free claimers do not, so its  *)
(* stores are separate steps in program order.  A wavefront job is taken   *)
(* with one column: its row runs in one step once the row above is done    *)
(* (module Wavefront has the cells).  A worker may take a unit of any job  *)
(* that has one (module Pool has the order of preference and the idling).  *)
(***************************************************************************)
EXTENDS Integers, FiniteSets

CONSTANTS
    Slots,          \* the job table, NTP_MAX_JOBS entries
    Workers,        \* the pool's threads
    Submitters,     \* the threads that call ntp_parallel_for or ntp_wavefront
    Shapes,         \* the [kind, nrows] a call may have
    MaxJobs,        \* a bound on the registrations
    FastClaim,      \* ntp_fastclaim_on()
    Free            \* "nobody holds the mutex"

ASSUME JobSlotAssumption ==
    /\ Slots # {} /\ IsFiniteSet(Workers)
    /\ Shapes \subseteq [kind : {"wavefront", "pfor"}, nrows : Nat \ {0}]
    /\ \E x \in Shapes : \A y \in Shapes : y.nrows <= x.nrows
    /\ MaxJobs \in Nat
    /\ FastClaim \in BOOLEAN
    /\ Workers \cap Submitters = {} /\ Free \notin Workers \cup Submitters

Seqs == 1 .. MaxJobs                       \* j->seq starts at 1
NoJob == [kind |-> "pfor", nrows |-> 0]    \* of a slot never used

VARIABLES
    used, done, seq,    \* per slot: j->used, j->done, j->seq
    shape,              \* per slot: j->kind and j->nrows
    next_row,           \* per slot: j->next_row (wavefronts)
    claimw,             \* per slot: j->claimw, the pair [seq, row]
    rows_done,          \* per slot: j->rows_done
    mtx,                \* the holder of p->mtx
    seq_next,           \* p->seq_next
    pc,                 \* per worker: where it is in worker_main
    at,                 \* per worker: the slot j it works on
    unit,               \* per worker: r
    inc,                \* per worker: run_seq = s32, the incarnation it claimed
    mine,               \* per worker: was_pfor, fnrows: its copy of the shape
    word,               \* per worker: w of job_claim_pfor
    spc, sat,           \* per submitter: where it is, its slot
    ran                 \* ran[q]: the units run of the job registered as q, a
                        \* function from unit to how often

slot == <<used, done, seq, shape, next_row, claimw, rows_done>>
worker == <<pc, at, unit, inc, mine, word>>
vars == <<slot, mtx, seq_next, worker, spc, sat, ran>>

MaxUnits == CHOOSE n \in {s.nrows : s \in Shapes} : \A s \in Shapes : s.nrows <= n
Units == 0 .. MaxUnits

Init ==
    /\ used = [s \in Slots |-> FALSE] /\ done = [s \in Slots |-> FALSE]
    /\ seq = [s \in Slots |-> 0]
    /\ shape = [s \in Slots |-> NoJob]
    /\ next_row = [s \in Slots |-> 0]
    /\ claimw = [s \in Slots |-> [seq |-> 0, row |-> 0]]
    /\ rows_done = [s \in Slots |-> 0]
    /\ mtx = Free
    /\ seq_next = 0
    /\ pc = [w \in Workers |-> "idle"]
    /\ at = [w \in Workers |-> CHOOSE s \in Slots : TRUE]
    /\ unit = [w \in Workers |-> 0]
    /\ inc = [w \in Workers |-> 0]
    /\ mine = [w \in Workers |-> NoJob]
    /\ word = [w \in Workers |-> [seq |-> 0, row |-> 0]]
    /\ spc = [s \in Submitters |-> "out"]
    /\ sat = [s \in Submitters |-> CHOOSE x \in Slots : TRUE]
    /\ ran = [q \in Seqs |-> [u \in Units |-> 0]]

Goto(w, l) == pc' = [pc EXCEPT ![w] = l]

-----------------------------------------------------------------------------
(* The submitter.                                                           *)

\* job_register_ex up to next_row, in the first free slot (the slots are
\* alike: any free one).  A full table waits on slot_cv.
Register(p) ==
    \E s \in Slots, x \in Shapes :
        /\ spc[p] = "out" /\ mtx = Free /\ ~used[s] /\ seq_next < MaxJobs
        /\ mtx' = p
        /\ seq_next' = seq_next + 1
        /\ used' = [used EXCEPT ![s] = TRUE]
        /\ done' = [done EXCEPT ![s] = FALSE]
        /\ seq' = [seq EXCEPT ![s] = seq_next + 1]
        /\ shape' = [shape EXCEPT ![s] = x]
        /\ next_row' = [next_row EXCEPT ![s] = 0]
        /\ spc' = [spc EXCEPT ![p] = "claimw"]
        /\ sat' = [sat EXCEPT ![p] = s]
        /\ UNCHANGED <<claimw, rows_done, worker, ran>>

\* The store to claimw.
RegisterClaimw(p) ==
    /\ spc[p] = "claimw"
    /\ claimw' = [claimw EXCEPT ![sat[p]] = [seq |-> seq[sat[p]], row |-> 0]]
    /\ spc' = [spc EXCEPT ![p] = "rows_done"]
    /\ UNCHANGED <<used, done, seq, shape, next_row, rows_done, mtx, seq_next, worker, sat, ran>>

\* The store to rows_done, and unlock.
RegisterRowsDone(p) ==
    /\ spc[p] = "rows_done"
    /\ rows_done' = [rows_done EXCEPT ![sat[p]] = 0]
    /\ mtx' = Free
    /\ spc' = [spc EXCEPT ![p] = "wait"]
    /\ UNCHANGED <<used, done, seq, shape, next_row, claimw, seq_next, worker, sat, ran>>

\* job_wait: the slot is free again, and the call returns.
JobWait(p) ==
    /\ spc[p] = "wait" /\ mtx = Free /\ done[sat[p]]
    /\ used' = [used EXCEPT ![sat[p]] = FALSE]
    /\ spc' = [spc EXCEPT ![p] = "out"]
    /\ UNCHANGED <<done, seq, shape, next_row, claimw, rows_done, mtx, seq_next, worker, sat, ran>>

-----------------------------------------------------------------------------
(* The worker.                                                              *)

\* job_next_ready.  Row r-1 of a one-column wavefront is complete when its
\* cell has run.
Ready(s) ==
    /\ used[s] /\ ~done[s]
    /\ IF shape[s].kind = "pfor"
         THEN claimw[s].row < shape[s].nrows
         ELSE /\ next_row[s] < shape[s].nrows
              /\ next_row[s] > 0 => ran[seq[s]][next_row[s] - 1] > 0

\* Lock the mutex when there is something to claim.
Enter(w) ==
    /\ pc[w] = "idle" /\ mtx = Free /\ \E s \in Slots : Ready(s)
    /\ mtx' = w /\ Goto(w, "top")
    /\ UNCHANGED <<slot, seq_next, at, unit, inc, mine, word, spc, sat, ran>>

\* Nothing to claim: sleep.
Leave(w) ==
    /\ pc[w] = "top" /\ \A s \in Slots : ~Ready(s)
    /\ mtx' = Free /\ Goto(w, "idle")
    /\ UNCHANGED <<slot, seq_next, at, unit, inc, mine, word, spc, sat, ran>>

\* The fresh claim under the mutex: next_row, or the CAS of job_claim_pfor
\* (a unit lost to a lock-free claimer only sends the worker round the loop).
Claim(w) ==
    \E s \in Slots :
        /\ pc[w] = "top" /\ Ready(s)
        /\ at' = [at EXCEPT ![w] = s]
        /\ inc' = [inc EXCEPT ![w] = seq[s]]
        /\ mine' = [mine EXCEPT ![w] = shape[s]]
        /\ IF shape[s].kind = "pfor"
             THEN /\ unit' = [unit EXCEPT ![w] = claimw[s].row]
                  /\ claimw' = [claimw EXCEPT ![s].row = @ + 1]
                  /\ UNCHANGED next_row
             ELSE /\ unit' = [unit EXCEPT ![w] = next_row[s]]
                  /\ next_row' = [next_row EXCEPT ![s] = @ + 1]
                  /\ UNCHANGED claimw
        /\ mtx' = Free /\ Goto(w, "run")
        /\ UNCHANGED <<used, done, seq, shape, rows_done, seq_next, word, spc, sat, ran>>

\* for_fn or the row, with the cached function and context.
Run(w) ==
    /\ pc[w] = "run"
    /\ ran' = [ran EXCEPT ![inc[w]][unit[w]] = @ + 1]
    /\ Goto(w, IF mine[w].kind = "pfor" THEN "count" ELSE "bottom")
    /\ UNCHANGED <<slot, mtx, seq_next, at, unit, inc, mine, word, spc, sat>>

\* The lock-free completion count of a parallel-for unit.
Count(w) ==
    /\ pc[w] = "count"
    /\ rows_done' = [rows_done EXCEPT ![at[w]] = @ + 1]
    /\ Goto(w, IF rows_done[at[w]] + 1 < mine[w].nrows /\ FastClaim THEN "load" ELSE "bottom")
    /\ UNCHANGED <<used, done, seq, shape, next_row, claimw, mtx, seq_next, at, unit, inc,
                   mine, word, spc, sat, ran>>

\* job_claim_pfor without the mutex: load the claim word and look at its tag.
SeqMoved_Unchecked(w, x) == FALSE                        \* (mutant) untagged word
SeqMoved(w, x) == x.seq # inc[w]
LoadWord(w) ==
    /\ pc[w] = "load"
    /\ word' = [word EXCEPT ![w] = claimw[at[w]]]
    /\ Goto(w, IF SeqMoved(w, claimw[at[w]]) THEN "bottom" ELSE "test")
    /\ UNCHANGED <<slot, mtx, seq_next, at, unit, inc, mine, spc, sat, ran>>

\* ... compare the row with the slot's nrows (a plain load of the slot) ...
Exhausted(w) == word[w].row >= shape[at[w]].nrows
TestRow(w) ==
    /\ pc[w] = "test"
    /\ Goto(w, IF Exhausted(w) THEN "bottom" ELSE "cas")
    /\ UNCHANGED <<slot, mtx, seq_next, at, unit, inc, mine, word, spc, sat, ran>>

\* ... and CAS; a lost CAS loads again.
CasWord(w) ==
    /\ pc[w] = "cas"
    /\ IF claimw[at[w]] = word[w]
         THEN /\ claimw' = [claimw EXCEPT ![at[w]].row = @ + 1]
              /\ unit' = [unit EXCEPT ![w] = word[w].row]
              /\ Goto(w, "run")
         ELSE Goto(w, "load") /\ UNCHANGED <<claimw, unit>>
    /\ UNCHANGED <<used, done, seq, shape, next_row, rows_done, mtx, seq_next, at, inc,
                   mine, word, spc, sat, ran>>

\* The bottom of worker_main, under the mutex, branching on the kind of the
\* incarnation claimed; the seq guard keeps it off a slot that moved on.
WasPfor_Now(w) == shape[at[w]].kind = "pfor"       \* (mutant) the slot's kind now
WasPfor(w) == mine[w].kind = "pfor"
SameJob(w) == seq[at[w]] = inc[w]
AllCounted_Early(w) == rows_done[at[w]] + 1 = shape[at[w]].nrows   \* (mutant)
AllCounted(w) == rows_done[at[w]] = shape[at[w]].nrows
Bottom(w) ==
    /\ pc[w] = "bottom" /\ mtx = Free
    /\ IF WasPfor(w)
         THEN /\ done' = [done EXCEPT ![at[w]] =
                            @ \/ (SameJob(w) /\ AllCounted(w))]
              /\ UNCHANGED rows_done
         ELSE /\ rows_done' = [rows_done EXCEPT ![at[w]] = @ + 1]
              /\ done' = [done EXCEPT ![at[w]] =
                            @ \/ rows_done[at[w]] + 1 = shape[at[w]].nrows]
    /\ mtx' = w /\ Goto(w, "top")
    /\ UNCHANGED <<used, seq, shape, next_row, claimw, seq_next, at, unit, inc, mine, word,
                   spc, sat, ran>>

-----------------------------------------------------------------------------
Submitter(p) == RegisterClaimw(p) \/ RegisterRowsDone(p) \/ JobWait(p)
Worker(w) ==
    \/ Enter(w) \/ Leave(w) \/ Claim(w) \/ Run(w) \/ Count(w)
    \/ LoadWord(w) \/ TestRow(w) \/ CasWord(w) \/ Bottom(w)

\* The registrations are used up, every call has returned and every worker is
\* asleep.
Quiet ==
    /\ seq_next = MaxJobs
    /\ \A p \in Submitters : spc[p] = "out"
    /\ \A w \in Workers : pc[w] = "idle"
    /\ UNCHANGED vars

Next ==
    \/ \E p \in Submitters : Register(p) \/ Submitter(p)
    \/ \E w \in Workers : Worker(w)
    \/ Quiet

Spec == Init /\ [][Next]_vars

\* No slot goes from a parallel-for straight to a job with more units (with the
\* lock-free claim off, any may).
NeverGrows ==
    \A s \in Slots :
        FastClaim /\ seq'[s] # seq[s] /\ seq[s] > 0 /\ shape[s].kind = "pfor" =>
            shape'[s].nrows <= shape[s].nrows

\* Every thread is scheduled; nobody has to submit.
Fair ==
    /\ \A p \in Submitters : WF_vars(Submitter(p))
    /\ \A w \in Workers : WF_vars(Worker(w))
FairSpec == Spec /\ Fair
FitSpec == Init /\ [][Next /\ NeverGrows]_vars /\ Fair

-----------------------------------------------------------------------------
(* Properties.                                                              *)

UnitsOf(s) == 0 .. shape[s].nrows - 1

\* "for_fn(ctx, thread_idx, i) is invoked exactly once per index i" of [0, n):
\* a worker about to run a unit runs one of a live job, one nobody ran.
RunsOwnUnit ==
    \A w \in Workers :
        pc[w] = "run" =>
            /\ unit[w] < mine[w].nrows
            /\ ran[inc[w]][unit[w]] = 0
            /\ \A v \in Workers \ {w} :
                 ~(pc[v] = "run" /\ inc[v] = inc[w] /\ unit[v] = unit[w])

\* The trap's invariant: a slot does not change identity under a worker that
\* has a unit of it to run or to count.
SlotHeld ==
    \A w \in Workers :
        pc[w] \in {"run", "count"} \/ (pc[w] = "bottom" /\ mine[w].kind = "wavefront") =>
            used[at[w]] /\ ~done[at[w]] /\ seq[at[w]] = inc[w]

\* "Blocks until every index is done": done is only set once each unit has run.
\* No phantom count from a worker of the slot's last job completes the next.
DoneIsComplete ==
    \A s \in Slots : done[s] => \A u \in UnitsOf(s) : ran[seq[s]][u] = 1

\* A job is over exactly when its work is: not before each unit has run, nor
\* while a worker still holds one.
HeldUntilComplete == SlotHeld /\ DoneIsComplete

\* Every call returns: the last unit of a job is always counted as such.
CallsReturn == \A p \in Submitters : spc[p] = "wait" ~> spc[p] = "out"
=============================================================================
