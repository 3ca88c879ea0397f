--------------------------------- MODULE Pool ---------------------------------
(***************************************************************************)
(* The worker pool of src/src/common/threadpool.c with several jobs at     *)
(* once: the job table, what an idle worker picks, the idle stack and who  *)
(* wakes whom (registration, kick, start of a row, parked-row hint,        *)
(* cascade), parking and resuming rows, external row gates, and the batch  *)
(* registration that must not block while it holds jobs.                   *)
(*                                                                         *)
(* A critical section of the pool mutex is one action.  What the source    *)
(* does without the mutex stays separate: the look at the row above, the   *)
(* progress store, the look at the waiters, the look at the idlers and     *)
(* hints, and a parallel-for's count and claim.  The fences between these  *)
(* are the subject of module Wavefront, the reuse of a slot under a        *)
(* lock-free claimer that of module JobSlot.  Left out: the optional spins *)
(* (each only delays the same lock-and-look) and the row fast path, which  *)
(* is off by default and checked in Wavefront.                             *)
(***************************************************************************)
EXTENDS Integers, Sequences, FiniteSets

CONSTANTS
    Slots,          \* the job table
    Workers,        \* the pool's threads
    Submitters,     \* the threads that submit jobs
    Chunk,          \* jobs a batch registers at a time (16)
    Envs,           \* what a process may start with: its two environment
                    \* switches; the calls plan[s] of each submitter s, a call
                    \* being a sequence of job specs (one for ntp_wavefront or
                    \* ntp_parallel_for, several for ntp_wavefront_batch); and
                    \* the rows its gates open, in order
    NoJob

INT_MAX == 2147483647

\* kind 0 is a wavefront of nrows x ncols, kind 1 a parallel-for of nrows
\* units; parkable: thread_attach || !thread_init; gated: row_ready # NULL.
\* A row is parked on a number of columns, which INT_MAX is not.
JobSpecs == [kind : {0, 1}, nrows : Nat \ {0}, ncols : 1 .. INT_MAX - 1,
             prio : BOOLEAN, parkable : BOOLEAN, gated : BOOLEAN]

\* A submitter is a thread that submits something.
ASSUME PoolAssumption ==
    /\ IsFiniteSet(Workers)
    /\ Chunk \in Nat \ {0}
    /\ \A v \in Envs :
         /\ v.park \in BOOLEAN /\ v.wake1 \in BOOLEAN /\ v.rows \in Nat
         /\ \A s \in Submitters : v.plan[s] \in Seq(Seq(JobSpecs) \ {<< >>}) \ {<< >>}
         /\ \A s \in Submitters : \A i \in DOMAIN v.plan[s] :
              Len(v.plan[s][i]) > 1 =>        \* an ntp_wf_spec_t has neither kind nor gate
                 \A k \in DOMAIN v.plan[s][i] :
                    v.plan[s][i][k].kind = 0 /\ ~v.plan[s][i][k].gated
    /\ NoJob \notin Slots

VARIABLES
    env,            \* park_on() and ntp_wake1_on(), resolved once; plan, rows
    job,            \* job[s]: the slot's registration
    seq_next,       \* p->seq_next
    stack,          \* p->idle_stack
    pub,            \* the gate's source: rows 0 .. pub-1 may be claimed
    kick,           \* the producer has published and not kicked yet
    shutdown,       \* p->shutdown
    pc, at, row, col,   \* per worker: where it is, and j, r and c
    run_seq,        \* per worker: the incarnation of j it claimed or resumed
    held,           \* per worker: w->held, its parked rows
    cur_seq,        \* per worker: w->cur_seq
    spc, call, spec, reg \* per submitter: where it is, the call, the next spec
                    \* of it, and the slots it registered and has not joined

worker == <<pc, at, row, col, run_seq, held, cur_seq>>
sub == <<spc, call, spec, reg>>
vars == <<env, job, seq_next, stack, pub, kick, shutdown, worker, sub>>

Blank == [used |-> FALSE, done |-> FALSE, seq |-> 0, next_row |-> 0, rows_done |-> 0,
          progress |-> << >>, parked_need |-> << >>, parked_owner |-> << >>,
          kind |-> 0, nrows |-> 1, ncols |-> 1, prio |-> FALSE, parkable |-> FALSE,
          gated |-> FALSE]

Init ==
    /\ env \in Envs
    /\ job = [s \in Slots |-> Blank]
    /\ seq_next = 0
    /\ stack = << >>
    /\ pub = 0 /\ kick = FALSE
    /\ shutdown = FALSE
    /\ pc = [w \in Workers |-> "top"]
    /\ at = [w \in Workers |-> NoJob]
    /\ row = [w \in Workers |-> 0] /\ col = [w \in Workers |-> 0]
    /\ run_seq = [w \in Workers |-> 0]
    /\ held = [w \in Workers |-> {}]
    /\ cur_seq = [w \in Workers |-> 0]
    /\ spc = [s \in Submitters |-> "register"]
    /\ call = [s \in Submitters |-> 1] /\ spec = [s \in Submitters |-> 1]
    /\ reg = [s \in Submitters |-> << >>]

-----------------------------------------------------------------------------
(* What the handlers share.                                                 *)

Goto(w, l) == pc' = [pc EXCEPT ![w] = l]

Oldest(S) == CHOOSE s \in S : \A t \in S : job[s].seq <= job[t].seq

StartNeed(s) == IF 2 < job[s].ncols THEN 2 ELSE job[s].ncols     \* job_start_need
Need(s, c) == IF c + 2 < job[s].ncols THEN c + 2 ELSE job[s].ncols
Satisfied(s, r, c) == r > 0 => job[s].progress[r - 1] >= Need(s, c)

GateOpen(s, r) == job[s].gated => r < pub                        \* row_ready

\* job_next_ready, of slot s in the table J.
ReadyIn(J, s) ==
    LET j == J[s] IN
    /\ j.used /\ ~j.done /\ j.next_row < j.nrows
    /\ j.kind = 0 =>
         /\ GateOpen(s, j.next_row)
         /\ j.next_row > 0 => j.progress[j.next_row - 1] >= StartNeed(s)
Ready(s) == ReadyIn(job, s)

\* pick_fresh: not the current job, not a job the worker holds a row of; the
\* oldest latency-critical one, else the one it ran last, else the oldest.
HeldJobs_None(w) == {}                     \* (mutant) held jobs are not skipped
HeldJobs(w) == {h.at : h \in held[w]}
PickFrom(S, w) ==
    LET hi == {s \in S : job[s].prio}
        aff == {s \in S : job[s].seq = cur_seq[w]}
    IN  IF hi # {} THEN Oldest(hi) ELSE IF aff # {} THEN Oldest(aff)
        ELSE IF S # {} THEN Oldest(S) ELSE NoJob
Fresh(w, jcur) == {s \in Slots \ (HeldJobs(w) \cup {jcur}) : Ready(s)}

\* held_resumable: the oldest job's.
Resumable(w) == {h \in held[w] : job[h.at].progress[h.row - 1] >= h.need}

idlers == Cardinality({w \in Workers : pc[w] = "sleep"})
InStack(w) == \E i \in 1 .. Len(stack) : stack[i] = w

\* wake_one, wake_worker, wake_all as what they leave on the stack.
Popped(st) == IF st = << >> THEN st ELSE SubSeq(st, 1, Len(st) - 1)
StackRemove(st, w) ==      \* the last entry fills the hole
    IF \E i \in 1 .. Len(st) : st[i] = w
      THEN LET i == CHOOSE n \in 1 .. Len(st) : st[n] = w
           IN  SubSeq([st EXCEPT ![i] = st[Len(st)]], 1, Len(st) - 1)
      ELSE st

\* The cascade of worker_main: work is left for somebody else (in the table J
\* the claim leaves) and somebody idles.
Cascaded_None(J, st) == st                 \* (mutant) a claim wakes nobody
Cascaded(J, st) == IF idlers > 0 /\ \E s \in Slots : ReadyIn(J, s) THEN Popped(st) ELSE st

-----------------------------------------------------------------------------
(* worker_main under the mutex.                                             *)

\* Resume the oldest parked row that can go on.
Resume(w) ==
    /\ pc[w] = "top" /\ Resumable(w) # {}
    /\ LET s == Oldest({h.at : h \in Resumable(w)})
           h == CHOOSE x \in Resumable(w) : x.at = s
           J == [job EXCEPT ![s].parked_need[h.row] = INT_MAX]
       IN  /\ job' = J
           /\ held' = [held EXCEPT ![w] = @ \ {h}]
           /\ at' = [at EXCEPT ![w] = s]
           /\ row' = [row EXCEPT ![w] = h.row] /\ col' = [col EXCEPT ![w] = h.col]
           /\ run_seq' = [run_seq EXCEPT ![w] = job[s].seq]
           /\ cur_seq' = [cur_seq EXCEPT ![w] = job[s].seq]      \* thread_attach
           /\ stack' = Cascaded(J, stack)
    /\ Goto(w, "run")
    /\ UNCHANGED <<env, seq_next, pub, kick, shutdown, sub>>

\* Claim a row or a unit of the job pick_fresh prefers.
Claim(w) ==
    /\ pc[w] = "top" /\ Resumable(w) = {} /\ Fresh(w, NoJob) # {}
    /\ LET s == PickFrom(Fresh(w, NoJob), w)
           J == [job EXCEPT ![s].next_row = @ + 1]
       IN  /\ job' = J
           /\ at' = [at EXCEPT ![w] = s]
           /\ row' = [row EXCEPT ![w] = job[s].next_row] /\ col' = [col EXCEPT ![w] = 0]
           /\ run_seq' = [run_seq EXCEPT ![w] = job[s].seq]
           /\ cur_seq' = IF job[s].kind = 0                      \* thread_init
                           THEN [cur_seq EXCEPT ![w] = job[s].seq] ELSE cur_seq
           /\ stack' = Cascaded(J, stack)
           /\ Goto(w, IF job[s].kind = 0 THEN "run" ELSE "unit")
    /\ UNCHANGED <<env, seq_next, pub, kick, shutdown, held, sub>>

\* Nothing to do: leave on a shutdown, else sleep on the idle stack.
Idle(w) ==
    /\ pc[w] = "top" /\ Resumable(w) = {} /\ Fresh(w, NoJob) = {}
    /\ at' = [at EXCEPT ![w] = NoJob]
    /\ IF shutdown THEN Goto(w, "exit") /\ UNCHANGED stack
       ELSE Goto(w, "sleep") /\ stack' = Append(stack, w)
    /\ UNCHANGED <<env, job, seq_next, pub, kick, shutdown, row, col, run_seq, held, cur_seq, sub>>

\* Whoever takes a worker off the stack signals it.
Wake(w) ==
    /\ pc[w] = "sleep" /\ (~InStack(w) \/ shutdown)
    /\ Goto(w, "top")
    /\ UNCHANGED <<env, job, seq_next, stack, pub, kick, shutdown, at, row, col, run_seq, held,
                   cur_seq, sub>>

-----------------------------------------------------------------------------
(* run_row_from.                                                            *)

Look(w) ==
    /\ pc[w] = "run"
    /\ Goto(w, IF Satisfied(at[w], row[w], col[w]) THEN "cell" ELSE "stall")
    /\ UNCHANGED <<env, job, seq_next, stack, pub, kick, shutdown, at, row, col, run_seq, held,
                   cur_seq, sub>>

\* Park when something else can be run, or when this worker already holds a
\* parked row: a worker with parked rows never sleeps on a single row.
MayPark(w) == held[w] # {} \/ Fresh(w, at[w]) # {}

\* Under the mutex: satisfied meanwhile, or park, or wait in place.
Stall(w) ==
    /\ pc[w] = "stall"
    /\ LET s == at[w]
           p == job[s].parkable /\ env.park /\ MayPark(w)
       IN  \/ Satisfied(s, row[w], col[w]) /\ Goto(w, "cell") /\ UNCHANGED <<job, held>>
           \/ /\ ~Satisfied(s, row[w], col[w]) /\ p
              /\ held' = [held EXCEPT ![w] = @ \cup
                   {[at |-> s, row |-> row[w], col |-> col[w], need |-> Need(s, col[w])]}]
              /\ job' = [job EXCEPT ![s].parked_owner[row[w]] = w,
                                    ![s].parked_need[row[w]] = Need(s, col[w])]
              /\ Goto(w, "top")
           \/ ~Satisfied(s, row[w], col[w]) /\ ~p /\ Goto(w, "wait") /\ UNCHANGED <<job, held>>
    /\ UNCHANGED <<env, seq_next, stack, pub, kick, shutdown, at, row, col, run_seq, cur_seq, sub>>

\* A broadcast woke it: look again, or wait on.
Rewait(w) ==
    /\ pc[w] = "woken"
    /\ Goto(w, IF Satisfied(at[w], row[w], col[w]) THEN "cell" ELSE "wait")
    /\ UNCHANGED <<env, job, seq_next, stack, pub, kick, shutdown, at, row, col, run_seq, held,
                   cur_seq, sub>>

\* cell_fn returns and the progress of the row is stored.
EndCell(w) ==
    /\ pc[w] = "cell"
    /\ job' = [job EXCEPT ![at[w]].progress[row[w]] = col[w] + 1]
    /\ Goto(w, "notify")
    /\ UNCHANGED <<env, seq_next, stack, pub, kick, shutdown, at, row, col, run_seq, held, cur_seq, sub>>

\* Broadcast the slot of the row below, if its worker waits there.
Notify(w) ==
    /\ pc[w] = "notify"
    /\ pc' = [v \in Workers |->
                IF v = w THEN "poke"
                ELSE IF pc[v] = "wait" /\ at[v] = at[w] /\ row[v] = row[w] + 1 THEN "woken"
                ELSE pc[v]]
    /\ UNCHANGED <<env, job, seq_next, stack, pub, kick, shutdown, at, row, col, run_seq, held,
                   cur_seq, sub>>

NextColumn(w) ==
    IF col[w] + 1 < job[at[w]].ncols
      THEN Goto(w, "run") /\ col' = [col EXCEPT ![w] = @ + 1]
      ELSE Goto(w, "rowend") /\ UNCHANGED col

\* The row below is parked and this cell is what it waits for.
HintDue(w) ==
    /\ row[w] + 1 < job[at[w]].nrows
    /\ job[at[w]].parked_need[row[w] + 1] <= col[w] + 1

\* Without the mutex: is somebody idle, and is a wake due?
Poke(w) ==
    /\ pc[w] = "poke"
    /\ \/ idlers > 0 /\ HintDue(w) /\ Goto(w, "hint") /\ UNCHANGED col
       \/ /\ idlers > 0 /\ ~HintDue(w) /\ col[w] + 1 = StartNeed(at[w])
          /\ Goto(w, "start") /\ UNCHANGED col
       \/ /\ idlers = 0 \/ (~HintDue(w) /\ col[w] + 1 # StartNeed(at[w]))
          /\ NextColumn(w)
    /\ UNCHANGED <<env, job, seq_next, stack, pub, kick, shutdown, at, row, run_seq, held, cur_seq, sub>>

\* Poke the owner of the parked row, once.
HintWake(w) ==
    /\ pc[w] = "hint"
    /\ IF HintDue(w)
         THEN /\ job' = [job EXCEPT ![at[w]].parked_need[row[w] + 1] = INT_MAX]
              /\ stack' = StackRemove(stack, job[at[w]].parked_owner[row[w] + 1])
         ELSE UNCHANGED <<job, stack>>
    /\ NextColumn(w)
    /\ UNCHANGED <<env, seq_next, pub, kick, shutdown, at, row, run_seq, held, cur_seq, sub>>

\* wake_one for the row that became claimable.
StartWake(w) ==
    /\ pc[w] = "start"
    /\ stack' = Popped(stack)
    /\ NextColumn(w)
    /\ UNCHANGED <<env, job, seq_next, pub, kick, shutdown, at, row, run_seq, held, cur_seq, sub>>

\* The bottom of worker_main for a row.
RowEnd(w) ==
    /\ pc[w] = "rowend"
    /\ job' = [job EXCEPT ![at[w]].rows_done = @ + 1,
                          ![at[w]].done = job[at[w]].rows_done + 1 = job[at[w]].nrows]
    /\ at' = [at EXCEPT ![w] = NoJob]
    /\ Goto(w, "top")
    /\ UNCHANGED <<env, seq_next, stack, pub, kick, shutdown, row, col, run_seq, held, cur_seq, sub>>

-----------------------------------------------------------------------------
(* The parallel-for loop.                                                   *)

\* for_fn, and the lock-free count.
Unit(w) ==
    /\ pc[w] = "unit"
    /\ job' = [job EXCEPT ![at[w]].rows_done = @ + 1]
    /\ Goto(w, IF job[at[w]].rows_done + 1 = job[at[w]].nrows THEN "bottom" ELSE "next")
    /\ UNCHANGED <<env, seq_next, stack, pub, kick, shutdown, at, row, col, run_seq, held,
                   cur_seq, sub>>

\* job_claim_pfor.
NextUnit(w) ==
    /\ pc[w] = "next"
    /\ IF job[at[w]].seq = run_seq[w] /\ job[at[w]].next_row < job[at[w]].nrows
         THEN /\ job' = [job EXCEPT ![at[w]].next_row = @ + 1]
              /\ Goto(w, "unit")
         ELSE Goto(w, "bottom") /\ UNCHANGED job
    /\ UNCHANGED <<env, seq_next, stack, pub, kick, shutdown, at, row, col, run_seq, held, cur_seq, sub>>

\* The bottom of worker_main for a parallel-for, off a slot that moved on.
UnitsDone_Claimed(s) == job[s].next_row = job[s].nrows     \* (mutant)
UnitsDone(s) == job[s].rows_done = job[s].nrows
UnitEnd(w) ==
    /\ pc[w] = "bottom"
    /\ LET s == at[w] IN
         job' = IF job[s].seq = run_seq[w] /\ UnitsDone(s)
                  THEN [job EXCEPT ![s].done = TRUE] ELSE job
    /\ at' = [at EXCEPT ![w] = NoJob]
    /\ Goto(w, "top")
    /\ UNCHANGED <<env, seq_next, stack, pub, kick, shutdown, row, col, run_seq, held, cur_seq, sub>>

-----------------------------------------------------------------------------
(* The submitters.                                                          *)

Specs(p) == env.plan[p][call[p]]
FreeSlots == {s \in Slots : ~job[s].used}

Registered(x) ==
    [used |-> TRUE, done |-> FALSE, seq |-> seq_next + 1, next_row |-> 0, rows_done |-> 0,
     progress |-> [r \in 0 .. x.nrows - 1 |-> 0],
     parked_need |-> [r \in 0 .. x.nrows - 1 |-> INT_MAX],
     parked_owner |-> [r \in 0 .. x.nrows - 1 |-> NoJob],
     kind |-> x.kind, nrows |-> x.nrows, ncols |-> x.ncols, prio |-> x.prio,
     parkable |-> x.parkable, gated |-> x.gated]

\* job_register_ex finds a slot.
Register(p) ==
    /\ spc[p] = "register" /\ FreeSlots # {}
    /\ LET s == CHOOSE x \in FreeSlots : TRUE IN
         /\ job' = [job EXCEPT ![s] = Registered(Specs(p)[spec[p]])]
         /\ reg' = [reg EXCEPT ![p] = Append(@, s)]
         /\ seq_next' = seq_next + 1
    /\ stack' = IF env.wake1 THEN Popped(stack) ELSE << >>
    /\ spec' = [spec EXCEPT ![p] = @ + 1]
    /\ spc' = [spc EXCEPT ![p] =
                 IF spec[p] = Len(Specs(p)) \/ Len(reg[p]) + 1 = Chunk THEN "join" ELSE "register"]
    /\ UNCHANGED <<env, pub, kick, shutdown, worker, call>>

\* It finds none: drain what this call holds, or, holding nothing, wait on
\* slot_cv.
MustNotBlock_Never(p) == FALSE             \* (mutant) registration always blocks
MustNotBlock(p) == reg[p] # << >>
TableFull(p) ==
    /\ spc[p] = "register" /\ FreeSlots = {}
    /\ spc' = [spc EXCEPT ![p] = IF MustNotBlock(p) THEN "join" ELSE "slotwait"]
    /\ UNCHANGED <<env, job, seq_next, stack, pub, kick, shutdown, worker, call, spec, reg>>

\* job_wait: release the slot and signal one waiter of slot_cv.
JobWait(p) ==
    /\ spc[p] = "join" /\ job[Head(reg[p])].done
    /\ job' = [job EXCEPT ![Head(reg[p])].used = FALSE]
    /\ reg' = [reg EXCEPT ![p] = Tail(@)]
    /\ LET last == Len(reg[p]) = 1
           more == spec[p] <= Len(Specs(p))
           next == IF ~last THEN "join"
                   ELSE IF more \/ call[p] < Len(env.plan[p]) THEN "register" ELSE "out"
           waiting == {q \in Submitters : spc[q] = "slotwait"}
       IN  /\ IF waiting = {} THEN spc' = [spc EXCEPT ![p] = next]
              ELSE \E q \in waiting : spc' = [spc EXCEPT ![p] = next, ![q] = "register"]
           /\ call' = IF last /\ ~more THEN [call EXCEPT ![p] = @ + 1] ELSE call
           /\ spec' = IF last /\ ~more THEN [spec EXCEPT ![p] = 1] ELSE spec
    /\ UNCHANGED <<env, seq_next, stack, pub, kick, shutdown, worker>>

-----------------------------------------------------------------------------
(* The gate's producer (the staircase trailer), and ntp_pool_destroy.       *)

Publish ==
    /\ pub < env.rows /\ ~kick
    /\ pub' = pub + 1 /\ kick' = TRUE
    /\ UNCHANGED <<env, job, seq_next, stack, shutdown, worker, sub>>

\* ntp_pool_kick: wake_all.
Kick ==
    /\ kick
    /\ kick' = FALSE /\ stack' = << >>
    /\ UNCHANGED <<env, job, seq_next, pub, shutdown, worker, sub>>

Destroy ==
    /\ ~shutdown /\ \A p \in Submitters : spc[p] = "out"
    /\ shutdown' = TRUE /\ stack' = << >>
    /\ UNCHANGED <<env, job, seq_next, pub, kick, worker, sub>>

Joined ==
    /\ shutdown /\ \A w \in Workers : pc[w] = "exit"
    /\ UNCHANGED vars

-----------------------------------------------------------------------------
Worker(w) ==
    \/ Resume(w) \/ Claim(w) \/ Idle(w) \/ Wake(w)
    \/ Look(w) \/ Stall(w) \/ Rewait(w) \/ EndCell(w) \/ Notify(w)
    \/ Poke(w) \/ HintWake(w) \/ StartWake(w) \/ RowEnd(w)
    \/ Unit(w) \/ NextUnit(w) \/ UnitEnd(w)

Submitter(p) == Register(p) \/ TableFull(p) \/ JobWait(p)

Next ==
    \/ \E w \in Workers : Worker(w)
    \/ \E p \in Submitters : Submitter(p)
    \/ Publish \/ Kick \/ Destroy
    \/ Joined

Spec == Init /\ [][Next]_vars

\* Every thread is scheduled; the producer publishes its rows and kicks.
FairSpec ==
    /\ Spec
    /\ \A w \in Workers : WF_vars(Worker(w))
    /\ \A p \in Submitters : WF_vars(Submitter(p))
    /\ WF_vars(Publish) /\ WF_vars(Kick) /\ WF_vars(Destroy)

-----------------------------------------------------------------------------
(* Properties.                                                              *)

Active == {"run", "stall", "wait", "woken", "cell", "notify", "poke", "hint", "start", "rowend"}

\* The rows of job s that worker w is in the middle of.
Owns(w, s) ==
    {h.row : h \in {x \in held[w] : x.at = s}}
        \cup (IF at[w] = s /\ pc[w] \in Active THEN {row[w]} ELSE {})

\* Parking loses no row and doubles none: a claimed row that is not finished
\* is in the hands of exactly one worker.  A parked row is worker-bound: while
\* a worker holds one it takes no other unit of the job, "which would clobber"
\* the row-carried state; and a row runs with the thread-locals of its job.
RowsOwned ==
    /\ \A s \in Slots :
         job[s].used /\ job[s].kind = 0 =>
            /\ \A r \in 0 .. job[s].next_row - 1 :
                 job[s].progress[r] < job[s].ncols =>
                    \E w \in Workers : r \in Owns(w, s)
            /\ \A v, w \in Workers : v # w => Owns(v, s) \cap Owns(w, s) = {}
    /\ \A w \in Workers, s \in Slots : Cardinality(Owns(w, s)) <= 1
    /\ \A w \in Workers : pc[w] \in Active => cur_seq[w] = job[at[w]].seq

\* The incarnation trap: the slot of a row in hand is that of a live job.
SlotLive ==
    \A w \in Workers :
        /\ pc[w] \in Active \cup {"unit"} =>
             job[at[w]].used /\ ~job[at[w]].done /\ job[at[w]].seq = run_seq[w]
        /\ \A h \in held[w] : job[h.at].used /\ ~job[h.at].done

\* No lost hint: when a parked row may go on and its owner sleeps with nobody
\* having popped it, the worker of the row above is on its way to poke it.
ParkedRowPoked ==
    \A w \in Workers :
        pc[w] = "sleep" /\ InStack(w) =>
            \A h \in Resumable(w) :
                \E v \in Workers :
                    /\ at[v] = h.at /\ row[v] = h.row - 1
                    /\ pc[v] \in {"notify", "poke", "hint"}

\* "Runnable work + idle worker => a wakeup is in flight": when a worker sleeps
\* that could claim something, some worker is on its way to scan, or somebody
\* is about to wake one.
WakeInFlight ==
    (\E w \in Workers : pc[w] = "sleep" /\ InStack(w) /\ Fresh(w, NoJob) # {}) =>
        \/ kick
        \/ \E v \in Workers :
             \/ pc[v] \in {"top", "rowend", "next", "bottom", "start"}
             \/ pc[v] = "sleep" /\ ~InStack(v)
             \/ pc[v] \in {"notify", "poke"} /\ col[v] + 1 = StartNeed(at[v])

\* No wake-up is missing: without parking, as the pool ships, none for work that
\* could be claimed; with it, none for the owner of a row that may go on.
WakesInFlight == (~env.park => WakeInFlight) /\ ParkedRowPoked

\* Every call returns and the pool shuts down: no worker waits for a row
\* nobody will run, and no submitter for a slot only it can release.
AllReturn == <>(\A w \in Workers : pc[w] = "exit")
=============================================================================
