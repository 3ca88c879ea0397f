------------------------------ MODULE Wavefront ------------------------------
(***************************************************************************)
(* One ntp_wavefront call on a pool of src/src/common/threadpool.c: the    *)
(* submitter (job_register, job_wait, ntp_pool_destroy) and the workers    *)
(* (worker_main, run_row_from), at the grain of one load, one store or one *)
(* critical section.  This is the protocol the source says a rare lost     *)
(* wake-up "hangs the whole encode" in.                                    *)
(*                                                                         *)
(* With a single job the parking branch of run_row_from never fires        *)
(* (pick_fresh skips the job it is called for), so stalled rows wait in    *)
(* place; module Pool has several jobs and parks.                          *)
(*                                                                         *)
(* Memory: the relaxed or release updates whose order against a later load *)
(* the source protects with a seq_cst fence (the progress store, the wslot *)
(* and idlers increments) go through a one-entry store buffer, buf, that   *)
(* drains at any time; a fence is the guard that it is empty.              *)
(***************************************************************************)
EXTENDS Integers, Sequences, FiniteSets

CONSTANTS
    NRows, NCols,   \* the grid of the job
    Workers,        \* the pool's threads
    NSlots,         \* NTP_CV_SLOTS: rows hash onto this many wake slots
    RowFast,        \* ntp_rowfast_on()
    Free            \* "nobody holds the mutex"

ASSUME WavefrontAssumption ==
    /\ NRows \in Nat \ {0} /\ NCols \in Nat \ {0}
    /\ NSlots \in Nat \ {0}
    /\ RowFast \in BOOLEAN
    /\ IsFiniteSet(Workers)
    /\ Free \notin Workers

Rows == 0 .. NRows - 1
Cols == 0 .. NCols - 1

\* What a store buffer holds: one update of one location, or nothing.
Empty == [var |-> "none", at |-> 0, val |-> 0]
Stores ==
    [var : {"progress"}, at : Rows, val : 1 .. NCols]
        \cup [var : {"wslot"}, at : 0 .. NSlots - 1, val : {1}]
        \cup [var : {"idlers"}, at : {0}, val : {1}]

VARIABLES
    used, done,     \* j->used, j->done
    next_row,       \* j->next_row
    progress,       \* j->progress
    counted,        \* j->counted
    rows_done,      \* j->rows_done
    wslot,          \* p->wslot
    idlers,         \* p->idlers
    stack,          \* p->idle_stack (p->in_stack is membership)
    shutdown,       \* p->shutdown
    mtx,            \* the holder of p->mtx
    pc, row, col,   \* per worker: where it is, and the r and c it works on
    next,           \* per worker: r2 of the row fast path
    buf,            \* per worker: the update its store buffer holds
    spc, srow, scol \* the submitter: where it is, and r and c of its own loop

job == <<used, done, next_row, progress, counted, rows_done>>
idle == <<idlers, stack>>
sub == <<spc, srow, scol>>
vars == <<job, wslot, idle, shutdown, mtx, pc, row, col, next, buf, sub>>

WorkerStates ==
    {"top", "claim", "rescan", "sleep", "run", "stall", "register", "wait",
     "woken", "cell", "fence", "bcast", "poke", "start", "rowend", "cas",
     "count", "rowlock", "exit"}

Init ==
    /\ used = FALSE /\ done = FALSE /\ shutdown = FALSE
    /\ next_row = 0
    /\ progress = [r \in Rows |-> 0]
    /\ counted = [r \in Rows |-> FALSE]
    /\ rows_done = 0
    /\ wslot = [s \in 0 .. NSlots - 1 |-> 0]
    /\ idlers = 0
    /\ stack = << >>
    /\ mtx = Free
    /\ pc = [w \in Workers |-> "top"]
    /\ row = [w \in Workers |-> 0] /\ col = [w \in Workers |-> 0]
    /\ next = [w \in Workers |-> 0]
    /\ buf = [w \in Workers |-> Empty]
    /\ spc = "new" /\ srow = 0 /\ scol = 0

-----------------------------------------------------------------------------
(* Conditions and small steps the handlers share.                           *)

Goto(w, l) == pc' = [pc EXCEPT ![w] = l]

Slot(r) == r % NSlots                                   \* NTP_CV_OF, job 0
StartNeed == IF 2 < NCols THEN 2 ELSE NCols             \* job_start_need

\* The progress of row r-1 that cell (r, c) waits for.
Need_TopOnly(c) == c + 1                                \* (mutant) not top-right
Need(c) == IF c + 2 < NCols THEN c + 2 ELSE NCols
Satisfied(w) == row[w] > 0 => progress[row[w] - 1] >= Need(col[w])

\* job_next_ready: pick_fresh finds the job exactly when this holds.
Ready ==
    /\ used /\ ~done /\ next_row < NRows
    /\ next_row > 0 => progress[next_row - 1] >= StartNeed

\* wake_one on the LIFO stack; what it pops is no longer in_stack.
Popped == IF stack = << >> THEN stack ELSE SubSeq(stack, 1, Len(stack) - 1)
InStack(w) == \E i \in 1 .. Len(stack) : stack[i] = w

\* atomic_thread_fence(seq_cst): the earlier stores of w are visible.
Fence(w) == buf[w] = Empty

Store(w, x) == buf[w] = Empty /\ buf' = [buf EXCEPT ![w] = x]

\* After a cell: the next column, or the end of the row.
NextColumn(w) ==
    IF col[w] + 1 < NCols
      THEN Goto(w, "run") /\ col' = [col EXCEPT ![w] = @ + 1]
      ELSE Goto(w, "rowend") /\ UNCHANGED col

\* Let go of the mutex with w's stores visible (unlock is a release).
Unlock(w) == Fence(w) /\ mtx' = Free

\* The store buffer of w drains.
Drain(w) ==
    /\ buf[w] # Empty
    /\ LET s == buf[w] IN
         /\ progress' = IF s.var = "progress" THEN [progress EXCEPT ![s.at] = s.val] ELSE progress
         /\ wslot' = IF s.var = "wslot" THEN [wslot EXCEPT ![s.at] = @ + 1] ELSE wslot
         /\ idlers' = IF s.var = "idlers" THEN idlers + 1 ELSE idlers
    /\ buf' = [buf EXCEPT ![w] = Empty]
    /\ UNCHANGED <<used, done, next_row, counted, rows_done, stack, shutdown, mtx,
                   pc, row, col, next, sub>>

-----------------------------------------------------------------------------
(* worker_main: the claim scan, all of it under the mutex.                  *)

\* No work: register as an idler (counter and stack) before the last re-scan.
RegisterIdler(w) ==
    /\ Store(w, [var |-> "idlers", at |-> 0, val |-> 1])
    /\ stack' = Append(stack, w)
    /\ Goto(w, "rescan")

\* Top of the loop: pick_fresh.  A worker comes from the bottom of the loop
\* with the mutex, or takes it first.
Scan(w) ==
    /\ pc[w] = "top" /\ mtx \in {w, Free}
    /\ \/ Ready /\ Goto(w, "claim") /\ mtx' = w /\ UNCHANGED <<stack, buf>>
       \/ ~Ready /\ shutdown /\ Goto(w, "exit") /\ Unlock(w) /\ UNCHANGED <<stack, buf>>
       \/ ~Ready /\ ~shutdown /\ RegisterIdler(w) /\ mtx' = w
    /\ UNCHANGED <<job, wslot, idlers, shutdown, row, col, next, sub>>

\* (mutant) No second look after registering as an idler.
Rescan_Skipped(w) ==
    /\ pc[w] = "rescan" /\ Fence(w)
    /\ Goto(w, "sleep") /\ Unlock(w)
    /\ UNCHANGED <<job, wslot, idle, shutdown, row, col, next, buf, sub>>

\* The re-scan behind the fence: withdraw from the stack (stack_remove; w is
\* still on top, it has held the mutex since its push), or sleep.
Rescan(w) ==
    /\ pc[w] = "rescan" /\ Fence(w)
    /\ \/ /\ Ready
          /\ Goto(w, "claim")
          /\ stack' = Popped /\ idlers' = idlers - 1
          /\ UNCHANGED mtx
       \/ ~Ready /\ Goto(w, "sleep") /\ Unlock(w) /\ UNCHANGED idle
    /\ UNCHANGED <<job, wslot, shutdown, row, col, next, buf, sub>>

\* Whoever takes a worker off the stack signals its condition variable.
Wake(w) ==
    /\ pc[w] = "sleep" /\ (~InStack(w) \/ shutdown) /\ mtx = Free
    /\ mtx' = w
    /\ idlers' = idlers - 1
    /\ Goto(w, "top")
    /\ UNCHANGED <<job, wslot, stack, shutdown, row, col, next, buf, sub>>

\* The claim re-validates (a row-fast claimer moves next_row without the
\* mutex) and takes the row by CAS.  The cascade that follows has no row to
\* wake for: row next_row + 1 waits for cells of the row just claimed.
Claim(w) ==
    /\ pc[w] = "claim"
    /\ \/ /\ Ready
          /\ row' = [row EXCEPT ![w] = next_row]
          /\ col' = [col EXCEPT ![w] = 0]
          /\ next_row' = next_row + 1
          /\ Goto(w, "run") /\ Unlock(w)
       \/ ~Ready /\ Goto(w, "top") /\ UNCHANGED <<row, col, next_row, mtx>>
    /\ UNCHANGED <<used, done, progress, counted, rows_done, wslot, idle, shutdown,
                   next, buf, sub>>

-----------------------------------------------------------------------------
(* run_row_from.                                                            *)

\* The lock-free look at the row above.
Look(w) ==
    /\ pc[w] = "run"
    /\ Goto(w, IF Satisfied(w) THEN "cell" ELSE "stall")
    /\ UNCHANGED <<job, wslot, idle, shutdown, mtx, row, col, next, buf, sub>>

\* Under the mutex: satisfied meanwhile, or count in as a waiter of the slot.
Stall(w) ==
    /\ pc[w] = "stall" /\ mtx = Free
    /\ \/ Satisfied(w) /\ Goto(w, "cell") /\ UNCHANGED <<mtx, buf>>
       \/ /\ ~Satisfied(w)
          /\ Goto(w, "register") /\ mtx' = w
          /\ Store(w, [var |-> "wslot", at |-> Slot(row[w]), val |-> 1])
    /\ UNCHANGED <<job, wslot, idle, shutdown, row, col, next, sub>>

\* The wait loop: behind the fence, and again after every wake-up.
WaitLoop(w) ==
    /\ \/ pc[w] = "register" /\ Fence(w)
       \/ pc[w] = "woken" /\ mtx = Free
    /\ \/ /\ Satisfied(w)
          /\ wslot' = [wslot EXCEPT ![Slot(row[w])] = @ - 1]
          /\ Goto(w, "cell")
       \/ ~Satisfied(w) /\ Goto(w, "wait") /\ UNCHANGED wslot
    /\ mtx' = Free
    /\ UNCHANGED <<job, idle, shutdown, row, col, next, buf, sub>>

\* pthread_cond_wait may return on its own.
SpuriousWake(w) ==
    /\ pc[w] = "wait"
    /\ Goto(w, "woken")
    /\ UNCHANGED <<job, wslot, idle, shutdown, mtx, row, col, next, buf, sub>>

\* cell_fn returns and progress[r] is published.
EndCell(w) ==
    /\ pc[w] = "cell"
    /\ Store(w, [var |-> "progress", at |-> row[w], val |-> col[w] + 1])
    /\ Goto(w, "fence")
    /\ UNCHANGED <<job, wslot, idle, shutdown, mtx, row, col, next, sub>>

\* Behind the fence: is anyone parked on the slot of the row below?
LookWaiters(w) ==
    /\ pc[w] = "fence" /\ Fence(w)
    /\ Goto(w, IF wslot[Slot(row[w] + 1)] > 0 THEN "bcast" ELSE "poke")
    /\ UNCHANGED <<job, wslot, idle, shutdown, mtx, row, col, next, buf, sub>>

\* (mutant) Broadcast the slot of the row itself.
Broadcast_OwnSlot(w) ==
    /\ pc[w] = "bcast" /\ mtx = Free
    /\ pc' = [v \in Workers |->
                IF v = w THEN "poke"
                ELSE IF pc[v] = "wait" /\ Slot(row[v]) = Slot(row[w]) THEN "woken"
                ELSE pc[v]]
    /\ UNCHANGED <<job, wslot, idle, shutdown, mtx, row, col, next, buf, sub>>

\* Broadcast that slot, under the mutex.
Broadcast(w) ==
    /\ pc[w] = "bcast" /\ mtx = Free
    /\ pc' = [v \in Workers |->
                IF v = w THEN "poke"
                ELSE IF pc[v] = "wait" /\ Slot(row[v]) = Slot(row[w] + 1) THEN "woken"
                ELSE pc[v]]
    /\ UNCHANGED <<job, wslot, idle, shutdown, mtx, row, col, next, buf, sub>>

\* Somebody is idle and the row below became claimable?
LookIdlers(w) ==
    /\ pc[w] = "poke"
    /\ IF idlers > 0 /\ col[w] + 1 = StartNeed
         THEN Goto(w, "start") /\ UNCHANGED col
         ELSE NextColumn(w)
    /\ UNCHANGED <<job, wslot, idle, shutdown, mtx, row, next, buf, sub>>

\* wake_one, under the mutex.
StartWake(w) ==
    /\ pc[w] = "start" /\ mtx = Free
    /\ stack' = Popped
    /\ NextColumn(w)
    /\ UNCHANGED <<job, wslot, idlers, shutdown, mtx, row, next, buf, sub>>

-----------------------------------------------------------------------------
(* The end of a row: the lock-free row fast path (E3), or the locked count. *)

RowEnd(w) ==
    /\ pc[w] = "rowend"
    /\ IF RowFast /\ idlers = 0 /\ next_row < NRows /\ progress[next_row - 1] >= StartNeed
         THEN Goto(w, "cas") /\ next' = [next EXCEPT ![w] = next_row]
         ELSE Goto(w, "rowlock") /\ UNCHANGED next
    /\ UNCHANGED <<job, wslot, idle, shutdown, mtx, row, col, buf, sub>>

\* (mutant) next_row is stored, not compared and swapped.
FastClaim_Plain(w) ==
    /\ pc[w] = "cas"
    /\ next_row' = next[w] + 1 /\ Goto(w, "count")
    /\ UNCHANGED <<used, done, progress, counted, rows_done, wslot, idle, shutdown, mtx,
                   row, col, next, buf, sub>>

\* Claim r2 before row r is counted.
FastClaim(w) ==
    /\ pc[w] = "cas"
    /\ IF next_row = next[w]
         THEN next_row' = next_row + 1 /\ Goto(w, "count")
         ELSE UNCHANGED next_row /\ Goto(w, "rowlock")
    /\ UNCHANGED <<used, done, progress, counted, rows_done, wslot, idle, shutdown, mtx,
                   row, col, next, buf, sub>>

FastCount(w) ==
    /\ pc[w] = "count"
    /\ counted' = [counted EXCEPT ![row[w]] = TRUE]
    /\ rows_done' = rows_done + 1
    /\ row' = [row EXCEPT ![w] = next[w]]
    /\ col' = [col EXCEPT ![w] = 0]
    /\ Goto(w, "run")
    /\ UNCHANGED <<used, done, next_row, progress, wslot, idle, shutdown, mtx, next, buf, sub>>

\* The bottom of worker_main: count, and finish the job with its last row.
\* The loop goes back to its top with the mutex held.
CountRow(w) ==
    /\ pc[w] = "rowlock" /\ mtx = Free
    /\ mtx' = w
    /\ counted' = [counted EXCEPT ![row[w]] = TRUE]
    /\ rows_done' = rows_done + 1
    /\ done' = (done \/ rows_done + 1 = NRows)
    /\ Goto(w, "top")
    /\ UNCHANGED <<used, next_row, progress, wslot, idle, shutdown, row, col, next, buf, sub>>

-----------------------------------------------------------------------------
(* The submitting thread.                                                   *)

UNCHANGED_Workers == UNCHANGED <<wslot, idlers, pc, row, col, next, buf>>

\* job_register_ex: a fresh slot, and one worker woken.
Register ==
    /\ spc = "new" /\ mtx = Free
    /\ used' = TRUE /\ stack' = Popped
    /\ spc' = "wait"
    /\ UNCHANGED <<done, next_row, progress, counted, rows_done, shutdown, mtx, srow, scol>>
    /\ UNCHANGED_Workers

\* job_register_ex out of memory for the progress arrays: ntp_wavefront_gated
\* then runs the grid itself, in raster order.
RegisterFails ==
    /\ spc = "new" /\ mtx = Free
    /\ spc' = "serial"
    /\ UNCHANGED <<job, stack, shutdown, mtx, srow, scol>>
    /\ UNCHANGED_Workers

SerialCell ==
    /\ \/ spc = "serial" /\ srow < NRows /\ spc' = "scell" /\ UNCHANGED <<srow, scol>>
       \/ spc = "serial" /\ srow = NRows /\ spc' = "joined" /\ UNCHANGED <<srow, scol>>
       \/ /\ spc = "scell"
          /\ spc' = "serial"
          /\ IF scol + 1 < NCols
               THEN scol' = scol + 1 /\ UNCHANGED srow
               ELSE scol' = 0 /\ srow' = srow + 1
    /\ UNCHANGED <<job, stack, shutdown, mtx>>
    /\ UNCHANGED_Workers

\* job_wait: done is set, the slot is released and the call returns.
JobWait ==
    /\ spc = "wait" /\ done /\ mtx = Free
    /\ used' = FALSE
    /\ spc' = "joined"
    /\ UNCHANGED <<done, next_row, progress, counted, rows_done, stack, shutdown, mtx, srow, scol>>
    /\ UNCHANGED_Workers

\* ntp_pool_destroy: wake everybody, then join every thread.
Shutdown ==
    /\ spc = "joined" /\ mtx = Free
    /\ shutdown' = TRUE /\ stack' = << >>
    /\ spc' = "closing"
    /\ UNCHANGED <<job, mtx, srow, scol>>
    /\ UNCHANGED_Workers

Closed ==
    /\ spc = "closing" /\ \A w \in Workers : pc[w] = "exit"
    /\ spc' = "closed"
    /\ UNCHANGED <<job, stack, shutdown, mtx, srow, scol>>
    /\ UNCHANGED_Workers

Gone == spc = "closed" /\ UNCHANGED vars

-----------------------------------------------------------------------------
Worker(w) ==
    \/ Scan(w) \/ Rescan(w) \/ Wake(w) \/ Claim(w)
    \/ Look(w) \/ Stall(w) \/ WaitLoop(w)
    \/ EndCell(w) \/ LookWaiters(w) \/ Broadcast(w) \/ LookIdlers(w) \/ StartWake(w)
    \/ RowEnd(w) \/ FastClaim(w) \/ FastCount(w) \/ CountRow(w)

Submitter == RegisterFails \/ Register \/ SerialCell \/ JobWait \/ Shutdown \/ Closed

Next ==
    \/ \E w \in Workers : Worker(w) \/ Drain(w) \/ SpuriousWake(w)
    \/ Submitter
    \/ Gone

Spec == Init /\ [][Next]_vars

\* Every thread is scheduled and every store becomes visible; a spurious
\* wake-up never has to happen.
FairSpec ==
    /\ Spec
    /\ \A w \in Workers : WF_vars(Worker(w)) /\ WF_vars(Drain(w))
    /\ WF_vars(Submitter)

-----------------------------------------------------------------------------
(* Properties.                                                              *)

\* The cells of row r whose cell_fn has returned: the published ones and the
\* one whose progress store is still on its way.
Finished(r) ==
    IF \E w \in Workers : buf[w].var = "progress" /\ buf[w].at = r
      THEN progress[r] + 1 ELSE progress[r]

CellState(r, c) ==
    IF c < Finished(r) \/ srow > r \/ (srow = r /\ scol > c) THEN "done"
    ELSE IF \/ \E w \in Workers : pc[w] = "cell" /\ row[w] = r /\ col[w] = c
            \/ spc = "scell" /\ srow = r /\ scol = c
         THEN "running"
    ELSE "todo"

Promise == INSTANCE WavefrontAbs WITH
    cell <- [r \in Rows |-> [c \in Cols |-> CellState(r, c)]],
    returned <- spc \in {"joined", "closing", "closed"}

\* The pool keeps the promise of threadpool.h: exactly once per cell, after
\* the left and top-right neighbours, and the call returns when all are done.
Implements == Promise!AbsSpec

\* "A rare lost wakeup that hangs the whole encode": a worker asleep on a row
\* that may go on has a producer that is about to broadcast its slot.
NoLostWakeup ==
    \A w \in Workers :
        pc[w] = "wait" /\ Satisfied(w) =>
            \E v \in Workers :
                /\ pc[v] \in {"fence", "bcast"}
                /\ Slot(row[v] + 1) = Slot(row[w])

\* A worker that will look for a claimable row again, or that will wake one
\* that does: it just published the cell that made the next row claimable.
Coming(v) ==
    \/ pc[v] \in {"top", "claim", "rescan", "cas", "rowlock"}
    \/ pc[v] = "sleep" /\ ~InStack(v)
    \/ /\ pc[v] \in {"fence", "bcast", "poke", "start"}
       /\ row[v] = next_row - 1 /\ col[v] + 1 = StartNeed

\* "runnable work + idle worker => a wakeup is in flight": while a row can be
\* claimed and a worker sleeps on the idle stack, somebody is coming for it.
WakeInFlight == Ready /\ stack # << >> => \E v \in Workers : Coming(v)

\* When done is set, every row has been counted, once, and no worker is left
\* in the job, so its slot and its context may be released.
DoneMeansQuiet ==
    /\ done => /\ \A r \in Rows : counted[r] /\ progress[r] = NCols
               /\ \A w \in Workers :
                    pc[w] \in {"top", "claim", "rescan", "sleep", "exit"}
    /\ \A w \in Workers :
        pc[w] \in {"rowend", "cas", "count", "rowlock"} => ~counted[row[w]]

\* The call returns and the pool shuts down: no worker waits for ever.
Terminates == <>(spc = "closed")
=============================================================================
