------------------------------- MODULE BgWorker -------------------------------
(***************************************************************************)
(* The background worker of src/src/common/threadpool.c (struct ntp_bg):   *)
(* one thread that runs one submitted task at a time, and the client that  *)
(* submits, syncs and destroys it.  Every burst runner, trailer, chain     *)
(* driver, B-emit helper and entropy-emit thread of the encoder is one.    *)
(*                                                                         *)
(* One mutex and one condition variable serve both sides.  A critical      *)
(* section is one action; pthread_cond_wait is a step into a wait state    *)
(* that a broadcast, or a spurious wake-up, leaves.  The client keeps the  *)
(* contract of threadpool.h ("at most one task is outstanding: call        *)
(* ntp_bg_sync before the next ntp_bg_submit"), as all call sites do.      *)
(***************************************************************************)
EXTENDS Naturals, TLAPS

CONSTANT MaxTasks      \* how many tasks the client may submit (a bound)

ASSUME MaxTasksAssumption == MaxTasks \in Nat

Tasks == 1 .. MaxTasks

VARIABLES
    have_task,   \* b->have_task: a task is queued or running
    arg,         \* b->fn and b->arg: the task installed last (0 = none yet)
    shutdown,    \* b->shutdown
    wpc,         \* the worker thread: where it is in ntp_bg_main
    cur,         \* the worker's local copy of fn/arg
    cpc,         \* the client thread: which call it is in
    nsub,        \* how many tasks the client has submitted
    owed,        \* the client has submitted and not synced since
    runs         \* runs[t]: how often the body of task t has run to its end

vars == <<have_task, arg, shutdown, wpc, cur, cpc, nsub, owed, runs>>

\* The types, and that the worker never calls through an fn nobody installed.
TypeOK ==
    /\ have_task \in BOOLEAN
    /\ arg \in 0 .. MaxTasks
    /\ shutdown \in BOOLEAN
    /\ wpc \in {"lock", "wait", "run", "ran", "exit"}
    /\ cur \in 0 .. MaxTasks
    /\ wpc = "run" => cur \in Tasks
    /\ cpc \in {"idle", "syncwait", "synclock", "join", "gone"}
    /\ nsub \in 0 .. MaxTasks
    /\ owed \in BOOLEAN
    /\ runs \in [Tasks -> Nat]

\* ntp_bg_create_named: calloc, then the thread starts in ntp_bg_main.
Init ==
    /\ have_task = FALSE
    /\ arg = 0
    /\ shutdown = FALSE
    /\ wpc = "lock"
    /\ cur = 0
    /\ cpc = "idle"
    /\ nsub = 0
    /\ owed = FALSE
    /\ runs = [t \in Tasks |-> 0]

\* pthread_cond_broadcast(&b->cv): whoever waits goes back for the mutex.
Wakened(pc) == IF pc = "wait" THEN "lock" ELSE pc
WakenedClient_Lost(pc) == pc      \* (mutant) the completion does not broadcast
WakenedClient(pc) == IF pc = "syncwait" THEN "synclock" ELSE pc

-----------------------------------------------------------------------------
(* The worker thread: ntp_bg_main.                                          *)

\* (mutant) The return on a shutdown is tested before the queued task.
WorkerTake_ShutdownFirst ==
    /\ wpc = "lock"
    /\ \/ ~have_task /\ ~shutdown /\ wpc' = "wait" /\ UNCHANGED cur
       \/ shutdown /\ wpc' = "exit" /\ UNCHANGED cur
       \/ have_task /\ ~shutdown /\ wpc' = "run" /\ cur' = arg
    /\ UNCHANGED <<have_task, arg, shutdown, cpc, nsub, owed, runs>>

\* Under the mutex: wait while there is neither a task nor a shutdown, return
\* on a shutdown without a task, else copy fn and arg and unlock.
WorkerTake ==
    /\ wpc = "lock"
    /\ \/ ~have_task /\ ~shutdown /\ wpc' = "wait" /\ UNCHANGED cur
       \/ ~have_task /\ shutdown /\ wpc' = "exit" /\ UNCHANGED cur
       \/ have_task /\ wpc' = "run" /\ cur' = arg
    /\ UNCHANGED <<have_task, arg, shutdown, cpc, nsub, owed, runs>>

\* The task body, outside the mutex.
WorkerRun ==
    /\ wpc = "run"
    /\ wpc' = "ran"
    /\ runs' = [runs EXCEPT ![cur] = @ + 1]
    /\ UNCHANGED <<have_task, arg, shutdown, cur, cpc, nsub, owed>>

\* (mutant) have_task survives the run.
WorkerFinish_TaskKept ==
    /\ wpc = "ran"
    /\ wpc' = "lock"
    /\ cpc' = WakenedClient(cpc)
    /\ UNCHANGED <<have_task, arg, shutdown, cur, nsub, owed, runs>>

\* Under the mutex again: clear have_task and wake ntp_bg_sync.
WorkerFinish ==
    /\ wpc = "ran"
    /\ wpc' = "lock"
    /\ have_task' = FALSE
    /\ cpc' = WakenedClient(cpc)
    /\ UNCHANGED <<arg, shutdown, cur, nsub, owed, runs>>

-----------------------------------------------------------------------------
(* The client thread.                                                       *)

\* ntp_bg_submit.
Submit ==
    /\ cpc = "idle" /\ ~owed /\ nsub < MaxTasks
    /\ nsub' = nsub + 1
    /\ arg' = nsub + 1
    /\ have_task' = TRUE
    /\ owed' = TRUE
    /\ wpc' = Wakened(wpc)
    /\ UNCHANGED <<shutdown, cur, cpc, runs>>

\* One pass of the loop of ntp_bg_sync under the mutex.  (The optional spin
\* that precedes the lock reads have_task and changes nothing.)
SyncCheck ==
    /\ \/ cpc = "idle"
       \/ cpc = "synclock"
    /\ \/ have_task /\ cpc' = "syncwait" /\ UNCHANGED owed
       \/ ~have_task /\ cpc' = "idle" /\ owed' = FALSE
    /\ UNCHANGED <<have_task, arg, shutdown, wpc, cur, nsub, runs>>

\* ntp_bg_destroy, up to the pthread_join.  A close without a final flush
\* destroys workers it has not synced, so owed may be TRUE here.
Destroy ==
    /\ cpc = "idle"
    /\ cpc' = "join"
    /\ shutdown' = TRUE
    /\ wpc' = Wakened(wpc)
    /\ UNCHANGED <<have_task, arg, cur, nsub, owed, runs>>

\* pthread_join returns.
Join ==
    /\ cpc = "join" /\ wpc = "exit"
    /\ cpc' = "gone"
    /\ UNCHANGED <<have_task, arg, shutdown, wpc, cur, nsub, owed, runs>>

\* pthread_cond_wait may return without a signal.
SpuriousWake ==
    /\ \/ wpc = "wait" /\ wpc' = "lock" /\ UNCHANGED cpc
       \/ cpc = "syncwait" /\ cpc' = "synclock" /\ UNCHANGED wpc
    /\ UNCHANGED <<have_task, arg, shutdown, cur, nsub, owed, runs>>

Gone == cpc = "gone" /\ UNCHANGED vars

Next ==
    \/ WorkerTake \/ WorkerRun \/ WorkerFinish
    \/ Submit \/ SyncCheck \/ Destroy \/ Join \/ SpuriousWake
    \/ Gone

Spec == Init /\ [][Next]_vars

\* Both threads are scheduled, so a runnable step is taken; the client need
\* not ever submit, sync or destroy.
FairSpec ==
    /\ Spec
    /\ WF_vars(WorkerTake) /\ WF_vars(WorkerRun) /\ WF_vars(WorkerFinish)
    /\ WF_vars(cpc = "synclock" /\ SyncCheck) /\ WF_vars(Join)

-----------------------------------------------------------------------------
(* Properties.                                                              *)

\* What the pipeline relies on at ntp_bg_sync: once the client has synced (or
\* joined the thread), every task it ever submitted has run exactly once.
SyncSeesOutput ==
    (cpc = "idle" /\ ~owed) \/ cpc = "gone" =>
        \A t \in 1 .. nsub : runs[t] = 1

\* "Submitted tasks run in order, exactly once" (tests/test_threadpool.c): no
\* body runs twice, none runs before it is submitted or before an earlier one.
RunsOnceInOrder ==
    \A t \in Tasks :
        /\ runs[t] <= 1
        /\ runs[t] = 1 => t <= nsub /\ \A s \in 1 .. t : runs[s] = 1

\* A sync that waits returns, and so does a destroy: no wake-up is lost and the
\* worker does not stay asleep over a task or a shutdown.
CallsReturn ==
    /\ cpc = "syncwait" ~> cpc = "idle"
    /\ cpc = "join" ~> cpc = "gone"

-----------------------------------------------------------------------------
(* Safety for every number of tasks.                                        *)
(*                                                                          *)
(* Neither RunsOnceInOrder nor SyncSeesOutput is inductive: they say what   *)
(* the client may rely on, not what have_task means to the worker.  The     *)
(* invariant IInv adds that meaning: the slot holds the task submitted      *)
(* last, it is taken exactly while the client owes a sync, and the worker   *)
(* is only in or after the body while it holds it.                          *)

\* The task slot: what have_task says about arg, cur and the client.
SlotMeaning ==
    /\ arg = nsub
    /\ have_task => owed /\ nsub \in Tasks
    /\ wpc \in {"run", "ran"} => have_task /\ cur = nsub

\* How often each body has run, as a function of the control state.
RunsMeaning ==
    \A t \in Tasks :
        runs[t] = IF t < nsub \/ (t = nsub /\ (~have_task \/ wpc = "ran")) THEN 1 ELSE 0

\* The shutdown handshake: only a client that has left submits no more.
ShutdownMeaning ==
    /\ shutdown <=> cpc \in {"join", "gone"}
    /\ wpc = "exit" => shutdown /\ ~have_task
    /\ cpc = "gone" => wpc = "exit"

\* Nobody sleeps over work: the worker waits only without a task and without a
\* shutdown, the client only for a task that has not finished.
AsleepForAReason ==
    /\ wpc = "wait" => ~have_task /\ ~shutdown
    /\ cpc = "syncwait" => have_task

IInv == TypeOK /\ SlotMeaning /\ RunsMeaning /\ ShutdownMeaning /\ AsleepForAReason

\* The invariant holds of a worker that was just created.
LEMMA InitIInv == Init => IInv
<1> SUFFICES ASSUME Init PROVE IInv
  OBVIOUS
<1>1. TypeOK
  <2>1. runs \in [Tasks -> Nat]
    BY DEF Init
  <2>2. 0 \in 0 .. MaxTasks
    BY MaxTasksAssumption
  <2> QED
    BY <2>1, <2>2 DEF Init, TypeOK
<1>2. SlotMeaning
  BY DEF Init, SlotMeaning
<1>3. ShutdownMeaning
  BY DEF Init, ShutdownMeaning
<1>4. RunsMeaning
  BY MaxTasksAssumption DEF Init, RunsMeaning, Tasks
<1>5. AsleepForAReason
  BY DEF Init, AsleepForAReason
<1> QED
  BY <1>1, <1>2, <1>3, <1>4, <1>5 DEF IInv

\* Every step of the worker and of its client preserves it.
LEMMA NextIInv == IInv /\ [Next]_vars => IInv'
<1> SUFFICES ASSUME IInv, [Next]_vars PROVE IInv'
  OBVIOUS
<1> USE MaxTasksAssumption
    DEF IInv, TypeOK, SlotMeaning, RunsMeaning, ShutdownMeaning, AsleepForAReason, Tasks
<1>1. CASE WorkerTake
  BY <1>1 DEF WorkerTake
<1>2. CASE WorkerRun
  <2>1. cur \in Tasks /\ cur = nsub /\ have_task
    BY <1>2 DEF WorkerRun
  <2>2. TypeOK'
    BY <1>2, <2>1 DEF WorkerRun
  <2>3. RunsMeaning'
    BY <1>2, <2>1 DEF WorkerRun
  <2> QED
    BY <1>2, <2>1, <2>2, <2>3 DEF WorkerRun
<1>3. CASE WorkerFinish
  BY <1>3 DEF WorkerFinish, WakenedClient
<1>4. CASE Submit
  <2>1. ~have_task /\ nsub + 1 \in Tasks /\ wpc # "exit"
    BY <1>4 DEF Submit
  <2>2. TypeOK'
    BY <1>4, <2>1 DEF Submit, Wakened
  <2>3. RunsMeaning'
    BY <1>4, <2>1 DEF Submit, Wakened
  <2> QED
    BY <1>4, <2>1, <2>2, <2>3 DEF Submit, Wakened
<1>5. CASE SyncCheck
  <2>1. CASE have_task
    BY <1>5, <2>1 DEF SyncCheck
  <2>2. CASE ~have_task
    BY <1>5, <2>2 DEF SyncCheck
  <2> QED
    BY <2>1, <2>2
<1>6. CASE Destroy
  BY <1>6 DEF Destroy, Wakened
<1>7. CASE Join
  BY <1>7 DEF Join
<1>8. CASE SpuriousWake
  BY <1>8 DEF SpuriousWake
<1>9. CASE UNCHANGED vars
  BY <1>9 DEF vars
<1> QED
  BY <1>1, <1>2, <1>3, <1>4, <1>5, <1>6, <1>7, <1>8, <1>9 DEF Next, Gone

\* The inductive invariant holds in every reachable state.
LEMMA Invariance == Spec => []IInv
  BY InitIInv, NextIInv, PTL DEF Spec

\* The worker never calls through a task nobody installed, and every variable
\* of struct ntp_bg keeps its type, however many tasks are submitted.
THEOREM TypeCorrect == Spec => []TypeOK
<1>1. IInv => TypeOK
  BY DEF IInv
<1> QED
  BY Invariance, <1>1, PTL

\* ntp_bg_submit / ntp_bg_main: bodies run in the order of submission, none
\* twice, none before it is submitted.
THEOREM InOrder == Spec => []RunsOnceInOrder
<1>1. IInv => RunsOnceInOrder
  BY MaxTasksAssumption
  DEF IInv, TypeOK, SlotMeaning, RunsMeaning, RunsOnceInOrder, Tasks
<1> QED
  BY Invariance, <1>1, PTL

\* ntp_bg_sync and the join of ntp_bg_destroy: when either has returned, every
\* task ever submitted has run exactly once.
THEOREM SyncSafe == Spec => []SyncSeesOutput
<1>1. IInv => SyncSeesOutput
  BY MaxTasksAssumption
  DEF IInv, TypeOK, SlotMeaning, RunsMeaning, ShutdownMeaning, SyncSeesOutput, Tasks
<1> QED
  BY Invariance, <1>1, PTL

\* No wake-up is lost between the two sides of the one condition variable: the
\* safety half of "every ntp_bg_sync returns".
THEOREM NoSleepOverWork == Spec => []AsleepForAReason
<1>1. IInv => AsleepForAReason
  BY DEF IInv
<1> QED
  BY Invariance, <1>1, PTL
=============================================================================
