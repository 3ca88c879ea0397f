---------------------------- MODULE WavefrontProofs ----------------------------
(***************************************************************************)
(* Two inductive invariants of the worker pool, for every grid, every      *)
(* number of workers and of wake slots, and with the row fast path on or   *)
(* off.  IInv ties rows, progress and the count together: a job that is    *)
(* done has nobody left in it.  WInv ties the two lock-free counters to    *)
(* the workers they count: no wake-up is lost.  The refinement of          *)
(* WavefrontAbs comes last and rests on the first.                         *)
(***************************************************************************)
EXTENDS Wavefront, FiniteSetTheorems, SequenceTheorems, TLAPS

\* Where a worker has a row in hand, sorted by what it has published of it.
Before == {"run", "stall", "register", "wait", "woken", "cell"}
Published == {"bcast", "poke", "start"}
RowDone == {"rowend", "cas", "count", "rowlock"}
Holding == Before \cup {"fence"} \cup Published \cup RowDone

CoreType ==
    /\ used \in BOOLEAN /\ done \in BOOLEAN
    /\ next_row \in 0 .. NRows
    /\ progress \in [Rows -> 0 .. NCols]
    /\ counted \in [Rows -> BOOLEAN]
    /\ rows_done \in Nat
    /\ pc \in [Workers -> WorkerStates]
    /\ row \in [Workers -> Rows] /\ col \in [Workers -> Cols]
    /\ next \in [Workers -> Rows]
    /\ buf \in [Workers -> Stores \cup {Empty}]
    /\ spc \in {"new", "wait", "serial", "scell", "joined", "closing", "closed"}
    /\ srow \in 0 .. NRows /\ scol \in Cols

\* A claimed row has one worker; the row a fast-path claim took in advance is
\* nobody else's either.
Ownership ==
    /\ \A w \in Workers : pc[w] \in Holding => row[w] < next_row /\ ~counted[row[w]]
    /\ \A v, w \in Workers :
         v # w /\ pc[v] \in Holding /\ pc[w] \in Holding => row[v] # row[w]
    /\ \A v \in Workers : pc[v] = "count" =>
         /\ next[v] < next_row /\ ~counted[next[v]] /\ progress[next[v]] = 0
         /\ \A w \in Workers : pc[w] \in Holding => next[v] # row[w]
         /\ \A w \in Workers : w # v /\ pc[w] = "count" => next[v] # next[w]

\* What a row's progress says of the worker that has it in hand.
Publication ==
    \A w \in Workers :
        /\ pc[w] \in Before => progress[row[w]] = col[w]
        /\ pc[w] = "fence" =>
             \/ /\ buf[w] = [var |-> "progress", at |-> row[w], val |-> col[w] + 1]
                /\ progress[row[w]] = col[w]
             \/ buf[w] = Empty /\ progress[row[w]] = col[w] + 1
        /\ pc[w] \in Published => progress[row[w]] = col[w] + 1
        /\ pc[w] \in RowDone => progress[row[w]] = NCols
        /\ buf[w].var = "progress" => pc[w] = "fence"

\* What a row's progress says of the count.
Counted == {r \in Rows : counted[r]}
Counting ==
    /\ \A r \in Rows : r >= next_row => progress[r] = 0 /\ ~counted[r]
    /\ \A r \in Rows : counted[r] => progress[r] = NCols
    /\ rows_done = Cardinality(Counted)
    /\ done => rows_done = NRows

\* The submitter either runs the grid itself, and then no worker ever has a
\* row, or leaves all of it to the workers.
Calling ==
    /\ spc \in {"new", "serial", "scell"} => ~used /\ next_row = 0
    /\ spc \in {"new", "wait"} => srow = 0 /\ scol = 0
    /\ spc = "scell" => srow < NRows
    /\ spc \in {"joined", "closing", "closed"} =>
         /\ ~used
         /\ (srow = NRows /\ next_row = 0) \/ (srow = 0 /\ scol = 0 /\ done)

IInv == CoreType /\ Ownership /\ Publication /\ Counting /\ Calling

-----------------------------------------------------------------------------
\* The set of counted rows is finite, and it is all of them when its
\* cardinality is that of the grid.
LEMMA CountedFinite ==
    /\ IsFiniteSet(Rows) /\ Cardinality(Rows) = NRows
    /\ IsFiniteSet(Counted) /\ Cardinality(Counted) \in Nat
    /\ Cardinality(Counted) = NRows => Counted = Rows
<1>1. IsFiniteSet(Rows) /\ Cardinality(Rows) = NRows
  <2>1. NRows - 1 \in Int /\ 0 \in Int /\ NRows - 1 - 0 + 1 = NRows
    BY WavefrontAssumption
  <2> QED
    BY <2>1, FS_Interval, WavefrontAssumption DEF Rows
<1>2. Counted \subseteq Rows
  BY DEF Counted
<1>3. IsFiniteSet(Counted) /\ Cardinality(Counted) \in Nat
  BY <1>1, <1>2, FS_Subset, FS_CardinalityType
<1>4. Cardinality(Counted) = NRows => Counted = Rows
  BY <1>1, <1>2, FS_Subset
<1> QED
  BY <1>1, <1>3, <1>4

\* Initially nobody has a row and nothing is counted.
LEMMA InitIInv == Init => IInv
<1> SUFFICES ASSUME Init PROVE IInv
  OBVIOUS
<1>1. CoreType
  <2>1. 0 \in 0 .. NRows /\ 0 \in 0 .. NCols /\ 0 \in Rows /\ 0 \in Cols
    BY WavefrontAssumption DEF Rows, Cols
  <2> QED
    BY <2>1 DEF Init, CoreType, WorkerStates
<1>2. Ownership
  BY DEF Init, Ownership, Holding, Before, Published, RowDone
<1>3. Publication
  BY DEF Init, Publication, Empty, Before, Published, RowDone
<1>4. Counting
  <2>1. Counted = {}
    BY DEF Init, Counted
  <2> QED
    BY <2>1, FS_EmptySet DEF Init, Counting
<1>5. Calling
  BY DEF Init, Calling
<1> QED
  BY <1>1, <1>2, <1>3, <1>4, <1>5 DEF IInv

-----------------------------------------------------------------------------
\* What the cells and the count do not touch, an action that leaves them alone
\* preserves.
LEMMA SameJob ==
  ASSUME IInv, UNCHANGED <<job, sub>>
  PROVE  Counting' /\ Calling'
  BY DEF IInv, Counting, Counted, Calling, job, sub

\* A worker that moves on with the row it has, or lets go of it, disturbs
\* nobody else's.
LEMMA SameRow ==
  ASSUME IInv, NEW w \in Workers, NEW l \in WorkerStates \ {"count"},
         pc' = [pc EXCEPT ![w] = l], l \in Holding => pc[w] \in Holding,
         UNCHANGED <<next_row, counted, progress, row>>,
         \A v \in Workers : pc'[v] = "count" => next'[v] = next[v]
  PROVE  Ownership'
<1> USE DEF IInv, CoreType
<1>1. /\ pc'[w] = l
      /\ \A v \in Workers : v # w => pc'[v] = pc[v]
  OBVIOUS
<1>2. \A v \in Workers : pc'[v] \in Holding => pc[v] \in Holding
  BY <1>1
<1>3. \A v \in Workers : pc'[v] = "count" => pc[v] = "count" /\ next'[v] = next[v]
  BY <1>1
<1> QED
  BY <1>2, <1>3 DEF Ownership

\* The updates that go through the store buffer.
IdlersStore == [var |-> "idlers", at |-> 0, val |-> 1]
WslotStore(r) == [var |-> "wslot", at |-> Slot(r), val |-> 1]
ProgressStore(r, n) == [var |-> "progress", at |-> r, val |-> n]

\* They are entries a store buffer may hold.
LEMMA StoreTypes ==
    /\ IdlersStore \in Stores
    /\ \A r \in Rows : WslotStore(r) \in Stores
    /\ \A r \in Rows, n \in 1 .. NCols : ProgressStore(r, n) \in Stores
<1>1. \A r \in Rows : Slot(r) \in 0 .. NSlots - 1
  BY WavefrontAssumption DEF Slot, Rows
<1> QED
  BY <1>1 DEF Stores, IdlersStore, WslotStore, ProgressStore

\* The next column of a row whose cell is published, or the end of that row.
LEMMA AfterColumn ==
  ASSUME IInv, NEW w \in Workers, pc[w] \in Published, NextColumn(w)
  PROVE  /\ col' \in [Workers -> Cols] /\ \A v \in Workers : v # w => col'[v] = col[v]
         /\ \/ pc' = [pc EXCEPT ![w] = "run"] /\ progress[row[w]] = col'[w]
            \/ pc' = [pc EXCEPT ![w] = "rowend"] /\ progress[row[w]] = NCols
  BY WavefrontAssumption
  DEF IInv, CoreType, Publication, NextColumn, Goto, Cols, Published, Holding

\* A step of a worker that changes only where it is.
LEMMA MoveOn ==
  ASSUME IInv, NEW w \in Workers,
         Scan(w) \/ Rescan(w) \/ Wake(w) \/ Look(w) \/ Stall(w) \/ WaitLoop(w)
           \/ LookWaiters(w) \/ LookIdlers(w) \/ StartWake(w) \/ RowEnd(w)
           \/ SpuriousWake(w)
  PROVE  IInv'
<1> USE DEF Goto, WorkerStates, Holding, Before, Published, RowDone
<1>1. CASE Scan(w)
  <2>1. Counting' /\ Calling'
    BY <1>1, SameJob DEF Scan, job, sub
  <2>2. CoreType'
    BY <1>1, StoreTypes, ZenonT(60)
    DEF IInv, CoreType, job, sub, Scan, RegisterIdler, Store, Unlock, Fence, IdlersStore
  <2>3. Ownership'
    BY <1>1, SameRow DEF IInv, CoreType, job, sub, Scan, RegisterIdler, Store, Unlock, Fence
  <2>4. Publication'
    <3>1. \/ buf' = buf /\ pc'[w] \in {"claim", "exit"}
          \/ buf' = [buf EXCEPT ![w] = IdlersStore] /\ pc'[w] = "rescan"
      BY <1>1 DEF IInv, CoreType, Scan, RegisterIdler, Store, Unlock, Fence, IdlersStore
    <3>2. \A v \in Workers : v # w => pc'[v] = pc[v] /\ buf'[v] = buf[v]
      BY <1>1, <3>1 DEF IInv, CoreType, Scan, RegisterIdler
    <3>3. buf'[w].var # "progress"
      BY <1>1, <3>1 DEF IInv, CoreType, Publication, Scan, IdlersStore
    <3> QED
      BY <1>1, <3>1, <3>2, <3>3 DEF IInv, CoreType, Publication, job, Scan
  <2> QED
    BY <2>1, <2>2, <2>3, <2>4 DEF IInv
<1>2. CASE Rescan(w)
  <2>1. Counting' /\ Calling'
    BY <1>2, SameJob DEF Rescan, job, sub
  <2>2. CoreType'
    BY <1>2 DEF IInv, CoreType, Stores, Empty, job, sub, Rescan, Unlock, Fence
  <2>3. Ownership'
    BY <1>2, SameRow DEF IInv, CoreType, job, sub, Rescan, Unlock, Fence
  <2>4. Publication'
    BY <1>2 DEF IInv, CoreType, Publication, Stores, Empty, job, sub, Rescan, Unlock, Fence
  <2> QED
    BY <2>1, <2>2, <2>3, <2>4 DEF IInv
<1>3. CASE Wake(w)
  <2>1. Counting' /\ Calling'
    BY <1>3, SameJob DEF Wake, job, sub
  <2>2. CoreType'
    BY <1>3 DEF IInv, CoreType, Stores, Empty, job, sub, Wake
  <2>3. Ownership'
    BY <1>3, SameRow DEF IInv, CoreType, job, sub, Wake
  <2>4. Publication'
    BY <1>3 DEF IInv, CoreType, Publication, Stores, Empty, job, sub, Wake
  <2> QED
    BY <2>1, <2>2, <2>3, <2>4 DEF IInv
<1>4. CASE Look(w)
  <2>1. Counting' /\ Calling'
    BY <1>4, SameJob DEF Look, job, sub
  <2>2. CoreType'
    BY <1>4 DEF IInv, CoreType, Stores, Empty, job, sub, Look
  <2>3. Ownership'
    BY <1>4, SameRow DEF IInv, CoreType, job, sub, Look
  <2>4. Publication'
    BY <1>4 DEF IInv, CoreType, Publication, Stores, Empty, job, sub, Look
  <2> QED
    BY <2>1, <2>2, <2>3, <2>4 DEF IInv
<1>5. CASE Stall(w)
  <2>1. Counting' /\ Calling'
    BY <1>5, SameJob DEF Stall, job, sub
  <2>2. CoreType'
    BY <1>5, StoreTypes DEF IInv, CoreType, job, sub, Stall, Store, Satisfied, WslotStore
  <2>3. Ownership'
    BY <1>5, SameRow DEF IInv, CoreType, job, sub, Stall, Store, Satisfied
  <2>4. Publication'
    BY <1>5 DEF IInv, CoreType, Publication, Stores, Empty, job, sub, Stall, Store, Satisfied
  <2> QED
    BY <2>1, <2>2, <2>3, <2>4 DEF IInv
<1>6. CASE WaitLoop(w)
  <2>1. Counting' /\ Calling'
    BY <1>6, SameJob DEF WaitLoop, job, sub
  <2>2. CoreType'
    BY <1>6 DEF IInv, CoreType, Stores, Empty, job, sub, WaitLoop, Fence, Satisfied
  <2>3. Ownership'
    BY <1>6, SameRow DEF IInv, CoreType, job, sub, WaitLoop, Fence, Satisfied
  <2>4. Publication'
    BY <1>6 DEF IInv, CoreType, Publication, Stores, Empty, job, sub, WaitLoop, Fence, Satisfied
  <2> QED
    BY <2>1, <2>2, <2>3, <2>4 DEF IInv
<1>7. CASE LookWaiters(w)
  <2>1. Counting' /\ Calling'
    BY <1>7, SameJob DEF LookWaiters, job, sub
  <2>2. CoreType'
    BY <1>7 DEF IInv, CoreType, Stores, Empty, job, sub, LookWaiters, Fence
  <2>3. Ownership'
    BY <1>7, SameRow DEF IInv, CoreType, job, sub, LookWaiters, Fence
  <2>4. Publication'
    BY <1>7 DEF IInv, CoreType, Publication, Stores, Empty, job, sub, LookWaiters, Fence
  <2> QED
    BY <2>1, <2>2, <2>3, <2>4 DEF IInv
<1>8. CASE LookIdlers(w)
  <2>1. Counting' /\ Calling'
    BY <1>8, SameJob DEF LookIdlers, job, sub
  <2>2. CoreType'
    BY <1>8, AfterColumn DEF IInv, CoreType, job, sub, LookIdlers, NextColumn
  <2>3. Ownership'
    BY <1>8, SameRow DEF IInv, CoreType, job, sub, LookIdlers, NextColumn
  <2>4. Publication'
    BY <1>8, AfterColumn DEF IInv, CoreType, Publication, job, sub, LookIdlers
  <2> QED
    BY <2>1, <2>2, <2>3, <2>4 DEF IInv
<1>9. CASE StartWake(w)
  <2>1. Counting' /\ Calling'
    BY <1>9, SameJob DEF StartWake, job, sub
  <2>2. CoreType'
    BY <1>9, AfterColumn DEF IInv, CoreType, job, sub, StartWake, NextColumn
  <2>3. Ownership'
    BY <1>9, SameRow DEF IInv, CoreType, job, sub, StartWake, NextColumn
  <2>4. Publication'
    BY <1>9, AfterColumn DEF IInv, CoreType, Publication, job, sub, StartWake
  <2> QED
    BY <2>1, <2>2, <2>3, <2>4 DEF IInv
<1>10. CASE RowEnd(w)
  <2>1. Counting' /\ Calling'
    BY <1>10, SameJob DEF RowEnd, job, sub
  <2>2. CoreType'
    <3>1. next_row < NRows => next_row \in Rows
      BY WavefrontAssumption DEF IInv, CoreType, Rows
    <3> QED
      BY <1>10, <3>1 DEF IInv, CoreType, job, sub, RowEnd
  <2>3. Ownership'
    BY <1>10, SameRow DEF IInv, CoreType, job, sub, RowEnd
  <2>4. Publication'
    BY <1>10 DEF IInv, CoreType, Publication, Stores, Empty, job, sub, RowEnd
  <2> QED
    BY <2>1, <2>2, <2>3, <2>4 DEF IInv
<1>11. CASE SpuriousWake(w)
  <2>1. Counting' /\ Calling'
    BY <1>11, SameJob DEF SpuriousWake, job, sub
  <2>2. CoreType'
    BY <1>11 DEF IInv, CoreType, Stores, Empty, job, sub, SpuriousWake
  <2>3. Ownership'
    BY <1>11, SameRow DEF IInv, CoreType, job, sub, SpuriousWake
  <2>4. Publication'
    BY <1>11 DEF IInv, CoreType, Publication, Stores, Empty, job, sub, SpuriousWake
  <2> QED
    BY <2>1, <2>2, <2>3, <2>4 DEF IInv
<1> QED
  BY <1>1, <1>2, <1>3, <1>4, <1>5, <1>6, <1>7, <1>8, <1>9, <1>10, <1>11

\* The steps that change the job: a claim, a cell's end and its publication,
\* the count of a row.
LEMMA ClaimInv == ASSUME IInv, NEW w \in Workers, Claim(w) PROVE IInv'
<1> USE DEF Goto, WorkerStates, Holding, Before, Published, RowDone
<1>1. CASE Ready
  <2>1. /\ next_row \in Rows /\ 0 \in Cols /\ progress[next_row] = 0
        /\ ~counted[next_row] /\ used /\ next_row + 1 \in 0 .. NRows
    BY <1>1, WavefrontAssumption DEF IInv, CoreType, Counting, Ready, Rows, Cols
  <2>2. CoreType'
    BY <1>1, <2>1 DEF IInv, CoreType, Claim, sub
  <2>3. Ownership'
    <3>1. /\ pc'[w] = "run" /\ row'[w] = next_row /\ next_row' = next_row + 1
          /\ \A v \in Workers : v # w => pc'[v] = pc[v] /\ row'[v] = row[v]
          /\ UNCHANGED <<next, counted, progress>>
      BY <1>1 DEF IInv, CoreType, Claim
    <3>2. /\ \A v \in Workers : pc[v] \in Holding => row[v] < next_row
          /\ \A v \in Workers : pc[v] = "count" => next[v] < next_row
      BY DEF IInv, Ownership
    <3>3. \A i, j \in Int : i < j => i # j /\ i < j + 1
      OBVIOUS
    <3>4. /\ next_row \in Int /\ next_row < next_row + 1
          /\ \A v \in Workers : row[v] \in Int /\ next[v] \in Int
      BY DEF IInv, CoreType, Rows
    <3> QED
      BY <2>1, <3>1, <3>2, <3>3, <3>4 DEF IInv, Ownership
  <2>4. Publication'
    BY <1>1, <2>1 DEF IInv, CoreType, Publication, Claim
  <2>5. Counting' /\ Calling'
    BY <1>1, <2>1 DEF IInv, CoreType, Counting, Counted, Calling, Claim, Rows, sub
  <2> QED
    BY <2>2, <2>3, <2>4, <2>5 DEF IInv
<1>2. CASE ~Ready
  <2>1. Counting' /\ Calling'
    BY <1>2, SameJob DEF Claim, job, sub
  <2>2. CoreType' /\ Publication'
    BY <1>2 DEF IInv, CoreType, Publication, Claim, sub
  <2>3. Ownership'
    BY <1>2, SameRow DEF IInv, CoreType, Claim
  <2> QED
    BY <2>1, <2>2, <2>3 DEF IInv
<1> QED
  BY <1>1, <1>2

\* A progress store enters the store buffer.
LEMMA EndCellInv == ASSUME IInv, NEW w \in Workers, EndCell(w) PROVE IInv'
<1> USE DEF Goto, WorkerStates, Holding, Before, Published, RowDone
<1>1. Counting' /\ Calling'
  BY SameJob DEF EndCell
<1>2. buf' = [buf EXCEPT ![w] = ProgressStore(row[w], col[w] + 1)]
  BY DEF EndCell, Store, ProgressStore
<1>3. CoreType'
  <2>1. ProgressStore(row[w], col[w] + 1) \in Stores
    BY StoreTypes, WavefrontAssumption DEF IInv, CoreType, Cols
  <2> QED
    BY <1>2, <2>1 DEF IInv, CoreType, EndCell, job, sub
<1>4. Ownership'
  BY SameRow DEF IInv, CoreType, EndCell, job
<1>5. Publication'
  BY <1>2 DEF IInv, CoreType, Publication, EndCell, job, ProgressStore
<1> QED
  BY <1>1, <1>3, <1>4, <1>5 DEF IInv

\* ... and becomes visible.
LEMMA DrainInv == ASSUME IInv, NEW w \in Workers, Drain(w) PROVE IInv'
<1> USE DEF Goto, WorkerStates, Holding, Before, Published, RowDone
<1>1. buf' = [buf EXCEPT ![w] = Empty]
  BY DEF Drain
<1>2. CASE buf[w].var = "progress"
  <2>1. /\ pc[w] = "fence" /\ progress' = [progress EXCEPT ![row[w]] = col[w] + 1]
        /\ row[w] < next_row /\ ~counted[row[w]] /\ col[w] + 1 \in 0 .. NCols
        /\ row[w] \in Rows
    <3>1. pc[w] = "fence" /\ buf[w] = ProgressStore(row[w], col[w] + 1)
      BY <1>2 DEF IInv, Publication, ProgressStore, Empty
    <3>2. progress' = [progress EXCEPT ![row[w]] = col[w] + 1]
      BY <3>1 DEF Drain, ProgressStore
    <3>3. col[w] + 1 \in 0 .. NCols /\ row[w] \in Rows
      BY WavefrontAssumption DEF IInv, CoreType, Cols
    <3> QED
      BY <3>1, <3>2, <3>3 DEF IInv, Ownership
  <2>2. CoreType'
    <3>1. progress' \in [Rows -> 0 .. NCols] /\ buf' \in [Workers -> Stores \cup {Empty}]
      BY <1>1, <2>1 DEF IInv, CoreType
    <3> QED
      BY <3>1 DEF IInv, CoreType, Drain, sub
  <2>3. Ownership'
    BY <2>1 DEF IInv, CoreType, Ownership, Drain
  <2>4. Publication'
    BY <1>1, <2>1 DEF IInv, CoreType, Ownership, Publication, Drain, Empty
  <2>5. Counting' /\ Calling'
    BY <2>1, SMTT(60) DEF IInv, CoreType, Counting, Counted, Calling, Drain, Rows, sub
  <2> QED
    BY <2>2, <2>3, <2>4, <2>5 DEF IInv
<1>3. CASE buf[w].var # "progress"
  <2>1. progress' = progress
    BY <1>3 DEF Drain
  <2>2. Counting' /\ Calling'
    BY <2>1, SameJob DEF Drain, job, sub
  <2>3. CoreType' /\ Ownership'
    BY <1>1, <2>1, ZenonT(60) DEF IInv, CoreType, Ownership, Drain, sub
  <2>4. Publication'
    BY <1>1, <1>3, <2>1 DEF IInv, CoreType, Publication, Drain, Empty
  <2> QED
    BY <2>2, <2>3, <2>4 DEF IInv
<1> QED
  BY <1>2, <1>3

\* A broadcast moves waiters, not rows.
LEMMA BroadcastInv == ASSUME IInv, NEW w \in Workers, Broadcast(w) PROVE IInv'
<1> USE DEF WorkerStates, Holding, Before, Published, RowDone
<1>1. Counting' /\ Calling'
  BY SameJob DEF Broadcast
<1>2. \A v \in Workers :
        \/ pc'[v] = pc[v] \/ (pc[v] = "wait" /\ pc'[v] = "woken")
        \/ (pc[v] = "bcast" /\ pc'[v] = "poke")
  BY DEF Broadcast
<1>3. CoreType'
  BY DEF IInv, CoreType, Broadcast, job, sub
<1>4. Ownership' /\ Publication'
  BY <1>2 DEF IInv, Ownership, Publication, Broadcast, job
<1> QED
  BY <1>1, <1>3, <1>4 DEF IInv

\* A row-fast claim takes next_row by compare-and-swap.
LEMMA FastClaimInv == ASSUME IInv, NEW w \in Workers, FastClaim(w) PROVE IInv'
<1> USE DEF Goto, WorkerStates, Holding, Before, Published, RowDone
<1>1. CASE next_row = next[w]
  <2>1. /\ next_row \in Rows /\ next_row + 1 \in 0 .. NRows
        /\ progress[next_row] = 0 /\ ~counted[next_row] /\ pc[w] = "cas"
        /\ next_row' = next_row + 1 /\ pc' = [pc EXCEPT ![w] = "count"]
    BY <1>1, WavefrontAssumption DEF IInv, CoreType, Counting, FastClaim, Rows
  <2>2. CoreType' /\ Publication'
    BY <2>1 DEF IInv, CoreType, Publication, FastClaim, sub
  <2>3. Ownership'
    <3>1. /\ \A v \in Workers : pc[v] \in Holding => row[v] < next_row
          /\ \A v \in Workers : pc[v] = "count" => next[v] < next_row
      BY DEF IInv, Ownership
    <3>2. \A i, j \in Int : i < j => i # j /\ i < j + 1
      OBVIOUS
    <3>3. /\ next_row \in Int /\ next_row < next_row + 1
          /\ \A v \in Workers : row[v] \in Int /\ next[v] \in Int
      BY DEF IInv, CoreType, Rows
    <3>4. UNCHANGED <<row, next, counted, progress>>
      BY DEF FastClaim
    <3>5. \A v \in Workers : v # w => pc'[v] = pc[v]
      BY <2>1
    <3>6. pc'[w] = "count"
      BY <2>1 DEF IInv, CoreType
    <3> QED
      BY <1>1, <2>1, <3>1, <3>2, <3>3, <3>4, <3>5, <3>6 DEF IInv, Ownership
  <2>4. Counting' /\ Calling'
    BY <2>1 DEF IInv, CoreType, Ownership, Counting, Counted, Calling, FastClaim, Rows, sub
  <2> QED
    BY <2>2, <2>3, <2>4 DEF IInv
<1>2. CASE next_row # next[w]
  <2>1. Counting' /\ Calling'
    BY <1>2, SameJob DEF FastClaim, job
  <2>2. CoreType' /\ Publication'
    BY <1>2 DEF IInv, CoreType, Publication, FastClaim, sub
  <2>3. Ownership'
    BY <1>2, SameRow DEF IInv, CoreType, FastClaim
  <2> QED
    BY <2>1, <2>2, <2>3 DEF IInv
<1> QED
  BY <1>1, <1>2

\* Counting a row that was not counted adds one to the count.
LEMMA CountOne ==
  ASSUME IInv, NEW r \in Rows, ~counted[r], counted' = [counted EXCEPT ![r] = TRUE]
  PROVE  /\ Cardinality(Counted') = Cardinality(Counted) + 1
         /\ Cardinality(Counted) + 1 \in Nat
         /\ Cardinality(Counted) # NRows
<1>1. Counted' = Counted \cup {r}
  BY DEF IInv, CoreType, Counted
<1>2. r \notin Counted
  BY DEF Counted
<1>3. IsFiniteSet(Counted) /\ Cardinality(Counted) \in Nat /\ Cardinality(Counted) # NRows
  BY <1>2, CountedFinite
<1>4. Cardinality(Counted \cup {r}) = Cardinality(Counted) + 1
  BY <1>2, <1>3, FS_AddElement
<1> QED
  BY <1>1, <1>3, <1>4

\* The lock-free count of a row the fast path leaves for the next.
LEMMA FastCountInv == ASSUME IInv, NEW w \in Workers, FastCount(w) PROVE IInv'
<1> USE DEF Goto, WorkerStates, Holding, Before, Published, RowDone
<1>1. /\ pc[w] = "count" /\ row[w] \in Rows /\ next[w] \in Rows /\ ~counted[row[w]]
      /\ progress[row[w]] = NCols /\ next[w] # row[w] /\ progress[next[w]] = 0
      /\ next[w] < next_row /\ row[w] < next_row /\ ~counted[next[w]]
      /\ 0 \in Cols
  BY WavefrontAssumption DEF IInv, CoreType, Ownership, Publication, FastCount, Cols
<1>2. Counted' = Counted \cup {row[w]} /\ rows_done' = rows_done + 1
      /\ Cardinality(Counted') = Cardinality(Counted) + 1
      /\ Cardinality(Counted) + 1 \in Nat /\ Cardinality(Counted) # NRows
  BY <1>1, CountOne DEF IInv, CoreType, Counted, FastCount
<1>3. CoreType'
  BY <1>1, <1>2 DEF IInv, CoreType, Counting, FastCount, sub
<1>4. Ownership'
  BY <1>1 DEF IInv, CoreType, Ownership, FastCount
<1>5. Publication'
  BY <1>1 DEF IInv, CoreType, Publication, FastCount
<1>6. Counting' /\ Calling'
  <2>1. \A r \in Rows : r >= next_row' => progress'[r] = 0 /\ ~counted'[r]
    BY <1>1 DEF IInv, CoreType, Counting, FastCount, Rows
  <2>2. \A r \in Rows : counted'[r] => progress'[r] = NCols
    BY <1>1 DEF IInv, CoreType, Counting, FastCount
  <2>3. rows_done' = Cardinality(Counted') /\ ~done'
    BY <1>2 DEF IInv, Counting, FastCount
  <2>4. Calling'
    BY <1>1, <2>3 DEF IInv, Calling, FastCount, sub
  <2> QED
    BY <2>1, <2>2, <2>3, <2>4 DEF Counting
<1> QED
  BY <1>3, <1>4, <1>5, <1>6 DEF IInv

\* The locked count, which sets done with the last row.
LEMMA CountRowInv == ASSUME IInv, NEW w \in Workers, CountRow(w) PROVE IInv'
<1> USE DEF Goto, WorkerStates, Holding, Before, Published, RowDone
<1>1. /\ pc[w] = "rowlock" /\ row[w] \in Rows /\ ~counted[row[w]]
      /\ progress[row[w]] = NCols /\ row[w] < next_row
  BY DEF IInv, CoreType, Ownership, Publication, CountRow
<1>2. Counted' = Counted \cup {row[w]} /\ rows_done' = rows_done + 1
      /\ Cardinality(Counted') = Cardinality(Counted) + 1
      /\ Cardinality(Counted) + 1 \in Nat /\ Cardinality(Counted) # NRows
  BY <1>1, CountOne DEF IInv, CoreType, Counted, CountRow
<1>3. CoreType'
  BY <1>1, <1>2 DEF IInv, CoreType, Counting, CountRow, sub
<1>4. Ownership'
  BY <1>1 DEF IInv, CoreType, Ownership, CountRow
<1>5. Publication'
  BY <1>1 DEF IInv, CoreType, Publication, CountRow
<1>6. Counting' /\ Calling'
  <2>1. \A r \in Rows : r >= next_row' => progress'[r] = 0 /\ ~counted'[r]
    BY <1>1 DEF IInv, CoreType, Counting, CountRow, Rows
  <2>2. \A r \in Rows : counted'[r] => progress'[r] = NCols
    BY <1>1 DEF IInv, CoreType, Counting, CountRow
  <2>3. rows_done' = Cardinality(Counted') /\ (done' => rows_done' = NRows)
    BY <1>2 DEF IInv, Counting, CountRow
  <2>4. Calling'
    BY <1>1, <1>2 DEF IInv, Calling, Counting, CountRow, sub
  <2> QED
    BY <2>1, <2>2, <2>3, <2>4 DEF Counting
<1> QED
  BY <1>3, <1>4, <1>5, <1>6 DEF IInv

\* The submitter, which runs cells itself only when nobody else does.
LEMMA SubmitterInv == ASSUME IInv, Submitter PROVE IInv'
<1> USE DEF UNCHANGED_Workers
<1>1. UNCHANGED <<next_row, progress, counted, rows_done, done, pc, row, col, next, buf>>
  BY DEF Submitter, RegisterFails, Register, SerialCell, JobWait, Shutdown, Closed, job
<1>2. CoreType'
  <2>1. /\ used' \in BOOLEAN
        /\ spc' \in {"new", "wait", "serial", "scell", "joined", "closing", "closed"}
        /\ srow' \in 0 .. NRows /\ scol' \in Cols
    <3>1. CASE SerialCell
      BY <3>1, WavefrontAssumption DEF IInv, CoreType, Calling, SerialCell, job, Cols
    <3>2. CASE ~SerialCell
      BY <3>2 DEF IInv, CoreType, Submitter, RegisterFails, Register, JobWait, Shutdown,
         Closed, job
    <3> QED
      BY <3>1, <3>2
  <2> QED
    BY <1>1, <2>1 DEF IInv, CoreType
<1>3. Ownership' /\ Publication' /\ Counting'
  BY <1>1 DEF IInv, Ownership, Publication, Counting, Counted
<1>4. Calling'
  BY <1>1 DEF IInv, CoreType, Calling, Submitter, RegisterFails, Register, SerialCell,
     JobWait, Shutdown, Closed, job
<1> QED
  BY <1>2, <1>3, <1>4 DEF IInv

\* Every step of the pool preserves the invariant.
LEMMA NextIInv == IInv /\ [Next]_vars => IInv'
<1> SUFFICES ASSUME IInv, [Next]_vars PROVE IInv'
  OBVIOUS
<1>1. ASSUME NEW w \in Workers, Worker(w) PROVE IInv'
  BY <1>1, MoveOn, ClaimInv, EndCellInv, BroadcastInv, FastClaimInv, FastCountInv, CountRowInv
  DEF Worker
<1>2. ASSUME NEW w \in Workers, Drain(w) \/ SpuriousWake(w) PROVE IInv'
  BY <1>2, DrainInv, MoveOn
<1>3. CASE Submitter
  BY <1>3, SubmitterInv
<1>4. CASE UNCHANGED vars
  BY <1>4 DEF IInv, CoreType, Ownership, Publication, Counting, Counted, Calling, vars, job, sub
<1> QED
  BY <1>1, <1>2, <1>3, <1>4 DEF Next, Gone

\* It holds in every reachable state.
LEMMA Invariance == Spec => []IInv
  BY InitIInv, NextIInv, PTL DEF Spec

\* The job's completion (the bottom of worker_main): done is set when every row
\* has been counted, each once, and nobody is left with a row of the job.
THEOREM QuietWhenDone == Spec => []DoneMeansQuiet
<1>1. IInv => DoneMeansQuiet
  <2> SUFFICES ASSUME IInv PROVE DoneMeansQuiet
    OBVIOUS
  <2>1. done => \A r \in Rows : counted[r] /\ progress[r] = NCols
    BY CountedFinite DEF IInv, Counting, Counted
  <2>2. done => \A w \in Workers : pc[w] \notin Holding
    BY <2>1 DEF IInv, CoreType, Ownership
  <2>3. \A w \in Workers : pc[w] \in RowDone => ~counted[row[w]]
    BY DEF IInv, Ownership, Holding
  <2> QED
    BY <2>1, <2>2, <2>3
    DEF DoneMeansQuiet, IInv, CoreType, WorkerStates, Holding, Before, Published, RowDone
<1> QED
  BY Invariance, <1>1, PTL

-----------------------------------------------------------------------------
(* The wake-ups.  wslot and idlers, the two counters the lock-free looks    *)
(* read, count exactly the workers that are registered with their store     *)
(* drained; a registered worker re-checks behind its fence, so whoever      *)
(* makes its wait pointless later finds the counter above zero.             *)

InMutex == {"rescan", "claim", "register"}
Mutex ==
    /\ mtx \in Workers \cup {Free}
    /\ \A w \in Workers : /\ pc[w] \in InMutex => mtx = w
                          /\ mtx = w => pc[w] \in InMutex \cup {"top"}

\* A registration on its way is that of the worker that made it.
Buffered ==
    \A w \in Workers :
        /\ buf[w].var = "wslot" => pc[w] = "register" /\ buf[w] = WslotStore(row[w])
        /\ buf[w].var = "idlers" => pc[w] = "rescan"

\* The waiters a slot's counter counts, and the idlers.
Waits(w) == pc[w] \in {"wait", "woken"} \/ (pc[w] = "register" /\ buf[w] = Empty)
Parked(s) == {w \in Workers : Waits(w) /\ Slot(row[w]) = s}
Idles(w) == pc[w] = "sleep" \/ (pc[w] = "rescan" /\ buf[w] = Empty)
Idle == {w \in Workers : Idles(w)}
Registered ==
    /\ wslot \in [0 .. NSlots - 1 -> Int]
    /\ \A s \in 0 .. NSlots - 1 : wslot[s] = Cardinality(Parked(s))
    /\ idlers = Cardinality(Idle)

\* The idle stack holds sleepers, each once; the one that is still scanning
\* is on top of it.
Stacked ==
    /\ stack \in Seq(Workers)
    /\ \A i \in 1 .. Len(stack) : pc[stack[i]] \in {"sleep", "rescan"}
    /\ \A i, j \in 1 .. Len(stack) : stack[i] = stack[j] => i = j
    /\ \A w \in Workers : pc[w] = "rescan" => stack # << >> /\ stack[Len(stack)] = w
    /\ shutdown \in BOOLEAN
    /\ shutdown => stack = << >> /\ ~used
    /\ shutdown => spc \in {"closing", "closed"}

WInv == Mutex /\ Buffered /\ Registered /\ Stacked /\ NoLostWakeup /\ WakeInFlight

\* Initially everybody is about to scan.
LEMMA InitWInv == Init => WInv
<1> SUFFICES ASSUME Init PROVE WInv
  OBVIOUS
<1>1. \A w \in Workers : pc[w] = "top" /\ buf[w] = Empty
  BY DEF Init
<1>2. Mutex /\ Buffered /\ NoLostWakeup
  BY <1>1, WavefrontAssumption DEF Init, Mutex, Buffered, NoLostWakeup, InMutex, Empty
<1>3. Registered
  <2>1. Idle = {} /\ \A s \in 0 .. NSlots - 1 : Parked(s) = {}
    BY <1>1 DEF Idle, Idles, Parked, Waits
  <2>2. Cardinality({}) = 0
    BY FS_EmptySet
  <2>3. \A s \in 0 .. NSlots - 1 : wslot[s] = 0
    BY DEF Init
  <2>4. wslot \in [0 .. NSlots - 1 -> Int] /\ idlers = 0
    BY DEF Init
  <2> QED
    BY <2>1, <2>2, <2>3, <2>4 DEF Registered
<1>4. Stacked
  <2>1. stack = << >> /\ stack \in Seq(Workers) /\ Len(stack) = 0
    BY EmptySeq DEF Init
  <2>2. shutdown = FALSE
    BY DEF Init
  <2>3. 1 .. Len(stack) = {}
    BY <2>1
  <2> QED
    BY <1>1, <2>1, <2>2, <2>3 DEF Stacked
<1>5. WakeInFlight
  BY DEF Init, WakeInFlight
<1> QED
  BY <1>2, <1>3, <1>4, <1>5 DEF WInv

\* Counting a subset of the workers: one more, one less, none.
LEMMA CountWorkers ==
  ASSUME NEW S, S \subseteq Workers
  PROVE  /\ IsFiniteSet(S) /\ Cardinality(S) \in Nat
         /\ S # {} => Cardinality(S) > 0
         /\ \A w \in Workers \ S : Cardinality(S \cup {w}) = Cardinality(S) + 1
         /\ \A w \in S : Cardinality(S \ {w}) = Cardinality(S) - 1
<1>1. IsFiniteSet(S)
  BY WavefrontAssumption, FS_Subset
<1>2. Cardinality(S) \in Nat /\ (Cardinality(S) = 0 <=> S = {})
  BY <1>1, FS_CardinalityType, FS_EmptySet
<1>3. \A w \in Workers \ S : Cardinality(S \cup {w}) = Cardinality(S) + 1
  BY <1>1, FS_AddElement
<1>4. \A w \in S : Cardinality(S \ {w}) = Cardinality(S) - 1
  BY <1>1, FS_RemoveElement
<1> QED
  BY <1>1, <1>2, <1>3, <1>4

\* wake_one takes the last worker off the stack and leaves the others.
LEMMA PoppedStack ==
  ASSUME stack \in Seq(Workers), stack # << >>
  PROVE  /\ Len(stack) \in Nat \ {0} /\ stack[Len(stack)] \in Workers
         /\ Popped \in Seq(Workers) /\ Len(Popped) = Len(stack) - 1
         /\ \A i \in 1 .. Len(Popped) : Popped[i] = stack[i]
<1>1. Len(stack) \in Nat \ {0} /\ \A i \in 1 .. Len(stack) : stack[i] \in Workers
  BY EmptySeq, LenProperties
<1>2. Popped = SubSeq(stack, 1, Len(stack) - 1)
  BY DEF Popped
<1>3. /\ SubSeq(stack, 1, Len(stack) - 1) \in Seq(Workers)
      /\ Len(SubSeq(stack, 1, Len(stack) - 1)) = Len(stack) - 1
      /\ \A i \in 1 .. Len(stack) - 1 : SubSeq(stack, 1, Len(stack) - 1)[i] = stack[i]
  <2> DEFINE n == Len(stack) - 1
  <2>1. n \in Nat /\ 1 \in Int /\ n \in Int /\ \A i \in 1 .. n : stack[i] \in Workers
    BY <1>1
  <2> HIDE DEF n
  <2>2. /\ SubSeq(stack, 1, n) \in Seq(Workers)
        /\ Len(SubSeq(stack, 1, n)) = IF 1 <= n THEN n - 1 + 1 ELSE 0
        /\ \A i \in 1 .. n - 1 + 1 : SubSeq(stack, 1, n)[i] = stack[1 + i - 1]
    BY <2>1, SubSeqProperties
  <2>3. Len(SubSeq(stack, 1, n)) = n
    BY <2>1, <2>2
  <2>4. \A i \in 1 .. n : SubSeq(stack, 1, n)[i] = stack[i]
    <3> SUFFICES ASSUME NEW i \in 1 .. n PROVE SubSeq(stack, 1, n)[i] = stack[i]
      OBVIOUS
    <3>1. i \in 1 .. n - 1 + 1 /\ 1 + i - 1 = i
      BY <2>1
    <3> QED
      BY <2>2, <3>1
  <2> QED
    BY <2>2, <2>3, <2>4 DEF n
<1> QED
  BY <1>1, <1>2, <1>3

\* A worker that holds the mutex and is not registering has nothing buffered.
LEMMA OnlyThree ==
  ASSUME IInv, Buffered, NEW w \in Workers, pc[w] \notin {"fence", "register", "rescan"}
  PROVE  buf[w] = Empty
<1>1. buf[w] \in Stores \cup {Empty}
  BY DEF IInv, CoreType
<1>2. buf[w].var \notin {"progress", "wslot", "idlers"}
  BY DEF IInv, Publication, Buffered
<1> QED
  BY <1>1, <1>2 DEF Stores

-----------------------------------------------------------------------------
(* What a step leaves alone.                                                *)

LEMMA SameRegistered ==
  ASSUME Registered, UNCHANGED <<wslot, idlers>>,
         \A v \in Workers : /\ Waits(v)' <=> Waits(v)
                            /\ Waits(v) => row'[v] = row[v]
                            /\ Idles(v)' <=> Idles(v)
  PROVE  Registered'
<1>1. Idle' = Idle /\ \A s \in 0 .. NSlots - 1 : Parked(s)' = Parked(s)
  BY DEF Idle, Parked, Slot
<1> QED
  BY <1>1 DEF Registered

LEMMA SameStacked ==
  ASSUME Stacked, UNCHANGED <<stack, shutdown, spc>>, used' => used,
         \A v \in Workers : /\ pc[v] \in {"sleep", "rescan"} => pc'[v] \in {"sleep", "rescan"}
                            /\ pc'[v] = "rescan" => pc[v] = "rescan"
  PROVE  Stacked'
<1>1. \A i \in 1 .. Len(stack) : stack[i] \in Workers
  BY ElementOfSeq DEF Stacked
<1> QED
  BY <1>1 DEF Stacked

LEMMA SameWaiters ==
  ASSUME NoLostWakeup,
         \A v \in Workers : pc'[v] = "wait" /\ Satisfied(v)' =>
             pc[v] = "wait" /\ Satisfied(v) /\ row'[v] = row[v],
         \A v \in Workers : pc[v] \in {"fence", "bcast"} =>
             pc'[v] \in {"fence", "bcast"} /\ row'[v] = row[v]
  PROVE  NoLostWakeup'
  BY DEF NoLostWakeup, Slot

LEMMA SameComing ==
  ASSUME WakeInFlight, Ready' /\ stack' # << >> => Ready /\ stack # << >>,
         Ready' => \A v \in Workers : Coming(v) => Coming(v)'
  PROVE  WakeInFlight'
  BY DEF WakeInFlight

\* A step of a worker outside the claim scan and its registration.
LEMMA Aside ==
  ASSUME IInv, WInv, NEW w \in Workers, NEW l, pc' = [pc EXCEPT ![w] = l],
         pc[w] \notin {"top", "claim", "rescan", "sleep", "register"},
         l \notin {"top", "claim", "rescan", "sleep", "register"},
         pc[w] \in {"wait", "woken"} <=> l \in {"wait", "woken"},
         UNCHANGED <<used, wslot, idlers, stack, shutdown, mtx, spc>>,
         \A v \in Workers : v # w \/ l \in {"wait", "woken"} => row'[v] = row[v],
         \/ UNCHANGED buf
         \/ \E r \in Rows, n \in 1 .. NCols : buf' = [buf EXCEPT ![w] = ProgressStore(r, n)]
  PROVE  Mutex' /\ Buffered' /\ Registered' /\ Stacked'
<1>1. /\ pc'[w] = l
      /\ \A v \in Workers : v # w => pc'[v] = pc[v] /\ buf'[v] = buf[v] /\ row'[v] = row[v]
  BY DEF IInv, CoreType
<1>2. Mutex'
  BY <1>1 DEF WInv, Mutex, InMutex
<1>3. Buffered'
  <2>1. buf'[w].var = "progress" \/ buf'[w] = buf[w]
    BY DEF IInv, CoreType, ProgressStore
  <2>2. buf'[w].var \notin {"wslot", "idlers"}
    BY <2>1 DEF WInv, Buffered
  <2>3. \A v \in Workers : v # w => WslotStore(row[v])' = WslotStore(row[v])
    BY <1>1 DEF WslotStore, Slot
  <2> QED
    BY <1>1, <2>2, <2>3 DEF WInv, Buffered
<1>4. Registered'
  BY <1>1, SameRegistered DEF WInv, Waits, Idles
<1>5. Stacked'
  BY <1>1, SameStacked DEF WInv
<1> QED
  BY <1>2, <1>3, <1>4, <1>5

\* The row above does not go back, nor a cell's need: what a waiter waits for
\* is there only once its progress store is.
LEMMA SatisfiedSame ==
  ASSUME UNCHANGED progress, NEW v \in Workers, row'[v] = row[v], col'[v] = col[v]
  PROVE  Satisfied(v)' <=> Satisfied(v)
  BY DEF Satisfied, Need

LEMMA ReadySame ==
  ASSUME UNCHANGED <<used, done, next_row, progress>>
  PROVE  Ready' <=> Ready
  BY DEF Ready, StartNeed

LEMMA ComingSame ==
  ASSUME UNCHANGED <<next_row, stack>>, NEW v \in Workers,
         pc'[v] = pc[v], row'[v] = row[v], col'[v] = col[v]
  PROVE  Coming(v)' <=> Coming(v)
  BY DEF Coming, InStack, StartNeed

-----------------------------------------------------------------------------
(* The steps outside the scan.                                              *)

LEMMA LookWInv == ASSUME IInv, WInv, NEW w \in Workers, Look(w) PROVE WInv'
<1> USE DEF IInv, CoreType, Look, Goto, job, idle, sub
<1>1. PICK l \in {"cell", "stall"} : pc' = [pc EXCEPT ![w] = l]
  OBVIOUS
<1>2. Mutex' /\ Buffered' /\ Registered' /\ Stacked'
  BY <1>1, Aside
<1>3. NoLostWakeup'
  BY <1>1, SatisfiedSame, SameWaiters DEF WInv
<1>4. WakeInFlight'
  <2>1. ~Coming(w)
    BY DEF Coming
  <2> QED
    BY <1>1, <2>1, ReadySame, ComingSame, SameComing DEF WInv
<1> QED
  BY <1>2, <1>3, <1>4 DEF WInv

LEMMA SpuriousWInv == ASSUME IInv, WInv, NEW w \in Workers, SpuriousWake(w) PROVE WInv'
<1> USE DEF IInv, CoreType, SpuriousWake, Goto, job, idle, sub
<1>1. pc' = [pc EXCEPT ![w] = "woken"]
  OBVIOUS
<1>2. Mutex' /\ Buffered' /\ Registered' /\ Stacked'
  BY <1>1, Aside
<1>3. NoLostWakeup'
  BY <1>1, SatisfiedSame, SameWaiters DEF WInv
<1>4. WakeInFlight'
  <2>1. ~Coming(w)
    BY DEF Coming
  <2> QED
    BY <1>1, <2>1, ReadySame, ComingSame, SameComing DEF WInv
<1> QED
  BY <1>2, <1>3, <1>4 DEF WInv

LEMMA EndCellWInv == ASSUME IInv, WInv, NEW w \in Workers, EndCell(w) PROVE WInv'
<1> USE DEF IInv, CoreType, EndCell, Goto, job, idle, sub
<1>1. pc' = [pc EXCEPT ![w] = "fence"]
  OBVIOUS
<1>2. Mutex' /\ Buffered' /\ Registered' /\ Stacked'
  <2>1. buf' = [buf EXCEPT ![w] = ProgressStore(row[w], col[w] + 1)]
    BY DEF Store, ProgressStore
  <2>2. row[w] \in Rows /\ col[w] + 1 \in 1 .. NCols
    BY WavefrontAssumption DEF Cols
  <2>3. \E r \in Rows, n \in 1 .. NCols : buf' = [buf EXCEPT ![w] = ProgressStore(r, n)]
    BY <2>1, <2>2
  <2> QED
    BY <1>1, <2>3, Aside
<1>3. NoLostWakeup'
  BY <1>1, SatisfiedSame, SameWaiters DEF WInv
<1>4. WakeInFlight'
  <2>1. ~Coming(w)
    BY DEF Coming
  <2> QED
    BY <1>1, <2>1, ReadySame, ComingSame, SameComing DEF WInv
<1> QED
  BY <1>2, <1>3, <1>4 DEF WInv

\* A waiter on the slot of the row below is counted, so the look finds it; if
\* the cell made the next row claimable and somebody sleeps, idlers says so.
LEMMA LookWaitersWInv == ASSUME IInv, WInv, NEW w \in Workers, LookWaiters(w) PROVE WInv'
<1> USE DEF IInv, CoreType, LookWaiters, Goto, job, idle, sub
<1>1. PICK l \in {"bcast", "poke"} : pc' = [pc EXCEPT ![w] = l]
  OBVIOUS
<1>2. Mutex' /\ Buffered' /\ Registered' /\ Stacked'
  BY <1>1, Aside
<1>3. NoLostWakeup'
  <2>1. CASE wslot[Slot(row[w] + 1)] > 0
    <3>1. l = "bcast"
      BY <1>1, <2>1
    <3> QED
      BY <1>1, <3>1, SatisfiedSame, SameWaiters DEF WInv
  <2>2. CASE ~(wslot[Slot(row[w] + 1)] > 0)
    <3>1. Slot(row[w] + 1) \in 0 .. NSlots - 1
      BY WavefrontAssumption DEF Slot, Rows
    <3>2. Parked(Slot(row[w] + 1)) = {}
      <4>1. Parked(Slot(row[w] + 1)) \subseteq Workers
        BY DEF Parked
      <4>2. ~(Cardinality(Parked(Slot(row[w] + 1))) > 0)
        BY <2>2, <3>1 DEF WInv, Registered
      <4> QED
        BY <4>1, <4>2, CountWorkers
    <3>3. \A v \in Workers : pc[v] = "wait" => Slot(row[w] + 1) # Slot(row[v])
      BY <3>2 DEF Parked, Waits
    <3>4. \A v \in Workers : pc'[v] = "wait" /\ Satisfied(v)' => pc[v] = "wait" /\ Satisfied(v)
      BY <1>1, SatisfiedSame
    <3> QED
      BY <1>1, <3>3, <3>4 DEF WInv, NoLostWakeup
  <2> QED
    BY <2>1, <2>2
<1>4. WakeInFlight'
  <2>1. Coming(w) => Coming(w)'
    BY <1>1 DEF Coming, StartNeed
  <2> QED
    BY <1>1, <2>1, ReadySame, ComingSame, SameComing DEF WInv
<1> QED
  BY <1>2, <1>3, <1>4 DEF WInv

\* The broadcast leaves nobody waiting on that slot.
LEMMA BroadcastWInv == ASSUME IInv, WInv, NEW w \in Workers, Broadcast(w) PROVE WInv'
<1> USE DEF IInv, CoreType, Broadcast, job, idle, sub
<1>1. /\ pc[w] = "bcast" /\ pc'[w] = "poke"
      /\ \A v \in Workers : v # w =>
           \/ pc[v] = "wait" /\ Slot(row[v]) = Slot(row[w] + 1) /\ pc'[v] = "woken"
           \/ ~(pc[v] = "wait" /\ Slot(row[v]) = Slot(row[w] + 1)) /\ pc'[v] = pc[v]
  OBVIOUS
<1>2. Mutex' /\ Buffered'
  BY <1>1 DEF WInv, Mutex, Buffered, InMutex, WslotStore, Slot
<1>3. Registered'
  BY <1>1, SameRegistered DEF WInv, Waits, Idles
<1>4. Stacked'
  BY <1>1, SameStacked DEF WInv
<1>5. NoLostWakeup'
  <2>1. \A v \in Workers : pc'[v] = "wait" /\ Satisfied(v)' =>
          pc[v] = "wait" /\ Satisfied(v) /\ Slot(row[v]) # Slot(row[w] + 1)
    BY <1>1, SatisfiedSame
  <2>2. \A v \in Workers : v # w /\ pc[v] \in {"fence", "bcast"} => pc'[v] = pc[v]
    BY <1>1
  <2> QED
    BY <2>1, <2>2 DEF WInv, NoLostWakeup
<1>6. WakeInFlight'
  <2>1. Coming(w) => Coming(w)'
    BY <1>1 DEF Coming, StartNeed
  <2>2. \A v \in Workers : v # w => (Coming(v) => Coming(v)')
    BY <1>1 DEF Coming, InStack, StartNeed
  <2> QED
    BY <2>1, <2>2, ReadySame, SameComing DEF WInv
<1> QED
  BY <1>2, <1>3, <1>4, <1>5, <1>6 DEF WInv

\* Looking for idlers: with the next row just made claimable and a sleeper on
\* the stack the counter is above zero, so the look goes on to wake one.
LEMMA LookIdlersWInv == ASSUME IInv, WInv, NEW w \in Workers, LookIdlers(w) PROVE WInv'
<1> USE DEF IInv, CoreType, LookIdlers, Goto, job, idle, sub
<1>1. PICK l \in {"start", "run", "rowend"} : pc' = [pc EXCEPT ![w] = l]
  BY DEF NextColumn
<1>2. Mutex' /\ Buffered' /\ Registered' /\ Stacked'
  BY <1>1, Aside
<1>3. \A v \in Workers : v # w => col'[v] = col[v]
  BY DEF NextColumn
<1>4. NoLostWakeup'
  BY <1>1, <1>3, SatisfiedSame, SameWaiters DEF WInv
<1>5. WakeInFlight'
  <2>1. CASE idlers > 0 /\ col[w] + 1 = StartNeed
    <3>1. Coming(w) => Coming(w)'
      BY <1>1, <2>1 DEF Coming, StartNeed
    <3> QED
      BY <1>1, <1>3, <3>1, ReadySame, ComingSame, SameComing DEF WInv
  <2>2. CASE ~(idlers > 0) /\ col[w] + 1 = StartNeed
    <3>1. Idle = {}
      BY <2>2, CountWorkers DEF WInv, Registered, Idle
    <3>2. ASSUME stack # << >> PROVE \E v \in Workers : v # w /\ Coming(v)
      <4>1. stack[Len(stack)] \in Workers /\ Len(stack) \in 1 .. Len(stack)
        BY <3>2, PoppedStack DEF WInv, Stacked
      <4>2. pc[stack[Len(stack)]] \in {"sleep", "rescan"}
        BY <4>1 DEF WInv, Stacked
      <4>3. pc[stack[Len(stack)]] = "rescan"
        BY <3>1, <4>1, <4>2 DEF Idle, Idles
      <4> QED
        BY <4>1, <4>3 DEF Coming
    <3> QED
      BY <1>1, <1>3, <3>2, ComingSame DEF WakeInFlight
  <2>3. CASE col[w] + 1 # StartNeed
    <3>1. ~Coming(w)
      BY <2>3 DEF Coming
    <3> QED
      BY <1>1, <1>3, <3>1, ReadySame, ComingSame, SameComing DEF WInv
  <2> QED
    BY <2>1, <2>2, <2>3
<1> QED
  BY <1>2, <1>4, <1>5 DEF WInv

\* The end of a row: its worker goes on to claim, and scans when it cannot.
LEMMA RowEndWInv ==
  ASSUME IInv, WInv, NEW w \in Workers, RowEnd(w) \/ FastClaim(w) \/ FastCount(w)
  PROVE  WInv'
<1> USE DEF IInv, CoreType, RowEnd, FastClaim, FastCount, Goto, job, idle, sub
<1>1. PICK l \in {"cas", "rowlock", "count", "run"} : pc' = [pc EXCEPT ![w] = l]
  OBVIOUS
<1>2. /\ \A v \in Workers : v # w => row'[v] = row[v] /\ col'[v] = col[v]
      /\ pc[w] \in {"rowend", "cas", "count"} /\ UNCHANGED <<progress, buf>>
      /\ UNCHANGED <<used, wslot, idlers, stack, shutdown, mtx, spc>>
  OBVIOUS
<1>3. Mutex' /\ Buffered' /\ Registered' /\ Stacked'
  BY <1>1, <1>2, Aside, ZenonT(60)
<1>4. NoLostWakeup'
  BY <1>1, <1>2, SatisfiedSame, SameWaiters DEF WInv
<1>5. WakeInFlight'
  <2>1. CASE RowEnd(w) \/ FastCount(w)
    <3>1. ~Coming(w) /\ UNCHANGED <<used, done, next_row, progress>>
      BY <2>1 DEF Coming
    <3> QED
      BY <1>1, <1>2, <3>1, ReadySame, ComingSame, SameComing DEF WInv
  <2>2. CASE FastClaim(w) /\ next_row = next[w]
    <3>1. next_row \in Rows /\ next_row' = next_row + 1 /\ progress'[next_row] = 0
      BY <2>2 DEF Counting, Rows
    <3>2. ~Ready'
      BY <3>1, WavefrontAssumption DEF Ready, StartNeed, Rows
    <3> QED
      BY <3>2 DEF WakeInFlight
  <2>3. CASE FastClaim(w) /\ next_row # next[w]
    <3>1. Coming(w)' /\ UNCHANGED <<used, done, next_row, progress>>
      BY <2>3 DEF Coming
    <3> QED
      BY <1>1, <1>2, <3>1, ReadySame, ComingSame, SameComing DEF WInv
  <2> QED
    BY <2>1, <2>2, <2>3
<1> QED
  BY <1>3, <1>4, <1>5 DEF WInv

\* wake_one: the worker it pops is asleep and off the stack, so it is coming.
LEMMA PopWakes ==
  ASSUME IInv, WInv, mtx = Free, stack # << >>, stack' = Popped
  PROVE  \E p \in Workers : pc[p] = "sleep" /\ (pc'[p] = "sleep" => Coming(p)')
<1>1. /\ Len(stack) \in Nat \ {0} /\ stack[Len(stack)] \in Workers
      /\ pc[stack[Len(stack)]] \in {"sleep", "rescan"}
  BY PoppedStack DEF WInv, Stacked
<1>2. pc[stack[Len(stack)]] = "sleep"
  BY <1>1, WavefrontAssumption DEF WInv, Mutex, InMutex
<1>3. \A i \in 1 .. Len(stack') : stack'[i] # stack[Len(stack)]
  <2>1. /\ stack \in Seq(Workers)
        /\ \A i, j \in 1 .. Len(stack) : stack[i] = stack[j] => i = j
    BY DEF WInv, Stacked
  <2>2. Len(stack') = Len(stack) - 1 /\ \A i \in 1 .. Len(stack') : stack'[i] = stack[i]
    BY <2>1, PoppedStack
  <2>3. \A i \in 1 .. Len(stack') : i \in 1 .. Len(stack) /\ i # Len(stack)
    BY <1>1, <2>2
  <2> QED
    BY <1>1, <2>1, <2>2, <2>3
<1> QED
  BY <1>1, <1>2, <1>3 DEF Coming, InStack

\* A pop keeps the stack's shape, whether the popped worker sleeps on or is
\* the one that withdraws.
LEMMA PopStacked ==
  ASSUME Stacked, stack' = Popped, UNCHANGED shutdown, ~shutdown,
         \A v \in Workers :
             /\ pc[v] \in {"sleep", "rescan"} =>
                  pc'[v] \in {"sleep", "rescan"} \/ (stack # << >> /\ v = stack[Len(stack)])
             /\ pc'[v] # "rescan"
  PROVE  Stacked'
<1>1. CASE stack = << >>
  <2>1. stack' = << >>
    BY <1>1 DEF Popped
  <2>2. Len(stack) = 0 /\ 1 .. Len(stack') = {}
    BY <1>1, <2>1
  <2> QED
    BY <1>1, <2>1, <2>2 DEF Stacked
<1>2. CASE stack # << >>
  <2>1. /\ stack' \in Seq(Workers) /\ Len(stack) \in Nat \ {0}
        /\ Len(stack') = Len(stack) - 1 /\ \A i \in 1 .. Len(stack') : stack'[i] = stack[i]
    BY <1>2, PoppedStack DEF Stacked
  <2>2. \A i \in 1 .. Len(stack') : i \in 1 .. Len(stack) /\ i # Len(stack)
    BY <2>1
  <2>3. \A i \in 1 .. Len(stack') : stack[i] \in Workers /\ stack[i] # stack[Len(stack)]
    <3>1. Len(stack) \in 1 .. Len(stack)
      BY <2>1
    <3> QED
      BY <2>2, <3>1, ElementOfSeq DEF Stacked
  <2>4. \A i \in 1 .. Len(stack') : pc'[stack'[i]] \in {"sleep", "rescan"}
    BY <2>1, <2>2, <2>3, SMTT(60) DEF Stacked
  <2>5. \A i, j \in 1 .. Len(stack') : stack'[i] = stack'[j] => i = j
    BY <2>1, <2>2, SMTT(60) DEF Stacked
  <2> QED
    BY <2>1, <2>4, <2>5 DEF Stacked
<1> QED
  BY <1>1, <1>2

LEMMA StartWakeWInv == ASSUME IInv, WInv, NEW w \in Workers, StartWake(w) PROVE WInv'
<1> USE DEF IInv, CoreType, StartWake, Goto, job, idle, sub
<1>1. PICK l \in {"run", "rowend"} : pc' = [pc EXCEPT ![w] = l]
  BY DEF NextColumn
<1>2. /\ pc[w] = "start" /\ pc'[w] = l
      /\ \A v \in Workers : v # w => pc'[v] = pc[v] /\ col'[v] = col[v]
  BY <1>1 DEF NextColumn
<1>3. Mutex' /\ Buffered'
  BY <1>2 DEF WInv, Mutex, Buffered, InMutex, WslotStore, Slot
<1>4. Registered'
  BY <1>2, SameRegistered DEF WInv, Waits, Idles
<1>5. CASE stack # << >>
  <2>1. ~shutdown
    BY <1>5 DEF WInv, Stacked
  <2>2. \A v \in Workers : pc[v] # "rescan"
    BY WavefrontAssumption DEF WInv, Mutex, InMutex
  <2>3. Stacked'
    BY <1>2, <2>1, <2>2, PopStacked DEF WInv
  <2>4. NoLostWakeup'
    BY <1>2, SatisfiedSame, SameWaiters DEF WInv
  <2>5. WakeInFlight'
    <3>1. PICK p \in Workers : pc[p] = "sleep" /\ (pc'[p] = "sleep" => Coming(p)')
      BY <1>5, PopWakes
    <3> QED
      BY <1>2, <3>1 DEF WakeInFlight
  <2> QED
    BY <1>3, <1>4, <2>3, <2>4, <2>5 DEF WInv
<1>6. CASE stack = << >>
  <2>1. stack' = stack
    BY <1>6 DEF Popped
  <2>2. Stacked' /\ NoLostWakeup'
    BY <1>2, <2>1, SameStacked, SatisfiedSame, SameWaiters DEF WInv
  <2>3. WakeInFlight'
    BY <1>6, <2>1 DEF WakeInFlight
  <2> QED
    BY <1>3, <1>4, <2>2, <2>3 DEF WInv
<1> QED
  BY <1>5, <1>6

-----------------------------------------------------------------------------
(* The claim scan.                                                          *)

\* A worker that is not on the stack goes on top of it.
LEMMA PushStacked ==
  ASSUME Stacked, NEW w \in Workers, pc[w] = "top", stack' = Append(stack, w),
         UNCHANGED shutdown, ~shutdown, pc'[w] = "rescan",
         \A v \in Workers : v # w => pc'[v] = pc[v] /\ pc[v] # "rescan"
  PROVE  Stacked'
<1>1. /\ stack \in Seq(Workers) /\ Len(stack) \in Nat
      /\ stack' \in Seq(Workers) /\ Len(stack') = Len(stack) + 1 /\ stack'[Len(stack')] = w
      /\ \A i \in 1 .. Len(stack) : stack'[i] = stack[i] /\ stack[i] \in Workers
  BY AppendProperties, LenProperties, ElementOfSeq DEF Stacked
<1>2. \A i \in 1 .. Len(stack') : i \in 1 .. Len(stack) \/ i = Len(stack')
  BY <1>1
<1>3. \A i \in 1 .. Len(stack) : stack[i] # w /\ pc[stack[i]] \in {"sleep", "rescan"}
  BY DEF Stacked
<1>4. \A i \in 1 .. Len(stack') : pc'[stack'[i]] \in {"sleep", "rescan"}
  BY <1>1, <1>2, <1>3
<1>5. \A i, j \in 1 .. Len(stack') : stack'[i] = stack'[j] => i = j
  BY <1>1, <1>2, <1>3 DEF Stacked
<1>6. stack' # << >>
  BY <1>1, EmptySeq
<1> QED
  BY <1>1, <1>4, <1>5, <1>6 DEF Stacked

LEMMA ScanWInv == ASSUME IInv, WInv, NEW w \in Workers, Scan(w) PROVE WInv'
<1> USE DEF IInv, CoreType, Scan, Goto, job, idle, sub
<1>1. PICK l \in {"claim", "exit", "rescan"} : pc' = [pc EXCEPT ![w] = l]
  BY DEF RegisterIdler
<1>2. /\ pc[w] = "top" /\ pc'[w] = l /\ \A v \in Workers : v # w => pc'[v] = pc[v]
      /\ buf[w] = Empty /\ mtx \in {w, Free} /\ \A v \in Workers : pc[v] \notin InMutex
  <2>1. buf[w] = Empty
    BY OnlyThree DEF WInv
  <2> QED
    BY <1>1, <2>1, WavefrontAssumption DEF WInv, Mutex, InMutex
<1>3. NoLostWakeup'
  BY <1>1, <1>2, SatisfiedSame, SameWaiters DEF WInv
<1>4. CASE l = "claim"
  <2>1. mtx' = w /\ UNCHANGED <<stack, buf>>
    BY <1>1, <1>4 DEF RegisterIdler, Store
  <2>2. Mutex' /\ Buffered' /\ Registered' /\ Stacked'
    <3>1. Mutex' /\ Buffered'
      BY <1>2, <1>4, <2>1 DEF WInv, Mutex, Buffered, InMutex, WslotStore, Slot
    <3>2. Registered'
      BY <1>2, <1>4, <2>1, SameRegistered DEF WInv, Waits, Idles
    <3>3. Stacked'
      BY <1>2, <1>4, <2>1, SameStacked DEF WInv
    <3> QED
      BY <3>1, <3>2, <3>3
  <2>3. WakeInFlight'
    BY <1>2, <1>4 DEF WakeInFlight, Coming
  <2> QED
    BY <1>3, <2>2, <2>3 DEF WInv
<1>5. CASE l = "exit"
  <2>1. ~Ready /\ mtx' = Free /\ UNCHANGED <<stack, buf>>
    BY <1>1, <1>5 DEF RegisterIdler, Unlock
  <2>2. Mutex' /\ Buffered'
    BY <1>2, <1>5, <2>1, WavefrontAssumption DEF WInv, Mutex, Buffered, InMutex, WslotStore, Slot
  <2>3. Registered'
    BY <1>2, <1>5, <2>1, SameRegistered DEF WInv, Waits, Idles
  <2>4. Stacked'
    BY <1>2, <1>5, <2>1, SameStacked DEF WInv
  <2>5. WakeInFlight'
    BY <2>1, ReadySame DEF WakeInFlight
  <2> QED
    BY <1>3, <2>2, <2>3, <2>4, <2>5 DEF WInv
<1>6. CASE l = "rescan"
  <2>1. /\ ~Ready /\ ~shutdown /\ mtx' = w /\ stack' = Append(stack, w)
        /\ buf' = [buf EXCEPT ![w] = IdlersStore]
    BY <1>1, <1>6 DEF RegisterIdler, Store, IdlersStore
  <2>2. buf'[w] = IdlersStore /\ buf'[w] # Empty /\ \A v \in Workers : v # w => buf'[v] = buf[v]
    BY <2>1 DEF IdlersStore, Empty
  <2>3. Mutex'
    BY <1>2, <1>6, <2>1 DEF WInv, Mutex, InMutex
  <2>4. Buffered'
    BY <1>2, <1>6, <2>2 DEF WInv, Buffered, WslotStore, Slot, IdlersStore
  <2>5. Registered'
    BY <1>2, <1>6, <2>2, SameRegistered DEF WInv, Waits, Idles
  <2>6. Stacked'
    BY <1>2, <1>6, <2>1, PushStacked DEF WInv, InMutex
  <2>7. WakeInFlight'
    BY <2>1, ReadySame DEF WakeInFlight
  <2> QED
    BY <1>3, <2>3, <2>4, <2>5, <2>6, <2>7 DEF WInv
<1> QED
  BY <1>4, <1>5, <1>6

\* One worker fewer is an idler.
LEMMA IdleLess ==
  ASSUME Registered, NEW w \in Workers, Idles(w), ~Idles(w)',
         idlers' = idlers - 1, UNCHANGED wslot,
         \A v \in Workers : /\ Waits(v)' <=> Waits(v)
                            /\ Waits(v) => row'[v] = row[v]
                            /\ v # w => (Idles(v)' <=> Idles(v))
  PROVE  Registered'
<1>1. Idle' = Idle \ {w} /\ w \in Idle /\ Idle \subseteq Workers
  BY DEF Idle
<1>2. Cardinality(Idle') = Cardinality(Idle) - 1
  BY <1>1, CountWorkers
<1>3. \A s \in 0 .. NSlots - 1 : Parked(s)' = Parked(s)
  BY DEF Parked, Slot
<1> QED
  BY <1>2, <1>3 DEF Registered

\* A row turned up meanwhile: withdraw from the stack.  Otherwise sleep.
LEMMA RescanWInv == ASSUME IInv, WInv, NEW w \in Workers, Rescan(w) PROVE WInv'
<1> USE DEF IInv, CoreType, Rescan, Goto, job, idle, sub
<1>1. PICK l \in {"claim", "sleep"} : pc' = [pc EXCEPT ![w] = l]
  OBVIOUS
<1>2. /\ pc[w] = "rescan" /\ pc'[w] = l /\ \A v \in Workers : v # w => pc'[v] = pc[v]
      /\ buf[w] = Empty /\ mtx = w /\ \A v \in Workers : v # w => pc[v] \notin InMutex
      /\ stack # << >> /\ stack[Len(stack)] = w /\ ~shutdown /\ UNCHANGED <<shutdown, buf>>
  BY <1>1 DEF WInv, Mutex, InMutex, Stacked, Fence
<1>3. NoLostWakeup'
  BY <1>1, <1>2, SatisfiedSame, SameWaiters DEF WInv
<1>4. Buffered'
  BY <1>2 DEF WInv, Buffered, WslotStore, Slot, Empty
<1>5. CASE l = "claim"
  <2>1. stack' = Popped /\ idlers' = idlers - 1 /\ mtx' = mtx
    BY <1>1, <1>5
  <2>2. Mutex'
    BY <1>2, <1>5, <2>1 DEF WInv, Mutex, InMutex
  <2>3. Registered'
    BY <1>2, <1>5, <2>1, IdleLess, ZenonT(60) DEF WInv, Waits, Idles
  <2>4. Stacked'
    <3>1. \A v \in Workers : pc'[v] # "rescan"
      BY <1>2, <1>5 DEF InMutex
    <3> QED
      BY <1>2, <2>1, <3>1, PopStacked DEF WInv
  <2>5. WakeInFlight'
    BY <1>2, <1>5 DEF WakeInFlight, Coming
  <2> QED
    BY <1>3, <1>4, <2>2, <2>3, <2>4, <2>5 DEF WInv
<1>6. CASE l = "sleep"
  <2>1. ~Ready /\ mtx' = Free /\ UNCHANGED <<stack, idlers>>
    BY <1>1, <1>6 DEF Unlock
  <2>2. Mutex'
    BY <1>2, <1>6, <2>1, WavefrontAssumption DEF WInv, Mutex, InMutex
  <2>3. Registered'
    BY <1>2, <1>6, <2>1, SameRegistered DEF WInv, Waits, Idles
  <2>4. Stacked'
    BY <1>2, <1>6, <2>1, SameStacked DEF WInv
  <2>5. WakeInFlight'
    BY <2>1, ReadySame DEF WakeInFlight
  <2> QED
    BY <1>3, <1>4, <2>2, <2>3, <2>4, <2>5 DEF WInv
<1> QED
  BY <1>5, <1>6

LEMMA WakeWInv == ASSUME IInv, WInv, NEW w \in Workers, Wake(w) PROVE WInv'
<1> USE DEF IInv, CoreType, Wake, Goto, job, idle, sub
<1>1. /\ pc[w] = "sleep" /\ pc'[w] = "top" /\ \A v \in Workers : v # w => pc'[v] = pc[v]
      /\ \A v \in Workers : pc[v] \notin InMutex /\ mtx' = w /\ idlers' = idlers - 1
      /\ UNCHANGED <<stack, shutdown, buf, row, col>>
  BY WavefrontAssumption DEF WInv, Mutex, InMutex
<1>2. ~InStack(w)
  <2>1. shutdown => Len(stack) = 0
    BY EmptySeq DEF WInv, Stacked
  <2> QED
    BY <2>1 DEF InStack
<1>3. Mutex' /\ Buffered'
  BY <1>1 DEF WInv, Mutex, Buffered, InMutex, WslotStore, Slot
<1>4. Registered'
  BY <1>1, IdleLess DEF WInv, Waits, Idles
<1>5. Stacked'
  <2>1. \A i \in 1 .. Len(stack) : stack[i] \in Workers \ {w}
    BY <1>2, ElementOfSeq DEF WInv, Stacked, InStack
  <2> QED
    BY <1>1, <2>1, SMTT(60) DEF WInv, Stacked, InMutex
<1>6. NoLostWakeup'
  BY <1>1, SatisfiedSame, SameWaiters DEF WInv
<1>7. WakeInFlight'
  BY <1>1 DEF WakeInFlight, Coming
<1> QED
  BY <1>3, <1>4, <1>5, <1>6, <1>7 DEF WInv

\* Claiming the row under the mutex; the next one is not claimable yet.
LEMMA ClaimWInv == ASSUME IInv, WInv, NEW w \in Workers, Claim(w) PROVE WInv'
<1> USE DEF IInv, CoreType, Claim, Goto, job, idle, sub
<1>1. PICK l \in {"run", "top"} : pc' = [pc EXCEPT ![w] = l]
  OBVIOUS
<1>2. /\ pc[w] = "claim" /\ pc'[w] = l
      /\ \A v \in Workers : v # w => pc'[v] = pc[v] /\ row'[v] = row[v] /\ col'[v] = col[v]
      /\ mtx = w /\ \A v \in Workers : v # w => pc[v] \notin InMutex
      /\ mtx' = IF l = "run" THEN Free ELSE w
      /\ UNCHANGED <<stack, shutdown, buf, wslot, idlers, progress>>
  BY <1>1 DEF WInv, Mutex, InMutex, Unlock
<1>3. Mutex'
  BY <1>1, <1>2, WavefrontAssumption DEF WInv, Mutex, InMutex
<1>4. Buffered'
  BY <1>1, <1>2 DEF WInv, Buffered, WslotStore, Slot
<1>5. Registered'
  BY <1>1, <1>2, SameRegistered DEF WInv, Waits, Idles
<1>6. Stacked'
  BY <1>1, <1>2, SameStacked DEF WInv
<1>7. NoLostWakeup'
  BY <1>1, <1>2, SatisfiedSame, SameWaiters DEF WInv
<1>8. WakeInFlight'
  <2>1. CASE l = "top"
    BY <1>2, <2>1 DEF WakeInFlight, Coming
  <2>2. CASE l = "run"
    <3>1. next_row \in Rows /\ next_row' = next_row + 1 /\ progress'[next_row] = 0
      <4>1. Ready /\ next_row' = next_row + 1
        BY <1>2, <2>2
      <4>2. next_row \in Rows
        BY <4>1, WavefrontAssumption DEF Ready, Rows
      <4>3. progress[next_row] = 0
        BY <4>2 DEF Counting, Rows
      <4> QED
        BY <1>2, <4>1, <4>2, <4>3
    <3>2. ~Ready'
      BY <3>1, WavefrontAssumption DEF Ready, StartNeed, Rows
    <3> QED
      BY <3>2 DEF WakeInFlight
  <2> QED
    BY <2>1, <2>2
<1> QED
  BY <1>3, <1>4, <1>5, <1>6, <1>7, <1>8 DEF WInv

-----------------------------------------------------------------------------
(* The wait for the row above.                                              *)

\* One more waiter of a slot is counted, or one fewer.
LEMMA ParkedMore ==
  ASSUME IInv, Registered, NEW w \in Workers, ~Waits(w), Waits(w)', UNCHANGED <<row, idlers>>,
         wslot' = [wslot EXCEPT ![Slot(row[w])] = @ + 1],
         \A v \in Workers : /\ v # w => (Waits(v)' <=> Waits(v))
                            /\ Idles(v)' <=> Idles(v)
  PROVE  Registered'
<1>1. Slot(row[w]) \in 0 .. NSlots - 1
  BY WavefrontAssumption DEF IInv, CoreType, Rows, Slot
<1>2. /\ Parked(Slot(row[w]))' = Parked(Slot(row[w])) \cup {w}
      /\ w \notin Parked(Slot(row[w])) /\ Parked(Slot(row[w])) \subseteq Workers
      /\ \A s \in 0 .. NSlots - 1 : s # Slot(row[w]) => Parked(s)' = Parked(s)
      /\ Idle' = Idle
  BY DEF Parked, Idle, Slot
<1>3. Cardinality(Parked(Slot(row[w]))') = Cardinality(Parked(Slot(row[w]))) + 1
  BY <1>2, CountWorkers
<1>4. \A s \in 0 .. NSlots - 1 :
        wslot'[s] = IF s = Slot(row[w]) THEN wslot[s] + 1 ELSE wslot[s]
  BY <1>1 DEF Registered
<1>5. \A s \in 0 .. NSlots - 1 : wslot[s] = Cardinality(Parked(s))
  BY DEF Registered
<1>6. \A s \in 0 .. NSlots - 1 : wslot'[s] = Cardinality(Parked(s)')
  BY <1>1, <1>2, <1>3, <1>4, <1>5
<1>7. wslot' \in [0 .. NSlots - 1 -> Int]
  BY <1>1 DEF Registered
<1> QED
  BY <1>2, <1>6, <1>7 DEF Registered

LEMMA ParkedLess ==
  ASSUME IInv, Registered, NEW w \in Workers, Waits(w), ~Waits(w)', UNCHANGED <<row, idlers>>,
         wslot' = [wslot EXCEPT ![Slot(row[w])] = @ - 1],
         \A v \in Workers : /\ v # w => (Waits(v)' <=> Waits(v))
                            /\ Idles(v)' <=> Idles(v)
  PROVE  Registered'
<1>1. Slot(row[w]) \in 0 .. NSlots - 1
  BY WavefrontAssumption DEF IInv, CoreType, Rows, Slot
<1>2. /\ Parked(Slot(row[w]))' = Parked(Slot(row[w])) \ {w}
      /\ w \in Parked(Slot(row[w])) /\ Parked(Slot(row[w])) \subseteq Workers
      /\ \A s \in 0 .. NSlots - 1 : s # Slot(row[w]) => Parked(s)' = Parked(s)
      /\ Idle' = Idle
  BY DEF Parked, Idle, Slot
<1>3. Cardinality(Parked(Slot(row[w]))') = Cardinality(Parked(Slot(row[w]))) - 1
  BY <1>2, CountWorkers
<1>4. \A s \in 0 .. NSlots - 1 :
        wslot'[s] = IF s = Slot(row[w]) THEN wslot[s] - 1 ELSE wslot[s]
  BY <1>1 DEF Registered
<1>5. \A s \in 0 .. NSlots - 1 : wslot[s] = Cardinality(Parked(s))
  BY DEF Registered
<1>6. \A s \in 0 .. NSlots - 1 : wslot'[s] = Cardinality(Parked(s)')
  BY <1>1, <1>2, <1>3, <1>4, <1>5
<1>7. wslot' \in [0 .. NSlots - 1 -> Int]
  BY <1>1 DEF Registered
<1> QED
  BY <1>2, <1>6, <1>7 DEF Registered

LEMMA StallWInv == ASSUME IInv, WInv, NEW w \in Workers, Stall(w) PROVE WInv'
<1> USE DEF IInv, CoreType, Stall, Goto, job, idle, sub
<1>1. PICK l \in {"cell", "register"} : pc' = [pc EXCEPT ![w] = l]
  OBVIOUS
<1>2. /\ pc[w] = "stall" /\ pc'[w] = l /\ \A v \in Workers : v # w => pc'[v] = pc[v]
      /\ \A v \in Workers : pc[v] \notin InMutex
      /\ UNCHANGED <<stack, shutdown, wslot, idlers, row, col>>
  BY <1>1, WavefrontAssumption DEF WInv, Mutex, InMutex
<1>3. NoLostWakeup'
  BY <1>1, <1>2, SatisfiedSame, SameWaiters DEF WInv
<1>4. WakeInFlight'
  <2>1. ~Coming(w)
    BY <1>2 DEF Coming
  <2> QED
    BY <1>1, <1>2, <2>1, ReadySame, ComingSame, SameComing DEF WInv
<1>5. CASE l = "cell"
  <2>1. UNCHANGED <<mtx, buf>>
    BY <1>1, <1>5
  <2>2. Mutex' /\ Buffered' /\ Registered' /\ Stacked'
    BY <1>1, <1>2, <1>5, <2>1, Aside
  <2> QED
    BY <1>3, <1>4, <2>2 DEF WInv
<1>6. CASE l = "register"
  <2>1. mtx' = w /\ buf' = [buf EXCEPT ![w] = WslotStore(row[w])]
    BY <1>1, <1>6 DEF Store, WslotStore
  <2>2. buf'[w] # Empty
    BY <2>1 DEF WslotStore, Empty
  <2>3. Mutex'
    BY <1>2, <1>6, <2>1 DEF WInv, Mutex, InMutex
  <2>4. Buffered'
    <3>1. buf'[w] = WslotStore(row[w]) /\ \A v \in Workers : v # w => buf'[v] = buf[v]
      BY <2>1
    <3>2. buf'[w].var = "wslot"
      BY <3>1 DEF WslotStore
    <3> QED
      BY <1>2, <1>6, <3>1, <3>2 DEF WInv, Buffered, WslotStore, Slot
  <2>5. Registered'
    BY <1>2, <1>6, <2>1, <2>2, SameRegistered DEF WInv, Waits, Idles
  <2>6. Stacked'
    BY <1>2, <1>6, <2>1, SameStacked DEF WInv
  <2> QED
    BY <1>3, <1>4, <2>3, <2>4, <2>5, <2>6 DEF WInv
<1> QED
  BY <1>5, <1>6

LEMMA WaitLoopWInv == ASSUME IInv, WInv, NEW w \in Workers, WaitLoop(w) PROVE WInv'
<1> USE DEF IInv, CoreType, WaitLoop, Goto, job, idle, sub
<1>1. PICK l \in {"cell", "wait"} : pc' = [pc EXCEPT ![w] = l]
  OBVIOUS
<1>2. /\ pc[w] \in {"register", "woken"} /\ pc'[w] = l
      /\ \A v \in Workers : v # w => pc'[v] = pc[v] /\ pc[v] \notin InMutex
      /\ mtx' = Free /\ Waits(w) /\ UNCHANGED <<stack, shutdown, idlers, row, col, buf>>
  BY <1>1, WavefrontAssumption DEF WInv, Mutex, InMutex, Waits, Fence
<1>3. Mutex'
  BY <1>1, <1>2, WavefrontAssumption DEF WInv, Mutex, InMutex
<1>4. Buffered'
  <2>1. buf[w] = Empty
    BY <1>2, OnlyThree DEF WInv, Waits
  <2> QED
    BY <1>2, <2>1 DEF WInv, Buffered, WslotStore, Slot, Empty
<1>5. Stacked'
  BY <1>1, <1>2, SameStacked DEF WInv
<1>6. NoLostWakeup'
  <2>1. l = "wait" => ~Satisfied(w)
    BY <1>1, <1>2
  <2> QED
    BY <1>1, <1>2, <2>1, SatisfiedSame, SameWaiters DEF WInv
<1>7. WakeInFlight'
  <2>1. ~Coming(w)
    BY <1>2 DEF Coming
  <2> QED
    BY <1>1, <1>2, <2>1, ReadySame, ComingSame, SameComing DEF WInv
<1>8. Registered'
  <2>1. CASE l = "cell"
    <3>1. wslot' = [wslot EXCEPT ![Slot(row[w])] = @ - 1]
      BY <1>1, <1>2, <2>1
    <3>2. ~Waits(w)' /\ ~Idles(w) /\ ~Idles(w)'
      BY <1>2, <2>1 DEF Waits, Idles
    <3>3. \A v \in Workers : v # w => (Waits(v)' <=> Waits(v)) /\ (Idles(v)' <=> Idles(v))
      BY <1>2 DEF Waits, Idles
    <3> QED
      BY <1>2, <3>1, <3>2, <3>3, ParkedLess DEF WInv
  <2>2. CASE l = "wait"
    <3>1. UNCHANGED wslot
      BY <1>1, <2>2
    <3> QED
      BY <1>2, <2>2, <3>1, SameRegistered DEF WInv, Waits, Idles
  <2> QED
    BY <2>1, <2>2
<1> QED
  BY <1>3, <1>4, <1>5, <1>6, <1>7, <1>8 DEF WInv

LEMMA CountRowWInv == ASSUME IInv, WInv, NEW w \in Workers, CountRow(w) PROVE WInv'
<1> USE DEF IInv, CoreType, CountRow, Goto, job, idle, sub
<1>1. /\ pc[w] = "rowlock" /\ pc'[w] = "top" /\ \A v \in Workers : v # w => pc'[v] = pc[v]
      /\ \A v \in Workers : pc[v] \notin InMutex /\ mtx' = w
      /\ UNCHANGED <<stack, shutdown, wslot, idlers, row, col, buf, progress>>
  BY WavefrontAssumption DEF WInv, Mutex, InMutex
<1>2. Mutex' /\ Buffered'
  BY <1>1 DEF WInv, Mutex, Buffered, InMutex, WslotStore, Slot
<1>3. Registered'
  BY <1>1, SameRegistered DEF WInv, Waits, Idles
<1>4. Stacked'
  BY <1>1, SameStacked DEF WInv
<1>5. NoLostWakeup'
  BY <1>1, SatisfiedSame, SameWaiters DEF WInv
<1>6. WakeInFlight'
  BY <1>1 DEF WakeInFlight, Coming
<1> QED
  BY <1>2, <1>3, <1>4, <1>5, <1>6 DEF WInv

-----------------------------------------------------------------------------
(* A store becomes visible.                                                 *)

\* The cell that lets a waiter go on, or makes the next row claimable, is
\* published by a worker that has not yet looked for either.
LEMMA DrainWInv == ASSUME IInv, WInv, NEW w \in Workers, Drain(w) PROVE WInv'
<1> USE DEF IInv, CoreType, job, idle, sub
<1>1. /\ buf' = [buf EXCEPT ![w] = Empty] /\ buf'[w] = Empty /\ buf[w] # Empty
      /\ \A v \in Workers : v # w => buf'[v] = buf[v]
      /\ UNCHANGED <<used, done, next_row, stack, shutdown, mtx, pc, row, col, spc>>
  BY DEF Drain
<1>2. Mutex' /\ Buffered' /\ Stacked'
  <2>1. Stacked'
    BY <1>1, SameStacked DEF WInv
  <2> QED
    BY <1>1, <2>1 DEF WInv, Mutex, Buffered, WslotStore, Slot, Empty
<1>3. CASE buf[w].var = "progress"
  <2>1. /\ pc[w] = "fence" /\ progress' = [progress EXCEPT ![row[w]] = col[w] + 1]
        /\ progress[row[w]] = col[w] /\ row[w] \in Rows /\ row[w] < next_row
        /\ UNCHANGED <<wslot, idlers>>
    <3>1. pc[w] = "fence" /\ buf[w] = ProgressStore(row[w], col[w] + 1)
      BY <1>1, <1>3 DEF Publication, ProgressStore
    <3> QED
      BY <3>1 DEF Publication, Ownership, Holding, Drain, ProgressStore
  <2>2. Registered'
    BY <1>1, <2>1, SameRegistered DEF WInv, Waits, Idles
  <2>3. NoLostWakeup'
    <3> SUFFICES ASSUME NEW v \in Workers, pc[v] = "wait", Satisfied(v)'
                 PROVE  \E u \in Workers : pc[u] \in {"fence", "bcast"} /\ Slot(row[u] + 1) = Slot(row[v])
      BY <1>1 DEF NoLostWakeup, Slot
    <3>1. CASE Satisfied(v)
      BY <3>1 DEF WInv, NoLostWakeup
    <3>2. CASE ~Satisfied(v)
      <4>1. row[v] - 1 = row[w]
        BY <1>1, <2>1, <3>2 DEF Satisfied, Need
      <4>2. row[w] + 1 = row[v]
        BY <4>1 DEF Rows
      <4> QED
        BY <2>1, <4>2
    <3> QED
      BY <3>1, <3>2
  <2>4. WakeInFlight'
    <3>1. \A v \in Workers : Coming(v)' <=> Coming(v)
      BY <1>1, ComingSame
    <3>2. CASE Ready
      BY <1>1, <3>1, <3>2 DEF WInv, WakeInFlight
    <3>3. CASE ~Ready /\ Ready'
      <4>1. /\ next_row > 0 /\ progress'[next_row - 1] >= StartNeed
            /\ ~(progress[next_row - 1] >= StartNeed)
        BY <1>1, <3>3 DEF Ready, StartNeed
      <4>2. next_row - 1 \in Rows
        BY <4>1, WavefrontAssumption DEF Rows
      <4>3. row[w] = next_row - 1
        BY <2>1, <4>1, <4>2
      <4>4. col[w] + 1 = StartNeed
        <5>1. progress'[next_row - 1] = col[w] + 1 /\ progress[next_row - 1] = col[w]
          BY <2>1, <4>3
        <5>2. StartNeed \in Nat /\ col[w] \in Nat
          BY WavefrontAssumption DEF StartNeed, Cols
        <5> QED
          BY <4>1, <5>1, <5>2
      <4>5. Coming(w)
        BY <2>1, <4>3, <4>4 DEF Coming
      <4> QED
        BY <3>1, <4>5 DEF WakeInFlight
    <3> QED
      BY <3>2, <3>3 DEF WakeInFlight
  <2> QED
    BY <1>2, <2>2, <2>3, <2>4 DEF WInv
<1>4. CASE buf[w].var \in {"wslot", "idlers"}
  <2>1. progress' = progress
    BY <1>4 DEF Drain
  <2>2. NoLostWakeup'
    BY <1>1, <2>1, SatisfiedSame, SameWaiters DEF WInv
  <2>3. WakeInFlight'
    BY <1>1, <2>1, ReadySame, ComingSame, SameComing DEF WInv
  <2>4. Registered'
    <3>1. CASE buf[w].var = "wslot"
      <4>1. /\ pc[w] = "register" /\ UNCHANGED idlers
            /\ wslot' = [wslot EXCEPT ![Slot(row[w])] = @ + 1]
        <5>1. pc[w] = "register" /\ buf[w] = WslotStore(row[w])
          BY <3>1 DEF WInv, Buffered
        <5> QED
          BY <5>1 DEF WslotStore, Drain
      <4>2. ~Waits(w) /\ Waits(w)' /\ ~Idles(w) /\ ~Idles(w)'
        BY <1>1, <4>1 DEF Waits, Idles
      <4>3. \A v \in Workers : v # w => (Waits(v)' <=> Waits(v)) /\ (Idles(v)' <=> Idles(v))
        BY <1>1 DEF Waits, Idles
      <4> QED
        BY <1>1, <4>1, <4>2, <4>3, ParkedMore DEF WInv
    <3>2. CASE buf[w].var = "idlers"
      <4>1. pc[w] = "rescan" /\ idlers' = idlers + 1 /\ UNCHANGED wslot
        BY <3>2 DEF WInv, Buffered, Drain
      <4>2. Idle' = Idle \cup {w} /\ w \notin Idle /\ Idle \subseteq Workers
        BY <1>1, <4>1 DEF Idle, Idles
      <4>3. Cardinality(Idle') = Cardinality(Idle) + 1
        BY <4>2, CountWorkers
      <4>4. \A s \in 0 .. NSlots - 1 : Parked(s)' = Parked(s)
        BY <1>1, <4>1 DEF Parked, Waits, Slot
      <4> QED
        BY <4>1, <4>3, <4>4 DEF WInv, Registered
    <3> QED
      BY <1>4, <3>1, <3>2
  <2> QED
    BY <1>2, <2>2, <2>3, <2>4 DEF WInv
<1> QED
  <2>1. buf[w].var \in {"progress", "wslot", "idlers"}
    BY <1>1 DEF Stores
  <2> QED
    BY <1>3, <1>4, <2>1

-----------------------------------------------------------------------------
(* The submitter, and the theorem.                                          *)

LEMMA SubmitterWInv == ASSUME IInv, WInv, Submitter PROVE WInv'
<1> USE DEF IInv, CoreType, job, idle, sub, UNCHANGED_Workers
<1>1. /\ UNCHANGED <<next_row, progress, done, mtx, wslot, idlers, pc, row, col, next, buf>>
      /\ \/ Register
         \/ Shutdown
         \/ (used' => used) /\ UNCHANGED <<stack, shutdown>>
  BY DEF Submitter, RegisterFails, Register, SerialCell, JobWait, Shutdown, Closed
<1>2. Mutex' /\ Buffered'
  BY <1>1 DEF WInv, Mutex, Buffered, WslotStore, Slot
<1>3. Registered'
  BY <1>1, SameRegistered DEF WInv, Waits, Idles
<1>4. NoLostWakeup'
  BY <1>1, SatisfiedSame, SameWaiters DEF WInv
<1>5. CASE Register
  <2>1. /\ mtx = Free /\ stack' = Popped /\ UNCHANGED shutdown /\ ~shutdown
        /\ \A v \in Workers : pc[v] # "rescan"
    BY <1>5, WavefrontAssumption DEF Register, WInv, Stacked, Mutex, InMutex
  <2>2. Stacked'
    BY <1>1, <2>1, PopStacked DEF WInv
  <2>3. WakeInFlight'
    <3>1. CASE stack = << >>
      BY <2>1, <3>1 DEF WakeInFlight, Popped
    <3>2. CASE stack # << >>
      <4>1. PICK p \in Workers : pc[p] = "sleep" /\ (pc'[p] = "sleep" => Coming(p)')
        BY <2>1, <3>2, PopWakes
      <4> QED
        BY <1>1, <4>1 DEF WakeInFlight
    <3> QED
      BY <3>1, <3>2
  <2> QED
    BY <1>2, <1>3, <1>4, <2>2, <2>3 DEF WInv
<1>6. CASE Shutdown
  <2>1. stack' = << >> /\ shutdown' = TRUE /\ spc' = "closing" /\ used' = used /\ ~used /\ mtx = Free
    BY <1>6 DEF Shutdown, Calling
  <2>2. stack' \in Seq(Workers) /\ 1 .. Len(stack') = {}
    BY <2>1, EmptySeq
  <2>3. \A v \in Workers : pc'[v] # "rescan"
    BY <1>1, <2>1, WavefrontAssumption DEF WInv, Mutex, InMutex
  <2>4. Stacked'
    BY <2>1, <2>2, <2>3 DEF Stacked
  <2>5. WakeInFlight'
    BY <2>1 DEF WakeInFlight
  <2> QED
    BY <1>2, <1>3, <1>4, <2>4, <2>5 DEF WInv
<1>7. CASE (used' => used) /\ UNCHANGED <<stack, shutdown>>
  <2>1. shutdown => spc' \in {"closing", "closed"}
    BY DEF WInv, Stacked, Submitter, RegisterFails, Register, SerialCell, JobWait,
       Shutdown, Closed
  <2>2. Stacked'
    BY <1>1, <1>7, <2>1 DEF WInv, Stacked
  <2>3. WakeInFlight'
    <3>1. Ready' => Ready
      BY <1>1, <1>7 DEF Ready, StartNeed
    <3> QED
      BY <1>1, <1>7, <3>1, ComingSame, SameComing DEF WInv
  <2> QED
    BY <1>2, <1>3, <1>4, <2>2, <2>3 DEF WInv
<1> QED
  BY <1>1, <1>5, <1>6, <1>7

\* Every step preserves the wake-up invariant.
LEMMA NextWInv == IInv /\ WInv /\ [Next]_vars => WInv'
<1> SUFFICES ASSUME IInv, WInv, [Next]_vars PROVE WInv'
  OBVIOUS
<1>1. ASSUME NEW w \in Workers, Worker(w) PROVE WInv'
  BY <1>1, ScanWInv, RescanWInv, WakeWInv, ClaimWInv, LookWInv, StallWInv, WaitLoopWInv,
     EndCellWInv, LookWaitersWInv, BroadcastWInv, LookIdlersWInv, StartWakeWInv,
     RowEndWInv, CountRowWInv
  DEF Worker
<1>2. ASSUME NEW w \in Workers, Drain(w) \/ SpuriousWake(w) PROVE WInv'
  BY <1>2, DrainWInv, SpuriousWInv
<1>3. CASE Submitter
  BY <1>3, SubmitterWInv
<1>4. CASE UNCHANGED vars
  <2>1. /\ UNCHANGED <<used, done, next_row, progress, wslot, idlers, stack, shutdown, mtx>>
        /\ UNCHANGED <<pc, row, col, buf, spc>>
    BY <1>4 DEF vars, job, idle, sub
  <2>2. Mutex' /\ Buffered' /\ Registered' /\ Stacked'
    BY <2>1, SameRegistered, SameStacked
    DEF WInv, Mutex, Buffered, Waits, Idles, WslotStore, Slot
  <2>3. NoLostWakeup'
    BY <2>1, SatisfiedSame, SameWaiters DEF WInv
  <2>4. WakeInFlight'
    BY <2>1, ReadySame, ComingSame, SameComing DEF WInv
  <2> QED
    BY <2>2, <2>3, <2>4 DEF WInv
<1> QED
  BY <1>1, <1>2, <1>3, <1>4 DEF Next, Gone

\* Both invariants hold in every reachable state.
LEMMA WakeInvariance == Spec => [](IInv /\ WInv)
<1>1. Init => IInv /\ WInv
  BY InitIInv, InitWInv
<1>2. IInv /\ WInv /\ [Next]_vars => IInv' /\ WInv'
  BY NextIInv, NextWInv
<1> QED
  BY <1>1, <1>2, PTL DEF Spec

\* run_row_from's "rare lost wakeup that hangs the whole encode" does not
\* happen: a worker waiting for cells that are there has a producer about to
\* broadcast its slot, whichever rows share it.
THEOREM NoWakeupLost == Spec => []NoLostWakeup
<1>1. WInv => NoLostWakeup
  BY DEF WInv
<1> QED
  BY WakeInvariance, <1>1, PTL

\* worker_main's "runnable work + idle worker => a wakeup is in flight": a
\* claimable row with a sleeper on the idle stack has a worker coming for it.
THEOREM WakeupComing == Spec => []WakeInFlight
<1>1. WInv => WakeInFlight
  BY DEF WInv
<1> QED
  BY WakeInvariance, <1>1, PTL

---------------------------------------------------------------------------
(* Wavefront implements WavefrontAbs: the promise of threadpool.h.  A step *)
(* that enters cell_fn is an abstract Start, a progress store an abstract  *)
(* Finish, job_wait's return (or the end of the serial fallback) an        *)
(* abstract Return, and everything else a stutter.                         *)


Cell == [r \in Rows |-> [c \in Cols |-> CellState(r, c)]]
Returned == spc \in {"joined", "closing", "closed"}

\* Somebody is inside cell_fn of (r, c).
Inside(r, c) ==
    \/ \E w \in Workers : pc[w] = "cell" /\ row[w] = r /\ col[w] = c
    \/ spc = "scell" /\ srow = r /\ scol = c

\* Only the worker of a row publishes its progress.
LEMMA BufferedRow ==
  ASSUME IInv, NEW w \in Workers, buf[w].var = "progress"
  PROVE  pc[w] = "fence" /\ buf[w].at = row[w]
<1>1. pc[w] = "fence"
  BY DEF IInv, Publication
<1>2. buf[w] # Empty
  BY DEF Empty
<1>3. buf[w] = ProgressStore(row[w], col[w] + 1)
  BY <1>1, <1>2 DEF IInv, Publication, ProgressStore
<1> QED
  BY <1>1, <1>3 DEF ProgressStore

\* What the worker of a row has finished of it.
LEMMA FinishedOf ==
  ASSUME IInv
  PROVE  /\ \A r \in Rows : Finished(r) \in Nat /\ progress[r] <= Finished(r)
         /\ \A w \in Workers : pc[w] \in Before => Finished(row[w]) = col[w]
         /\ next_row = 0 => \A r \in Rows : Finished(r) = 0
         /\ done => \A r \in Rows : Finished(r) = NCols
<1> USE DEF Before, Published, RowDone, Holding
<1>1. \A r \in Rows : progress[r] \in Nat
  BY WavefrontAssumption DEF IInv, CoreType
<1>2. \A w \in Workers : buf[w].var = "progress" => pc[w] = "fence" /\ buf[w].at = row[w]
  BY BufferedRow
<1>3. \A r \in Rows : Finished(r) \in Nat /\ progress[r] <= Finished(r)
  BY <1>1 DEF Finished
<1>4. \A w \in Workers : pc[w] \in Before => Finished(row[w]) = col[w]
  <2> SUFFICES ASSUME NEW w \in Workers, pc[w] \in Before PROVE Finished(row[w]) = col[w]
    OBVIOUS
  <2>1. \A v \in Workers : ~(buf[v].var = "progress" /\ buf[v].at = row[w])
    BY <1>2 DEF IInv, Ownership
  <2> QED
    BY <2>1 DEF IInv, Publication, Finished
<1>5. ASSUME next_row = 0 PROVE \A r \in Rows : Finished(r) = 0
  <2>1. \A w \in Workers : buf[w].var # "progress"
    BY <1>2, <1>5 DEF IInv, CoreType, Ownership, Rows
  <2>2. \A r \in Rows : progress[r] = 0
    BY <1>5 DEF IInv, Counting, Rows
  <2> QED
    BY <2>1, <2>2 DEF Finished
<1>6. ASSUME done PROVE \A r \in Rows : Finished(r) = NCols
  <2>1. \A r \in Rows : counted[r] /\ progress[r] = NCols
    BY <1>6, CountedFinite DEF IInv, Counting, Counted
  <2>2. \A w \in Workers : buf[w].var # "progress"
    BY <1>2, <2>1 DEF IInv, CoreType, Ownership
  <2> QED
    BY <2>1, <2>2 DEF Finished
<1> QED
  BY <1>3, <1>4, <1>5, <1>6

\* While a worker has a row, a cell's state is told by the workers alone.
LEMMA ParallelCell ==
  ASSUME IInv, NEW w \in Workers, pc[w] \in Holding
  PROVE  /\ srow = 0 /\ scol = 0 /\ spc # "scell"
         /\ \A r \in Rows, c \in Cols :
              CellState(r, c) = IF c < Finished(r) THEN "done"
                                ELSE IF Inside(r, c) THEN "running" ELSE "todo"
<1>1. next_row # 0
  BY DEF IInv, CoreType, Ownership, Rows
<1>2. srow = 0 /\ scol = 0 /\ spc # "scell"
  BY <1>1 DEF IInv, CoreType, Calling
<1> QED
  BY <1>2 DEF CellState, Inside, Rows, Cols

-----------------------------------------------------------------------------
\* A step that neither finishes a cell nor enters or leaves cell_fn.
LEMMA SameFinished ==
  ASSUME progress' = progress,
         \A v \in Workers : buf'[v].var = "progress" \/ buf[v].var = "progress"
                              => buf'[v] = buf[v]
  PROVE  \A r \in Rows : Finished(r)' = Finished(r)
  BY DEF Finished

\* The same of a cell's state: it is what the progress and the workers tell.
LEMMA SameCell ==
  ASSUME \A r \in Rows : Finished(r)' = Finished(r),
         srow' = srow, scol' = scol, (spc' = "scell") <=> (spc = "scell"),
         \A v \in Workers : pc'[v] = "cell" \/ pc[v] = "cell"
            => pc'[v] = pc[v] /\ row'[v] = row[v] /\ col'[v] = col[v]
  PROVE  Cell' = Cell
<1>1. \A r \in Rows, c \in Cols : CellState(r, c)' = CellState(r, c)
  BY DEF CellState
<1> QED
  BY <1>1 DEF Cell

-----------------------------------------------------------------------------
\* Entering cell_fn is an abstract Start.
Enter(w) ==
    /\ pc[w] \in Before \ {"cell"} /\ Satisfied(w)
    /\ pc' = [pc EXCEPT ![w] = "cell"]
    /\ UNCHANGED <<progress, buf, row, col, spc, srow, scol>>

\* When the neighbours' progress lets a worker in, the promise lets the cell start.
LEMMA EnterStarts ==
  ASSUME IInv, NEW w \in Workers, Enter(w)
  PROVE  Promise!Start(row[w], col[w])
<1> DEFINE R == row[w]
           C == col[w]
<1>1. R \in Rows /\ C \in Cols /\ pc[w] \in Before /\ pc[w] \in Holding
  BY DEF IInv, CoreType, Enter, Holding
<1>2. Finished(R) = C /\ \A r \in Rows : Finished(r) \in Nat /\ progress[r] <= Finished(r)
  BY <1>1, FinishedOf
<1>3. \A r \in Rows : Finished(r)' = Finished(r)
  BY SameFinished DEF Enter
<1>4. ~Inside(R, C)
  BY <1>1, ParallelCell DEF Inside, Enter, IInv, Ownership, Holding, Before
<1>5. CellState(R, C) = "todo"
  BY <1>1, <1>2, <1>4, ParallelCell DEF Cols
<1>6. \A d \in Cols : d < C => CellState(R, d) = "done"
  BY <1>1, <1>2, ParallelCell DEF Cols
<1>7. R > 0 => R - 1 \in Rows /\ \A d \in Cols : d <= C + 1 => CellState(R - 1, d) = "done"
  <2> SUFFICES ASSUME R > 0 PROVE R - 1 \in Rows /\ \A d \in Cols : d <= C + 1 => CellState(R - 1, d) = "done"
    OBVIOUS
  <2>1. R - 1 \in Rows
    BY <1>1, WavefrontAssumption DEF Rows
  <2>2. progress[R - 1] >= Need(C) /\ progress[R - 1] \in Int
    BY <2>1 DEF Enter, Satisfied, IInv, CoreType
  <2>3. \A d \in Cols : d <= C + 1 => d < Need(C)
    BY <1>1, WavefrontAssumption DEF Need, Cols
  <2>4. \A d \in Cols : d <= C + 1 => d < Finished(R - 1)
    BY <1>1, <1>2, <2>1, <2>2, <2>3, WavefrontAssumption DEF Need, Cols
  <2> QED
    BY <1>1, <2>1, <2>4, ParallelCell
<1>8. \A r \in Rows, c \in Cols :
        CellState(r, c)' = IF r = R /\ c = C THEN "running" ELSE CellState(r, c)
  <2>1. \A r \in Rows, c \in Cols : Inside(r, c)' <=> Inside(r, c) \/ (r = R /\ c = C)
    BY <1>1 DEF Inside, Enter, IInv, CoreType
  <2>2. srow = 0 /\ scol = 0 /\ srow' = 0 /\ scol' = 0
    BY <1>1, ParallelCell DEF Enter
  <2>3. \A r \in Rows, c \in Cols :
          CellState(r, c)' = IF c < Finished(r) THEN "done"
                             ELSE IF Inside(r, c)' THEN "running" ELSE "todo"
    BY <1>3, <2>2 DEF CellState, Inside, Rows, Cols
  <2>4. ~(C < Finished(R))
    BY <1>1, <1>2 DEF Cols
  <2> QED
    BY <1>1, <2>1, <2>3, <2>4, ParallelCell
<1>9. Cell' = [Cell EXCEPT ![R][C] = "running"]
  BY <1>1, <1>8 DEF Cell
<1>10. UNCHANGED Returned
  BY DEF Enter, Returned
<1> QED
  BY <1>1, <1>5, <1>6, <1>7, <1>9, <1>10
  DEF Promise!Start, Promise!NeighboursDone, Promise!Cols, Cell, Cols, Returned

\* The progress store is an abstract Finish.
LEMMA EndCellFinishes ==
  ASSUME IInv, NEW w \in Workers, EndCell(w)
  PROVE  Promise!Finish(row[w], col[w])
<1> DEFINE R == row[w]
           C == col[w]
<1>1. R \in Rows /\ C \in Cols /\ pc[w] = "cell" /\ pc[w] \in Before /\ pc[w] \in Holding
  BY DEF IInv, CoreType, EndCell, Holding, Before
<1>2. Finished(R) = C /\ progress[R] = C
  BY <1>1, FinishedOf DEF IInv, Publication
<1>3. buf' = [buf EXCEPT ![w] = ProgressStore(R, C + 1)] /\ progress' = progress
      /\ buf[w] = Empty
  BY DEF EndCell, Store, ProgressStore, job
<1>4. \A r \in Rows : Finished(r)' = IF r = R THEN C + 1 ELSE Finished(r)
  <2>1. buf'[w].var = "progress" /\ buf'[w].at = R
    BY <1>3 DEF ProgressStore, IInv, CoreType
  <2>2. \A v \in Workers : v # w => buf'[v] = buf[v]
    BY <1>3
  <2>3. buf[w].var # "progress"
    BY <1>3 DEF Empty
  <2> QED
    BY <1>2, <1>3, <2>1, <2>2, <2>3 DEF Finished
<1>5. Inside(R, C)
  BY <1>1 DEF Inside
<1>6. CellState(R, C) = "running"
  BY <1>1, <1>2, <1>5, ParallelCell DEF Cols
<1>7. \A r \in Rows, c \in Cols :
        CellState(r, c)' = IF r = R /\ c = C THEN "done" ELSE CellState(r, c)
  <2>1. srow = 0 /\ scol = 0 /\ spc # "scell" /\ UNCHANGED <<spc, srow, scol>>
    BY <1>1, ParallelCell DEF EndCell, sub
  <2>2. /\ pc'[w] # "cell" /\ row' = row /\ col' = col
        /\ \A v \in Workers : v # w => pc'[v] = pc[v]
    BY DEF EndCell, Goto, IInv, CoreType
  <2>3. \A r \in Rows, c \in Cols : Inside(r, c)' <=> Inside(r, c) /\ ~(r = R /\ c = C)
    BY <1>1, <2>1, <2>2 DEF Inside, IInv, Ownership, Holding, Before
  <2>4. \A r \in Rows, c \in Cols :
          CellState(r, c)' = IF c < Finished(r)' THEN "done"
                             ELSE IF Inside(r, c)' THEN "running" ELSE "todo"
    BY <2>1 DEF CellState, Inside, Rows, Cols
  <2>5. \A c \in Cols : c < C + 1 <=> c < C \/ c = C
    BY <1>1 DEF Cols
  <2> QED
    BY <1>1, <1>2, <1>4, <2>3, <2>4, <2>5, ParallelCell
<1>8. Cell' = [Cell EXCEPT ![R][C] = "done"]
  BY <1>1, <1>7 DEF Cell
<1>9. UNCHANGED Returned
  BY DEF EndCell, Returned, sub
<1> QED
  BY <1>1, <1>6, <1>8, <1>9 DEF Promise!Finish, Cell, Returned

-----------------------------------------------------------------------------
\* The store buffer delivers: nothing the caller could see.
LEMMA DrainStutters == ASSUME IInv, NEW w \in Workers, Drain(w) PROVE Cell' = Cell
<1>1. buf' = [buf EXCEPT ![w] = Empty] /\ buf \in [Workers -> Stores \cup {Empty}]
  BY DEF Drain, IInv, CoreType
<1>2. \A r \in Rows : Finished(r)' = Finished(r)
  <2>1. CASE buf[w].var = "progress"
    <3>1. /\ pc[w] = "fence" /\ pc[w] \in Holding /\ row[w] \in Rows
          /\ buf[w] = ProgressStore(row[w], col[w] + 1) /\ progress[row[w]] = col[w]
      BY <2>1 DEF IInv, CoreType, Publication, ProgressStore, Empty, Holding
    <3>2. progress' = [progress EXCEPT ![row[w]] = col[w] + 1]
      BY <3>1 DEF Drain, ProgressStore
    <3>3. \A v \in Workers : v # w /\ buf[v].var = "progress" => buf[v].at # row[w]
      BY <3>1, BufferedRow DEF IInv, Ownership, Holding
    <3>4. buf'[w].var # "progress" /\ \A v \in Workers : v # w => buf'[v] = buf[v]
      BY <1>1 DEF Empty
    <3>5. \A r \in Rows : r # row[w] => progress'[r] = progress[r]
      BY <3>2 DEF IInv, CoreType
    <3>6. progress'[row[w]] = col[w] + 1
      BY <3>1, <3>2 DEF IInv, CoreType
    <3> QED
      BY <3>1, <3>3, <3>4, <3>5, <3>6 DEF Finished, ProgressStore
  <2>2. CASE buf[w].var # "progress"
    <3>1. progress' = progress
      BY <2>2 DEF Drain
    <3> QED
      BY <1>1, <2>2, <3>1, SameFinished DEF Empty
  <2> QED
    BY <2>1, <2>2
<1> QED
  BY <1>2, SameCell DEF Drain, sub

\* A worker's step is a Start, a Finish or a stutter.
LEMMA WorkerRefines ==
  ASSUME IInv, NEW w \in Workers, Worker(w)
  PROVE  Promise!AbsNext \/ (Cell' = Cell /\ Returned' = Returned)
<1>1. spc' = spc /\ srow' = srow /\ scol' = scol /\ Returned' = Returned
  BY DEF Worker, Scan, Rescan, Wake, Claim, Look, Stall, WaitLoop, EndCell, LookWaiters,
     Broadcast, LookIdlers, StartWake, RowEnd, FastClaim, FastCount, CountRow, sub, Returned
<1>2. ASSUME Enter(w) PROVE Promise!AbsNext
  BY <1>2, EnterStarts DEF Promise!AbsNext, Promise!Rows, Promise!Cols, Rows, Cols, IInv, CoreType
<1>3. CASE EndCell(w)
  BY <1>3, EndCellFinishes
  DEF Promise!AbsNext, Promise!Rows, Promise!Cols, Rows, Cols, IInv, CoreType
<1>4. ASSUME progress' = progress, pc'[w] # "cell", pc[w] # "cell",
             \A v \in Workers : v # w => row'[v] = row[v] /\ col'[v] = col[v],
             \A v \in Workers : pc'[v] = "cell" \/ pc[v] = "cell" => pc'[v] = pc[v],
             \A v \in Workers : buf'[v].var = "progress" \/ buf[v].var = "progress"
                                  => buf'[v] = buf[v]
      PROVE  Cell' = Cell
  <2>1. \A r \in Rows : Finished(r)' = Finished(r)
    BY <1>4, SameFinished
  <2> QED
    BY <1>1, <1>4, <2>1, SameCell
<1> USE DEF Goto, IInv, CoreType
<1>5. CASE Look(w)
  <2>1. CASE Satisfied(w)
    BY <1>2, <1>5, <2>1 DEF Look, Enter, Before, job, sub
  <2>2. CASE ~Satisfied(w)
    BY <1>1, <1>4, <1>5, <2>2 DEF Look, job
  <2> QED
    BY <2>1, <2>2
<1>6. CASE Stall(w)
  <2>1. CASE Satisfied(w)
    BY <1>2, <1>6, <2>1 DEF Stall, Enter, Before, job, sub
  <2>2. CASE ~Satisfied(w)
    <3>1. buf[w] = Empty /\ buf' = [buf EXCEPT ![w] = WslotStore(row[w])]
      BY <1>6, <2>2 DEF Stall, Store, WslotStore
    <3>2. buf[w].var # "progress" /\ buf'[w].var # "progress"
          /\ \A v \in Workers : v # w => buf'[v] = buf[v]
      BY <3>1 DEF Empty, WslotStore
    <3> QED
      BY <1>1, <1>4, <1>6, <2>2, <3>2 DEF Stall, job
  <2> QED
    BY <2>1, <2>2
<1>7. CASE WaitLoop(w)
  <2>1. CASE Satisfied(w)
    BY <1>2, <1>7, <2>1 DEF WaitLoop, Enter, Before, job, sub
  <2>2. CASE ~Satisfied(w)
    BY <1>1, <1>4, <1>7, <2>2 DEF WaitLoop, job
  <2> QED
    BY <2>1, <2>2
<1>8. CASE Scan(w)
  <2>1. \/ buf' = buf
        \/ buf[w] = Empty /\ buf' = [buf EXCEPT ![w] = IdlersStore]
    BY <1>8 DEF Scan, RegisterIdler, Store, IdlersStore
  <2>2. \A v \in Workers : buf'[v].var = "progress" \/ buf[v].var = "progress"
                             => buf'[v] = buf[v]
    BY <2>1 DEF Empty, IdlersStore
  <2> QED
    BY <1>1, <1>4, <1>8, <2>2 DEF Scan, RegisterIdler, job
<1>9. CASE Rescan(w) \/ Wake(w) \/ Claim(w)
  BY <1>1, <1>4, <1>9 DEF Rescan, Wake, Claim, job
<1>10. CASE LookWaiters(w) \/ Broadcast(w)
  BY <1>1, <1>4, <1>10 DEF LookWaiters, Broadcast, job
<1>11. CASE LookIdlers(w) \/ StartWake(w)
  BY <1>1, <1>4, <1>11 DEF LookIdlers, StartWake, NextColumn, job
<1>12. CASE RowEnd(w) \/ FastClaim(w) \/ FastCount(w) \/ CountRow(w)
  BY <1>1, <1>4, <1>12 DEF RowEnd, FastClaim, FastCount, CountRow, job
<1> QED
  BY <1>3, <1>5, <1>6, <1>7, <1>8, <1>9, <1>10, <1>11, <1>12 DEF Worker

\* The submitter's steps: the return of the call, and the serial fallback.
LEMMA SubmitterRefines ==
  ASSUME IInv, Submitter
  PROVE  Promise!AbsNext \/ (Cell' = Cell /\ Returned' = Returned)
<1> USE DEF UNCHANGED_Workers
<1>1. UNCHANGED <<progress, pc, row, col, buf, done, next_row>>
  BY DEF Submitter, RegisterFails, Register, SerialCell, JobWait, Shutdown, Closed, job
<1>2. \A r \in Rows : Finished(r)' = Finished(r)
  BY <1>1, SameFinished
<1>3. ASSUME UNCHANGED <<srow, scol>>, (spc' = "scell") <=> (spc = "scell")
      PROVE  Cell' = Cell
  BY <1>1, <1>2, <1>3, SameCell
<1>4. ASSUME \A r \in Rows, c \in Cols : CellState(r, c) = "done",
             Returned', Cell' = Cell
      PROVE  Promise!AbsNext
  BY <1>4 DEF Promise!AbsNext, Promise!Return, Promise!Rows, Promise!Cols, Rows, Cols, Cell,
     Returned
<1>5. CASE RegisterFails \/ Register \/ Shutdown \/ Closed
  BY <1>3, <1>5 DEF RegisterFails, Register, Shutdown, Closed, Returned
<1>6. CASE JobWait
  <2>1. \A r \in Rows : Finished(r) = NCols
    BY <1>6, FinishedOf DEF JobWait
  <2>2. \A r \in Rows, c \in Cols : CellState(r, c) = "done"
    BY <2>1, WavefrontAssumption DEF CellState, Cols
  <2>3. Cell' = Cell /\ Returned'
    BY <1>3, <1>6 DEF JobWait, Returned
  <2> QED
    BY <1>4, <2>2, <2>3
<1>7. CASE SerialCell
  <2>1. spc \in {"serial", "scell"} /\ next_row = 0 /\ srow \in 0 .. NRows /\ scol \in Cols
    BY <1>7 DEF SerialCell, IInv, CoreType, Calling
  <2>2. \A r \in Rows : Finished(r) = 0
    BY <2>1, FinishedOf
  <2>3. \A w \in Workers : pc[w] # "cell"
    BY <2>1 DEF IInv, CoreType, Ownership, Holding, Before, Rows
  <2>4. \A r \in Rows, c \in Cols :
          CellState(r, c) = IF srow > r \/ (srow = r /\ scol > c) THEN "done"
                            ELSE IF spc = "scell" /\ srow = r /\ scol = c THEN "running"
                            ELSE "todo"
    BY <2>2, <2>3 DEF CellState, Rows, Cols
  <2>5. \A r \in Rows, c \in Cols :
          CellState(r, c)' = IF srow' > r \/ (srow' = r /\ scol' > c) THEN "done"
                             ELSE IF spc' = "scell" /\ srow' = r /\ scol' = c THEN "running"
                             ELSE "todo"
    BY <1>1, <1>2, <2>2, <2>3 DEF CellState, Rows, Cols
  <2>6. CASE spc = "serial" /\ srow < NRows
    <3>1. srow \in Rows /\ spc' = "scell" /\ UNCHANGED <<srow, scol>>
      BY <1>7, <2>1, <2>6, WavefrontAssumption DEF SerialCell, Rows
    <3>2. \A r \in Rows, c \in Cols :
            CellState(r, c)' = IF r = srow /\ c = scol THEN "running" ELSE CellState(r, c)
      BY <2>1, <2>4, <2>5, <2>6, <3>1 DEF Rows, Cols
    <3>3. Cell' = [Cell EXCEPT ![srow][scol] = "running"]
      BY <2>1, <3>1, <3>2 DEF Cell
    <3>4. CellState(srow, scol) = "todo"
      BY <2>1, <2>4, <2>6, <3>1 DEF Rows, Cols
    <3>5. \A d \in Cols : d < scol => CellState(srow, d) = "done"
      BY <2>1, <2>4, <3>1 DEF Rows, Cols
    <3>6. srow > 0 => srow - 1 \in Rows /\ \A d \in Cols : CellState(srow - 1, d) = "done"
      <4>1. srow > 0 => srow - 1 \in Rows /\ srow > srow - 1
        BY <3>1, WavefrontAssumption DEF Rows
      <4> QED
        BY <2>4, <4>1
    <3>7. UNCHANGED Returned
      BY <2>6, <3>1 DEF Returned
    <3>8. Promise!Start(srow, scol)
      BY <2>1, <3>1, <3>3, <3>4, <3>5, <3>6, <3>7
      DEF Promise!Start, Promise!NeighboursDone, Promise!Cols, Cell, Cols, Returned
    <3> QED
      BY <2>1, <3>1, <3>8 DEF Promise!AbsNext, Promise!Rows, Promise!Cols, Rows, Cols
  <2>7. CASE spc = "serial" /\ ~(srow < NRows)
    <3>1. srow = NRows /\ spc' = "joined" /\ UNCHANGED <<srow, scol>>
      BY <1>7, <2>1, <2>7, WavefrontAssumption DEF SerialCell
    <3>2. \A r \in Rows, c \in Cols : CellState(r, c) = "done"
      BY <2>4, <3>1, WavefrontAssumption DEF Rows
    <3>3. Cell' = Cell /\ Returned'
      BY <1>3, <2>7, <3>1 DEF Returned
    <3> QED
      BY <1>4, <3>2, <3>3
  <2>8. CASE spc = "scell"
    <3>1. /\ srow \in Rows /\ spc' = "serial"
          /\ IF scol + 1 < NCols THEN scol' = scol + 1 /\ srow' = srow
             ELSE scol' = 0 /\ srow' = srow + 1
      BY <1>7, <2>1, <2>8, WavefrontAssumption DEF SerialCell, IInv, Calling, Rows
    <3>2. \A r \in Rows, c \in Cols :
            CellState(r, c)' = IF r = srow /\ c = scol THEN "done" ELSE CellState(r, c)
      BY <2>1, <2>4, <2>5, <2>8, <3>1, WavefrontAssumption DEF Rows, Cols
    <3>3. Cell' = [Cell EXCEPT ![srow][scol] = "done"]
      BY <2>1, <3>1, <3>2 DEF Cell
    <3>4. CellState(srow, scol) = "running"
      BY <2>1, <2>4, <2>8, <3>1 DEF Rows, Cols
    <3>5. UNCHANGED Returned
      BY <2>8, <3>1 DEF Returned
    <3>6. Promise!Finish(srow, scol)
      BY <2>1, <3>1, <3>3, <3>4, <3>5 DEF Promise!Finish, Cell, Returned
    <3> QED
      BY <2>1, <3>1, <3>6 DEF Promise!AbsNext, Promise!Rows, Promise!Cols, Rows, Cols
  <2> QED
    BY <2>1, <2>6, <2>7, <2>8
<1> QED
  BY <1>5, <1>6, <1>7 DEF Submitter

-----------------------------------------------------------------------------
\* At the start no cell has been called for.
LEMMA InitRefines == Init => Promise!AbsInit
<1> SUFFICES ASSUME Init PROVE Promise!AbsInit
  OBVIOUS
<1>1. \A r \in Rows, c \in Cols : CellState(r, c) = "todo"
  BY WavefrontAssumption DEF Init, CellState, Finished, Empty, Rows, Cols
<1> QED
  BY <1>1 DEF Init, Promise!AbsInit, Promise!Rows, Promise!Cols, Rows, Cols

\* Every step of the pool is a step of the promise or none.
LEMMA NextRefines ==
  IInv /\ [Next]_vars => Promise!AbsNext \/ (Cell' = Cell /\ Returned' = Returned)
<1> SUFFICES ASSUME IInv, [Next]_vars
             PROVE  Promise!AbsNext \/ (Cell' = Cell /\ Returned' = Returned)
  OBVIOUS
<1>1. ASSUME NEW w \in Workers, Drain(w)
      PROVE  Cell' = Cell /\ Returned' = Returned
  BY <1>1, DrainStutters DEF Drain, sub, Returned
<1>2. ASSUME NEW w \in Workers, SpuriousWake(w)
      PROVE  Cell' = Cell /\ Returned' = Returned
  <2>1. \A r \in Rows : Finished(r)' = Finished(r)
    BY <1>2, SameFinished DEF SpuriousWake, job
  <2>2. \A v \in Workers : pc'[v] = "cell" \/ pc[v] = "cell" => pc'[v] = pc[v]
    BY <1>2 DEF SpuriousWake, Goto, IInv, CoreType
  <2> QED
    BY <1>2, <2>1, <2>2, SameCell DEF SpuriousWake, sub, Returned
<1>3. ASSUME UNCHANGED vars PROVE Cell' = Cell /\ Returned' = Returned
  <2>1. \A r \in Rows : Finished(r)' = Finished(r)
    BY <1>3, SameFinished DEF vars, job
  <2> QED
    BY <1>3, <2>1, SameCell DEF vars, sub, Returned
<1> QED
  BY <1>1, <1>2, <1>3, WorkerRefines, SubmitterRefines DEF Next, Gone

\* The pool keeps the promise of threadpool.h: cell_fn is called once per cell,
\* after the cell's left, top and top-right neighbours have returned, and the
\* call returns when every cell has.
THEOREM KeepsPromise == Spec => Implements
<1>1. IInv /\ [Next]_vars => [Promise!AbsNext]_<<Cell, Returned>>
  BY NextRefines
<1> QED
  BY Invariance, InitRefines, <1>1, PTL
  DEF Spec, Implements, Promise!AbsSpec, Cell, Returned
=============================================================================
