------------------------------ MODULE PoolProofs ------------------------------
(***************************************************************************)
(* The worker pool with several jobs at once, for any number of slots,     *)
(* workers, submitters and jobs: the slot of a row in hand is that of a    *)
(* live job, a claimed row is in the hands of exactly one worker until it  *)
(* is finished, and no wake-up is missing.                                 *)
(***************************************************************************)
EXTENDS Pool, FiniteSetTheorems, SequenceTheorems, WellFoundedInduction, TLAPS

-----------------------------------------------------------------------------
(* The inductive invariant.                                                 *)

Array(n, S) == [0 .. n - 1 -> S]
Arrays(S) == UNION {Array(n, S) : n \in Nat}

Jobs == [used : BOOLEAN, done : BOOLEAN, seq : Nat, next_row : Nat, rows_done : Nat,
         progress : Arrays(Nat), parked_need : Arrays(Nat),
         parked_owner : Arrays(Workers \cup {NoJob}),
         kind : {0, 1}, nrows : Nat \ {0}, ncols : 1 .. INT_MAX - 1, prio : BOOLEAN,
         parkable : BOOLEAN, gated : BOOLEAN]
Parked == [at : Slots, row : Nat \ {0}, col : Nat, need : Nat]

TypeOK ==
    /\ env \in Envs
    /\ job \in [Slots -> Jobs]
    /\ seq_next \in Nat /\ pub \in Nat
    /\ stack \in Seq(Workers)
    /\ kick \in BOOLEAN /\ shutdown \in BOOLEAN
    /\ pc \in [Workers -> Active \cup {"top", "sleep", "exit", "unit", "next", "bottom"}]
    /\ at \in [Workers -> Slots \cup {NoJob}]
    /\ row \in [Workers -> Nat] /\ col \in [Workers -> Nat]
    /\ run_seq \in [Workers -> Nat] /\ cur_seq \in [Workers -> Nat]
    /\ held \in [Workers -> SUBSET Parked]
    /\ spc \in [Submitters -> {"register", "slotwait", "join", "out"}]
    /\ call \in [Submitters -> Nat] /\ spec \in [Submitters -> Nat]
    /\ reg \in [Submitters -> Seq(Slots)]

\* A call that still has something to register knows what, one that joins has
\* something to join.
Calling(p) ==
    /\ spc[p] # "out" => call[p] \in DOMAIN env.plan[p] /\ spec[p] \in 1 .. Len(Specs(p)) + 1
    /\ spc[p] \in {"register", "slotwait"} => spec[p] <= Len(Specs(p))
    /\ spc[p] = "join" => reg[p] # << >>

\* The idle stack holds sleepers, each once.
Stacked ==
    /\ \A i \in 1 .. Len(stack) : pc[stack[i]] = "sleep"
    /\ \A i, j \in 1 .. Len(stack) : stack[i] = stack[j] => i = j
    /\ shutdown => stack = << >>

\* The rows of a wavefront that are claimed and not counted, the workers in a
\* unit of a parallel-for.
InHand(s) == {r \in 0 .. job[s].next_row - 1 : \E w \in Workers : r \in Owns(w, s)}
InUnit(s) == {w \in Workers : pc[w] = "unit" /\ at[w] = s}

\* A slot that was registered at least once: what is claimed is counted or in
\* hand, so that the job is done when nothing of it is left.
Entry(s) ==
    /\ job[s].progress \in Array(job[s].nrows, Nat)
    /\ job[s].parked_need \in Array(job[s].nrows, Nat)
    /\ job[s].parked_owner \in Array(job[s].nrows, Workers \cup {NoJob})
    /\ job[s].used \/ job[s].done
    /\ job[s].next_row <= job[s].nrows
    /\ job[s].done => job[s].rows_done = job[s].nrows
    /\ job[s].kind = 0 => job[s].rows_done + Cardinality(InHand(s)) = job[s].next_row
    /\ job[s].kind = 1 => job[s].rows_done + Cardinality(InUnit(s)) = job[s].next_row
    /\ \A r \in 0 .. job[s].nrows - 1 : r >= job[s].next_row => job[s].progress[r] = 0
    /\ ~env.park => \A r \in 0 .. job[s].nrows - 1 : job[s].parked_need[r] = INT_MAX
Tabled(s) ==
    /\ job[s].seq <= seq_next
    /\ job[s].seq = 0 => ~job[s].used /\ ~job[s].done
    /\ job[s].seq > 0 => Entry(s)
Table == \A s \in Slots : Tabled(s)

\* A worker in the row it claimed or resumed.
Before == {"run", "stall", "wait", "woken", "cell"}
InRow(w) ==
    LET j == job[at[w]] IN
    /\ at[w] \in Slots /\ j.kind = 0
    /\ j.used /\ ~j.done /\ j.seq = run_seq[w] /\ j.seq = cur_seq[w]
    /\ row[w] < j.next_row /\ col[w] < j.ncols
    /\ j.progress[row[w]] = IF pc[w] \in Before THEN col[w] ELSE col[w] + 1
    /\ pc[w] = "rowend" => col[w] + 1 = j.ncols
\* In a unit, or past one of a job that may have moved on.
InLoop(w) ==
    LET j == job[at[w]] IN
    /\ at[w] \in Slots
    /\ run_seq[w] > 0
    /\ j.seq = run_seq[w] => j.kind = 1
    /\ pc[w] = "unit" => j.used /\ ~j.done /\ j.seq = run_seq[w]
\* Holding a parked row: of a live job, and either waited for by the row above
\* or ready, with nobody asleep over it.
Holds(w, h) ==
    LET j == job[h.at] IN
    /\ j.kind = 0 /\ j.used /\ ~j.done
    /\ h.row < j.next_row /\ h.col < j.ncols /\ h.need <= j.ncols
    /\ j.progress[h.row] = h.col
    /\ j.parked_owner[h.row] = w
    /\ j.parked_need[h.row] # h.need => j.progress[h.row - 1] >= h.need /\ ~InStack(w)
Place(w) ==
    /\ run_seq[w] <= seq_next
    /\ pc[w] \in Active => InRow(w)
    /\ pc[w] \in {"unit", "next", "bottom"} => InLoop(w)
    /\ \A h \in held[w] : Holds(w, h)
    /\ \A h, g \in held[w] : h.at = g.at => h = g
    /\ pc[w] \in Active => at[w] \notin HeldJobs(w)
    /\ ~env.park => held[w] = {}
Places == \A w \in Workers : Place(w)

\* A claimed row is in at most one worker's hands, and in one until it is done.
Alone == \A v, w \in Workers, s \in Slots : v # w => Owns(v, s) \cap Owns(w, s) = {}
NotLost ==
    \A s \in Slots :
        job[s].seq > 0 /\ job[s].kind = 0 =>
            \A r \in 0 .. job[s].next_row - 1 :
                job[s].progress[r] < job[s].ncols => \E w \in Workers : r \in Owns(w, s)

\* Without parking: work that could be claimed, and a sleeper nobody has popped;
\* somebody who will look, or is about to wake one.
Wanted == (\E s \in Slots : Ready(s)) /\ stack # << >>
Herald(v) ==
    \/ pc[v] \in {"top", "start"}
    \/ pc[v] = "sleep" /\ ~InStack(v)
    \/ pc[v] \in {"notify", "poke"} /\ col[v] + 1 = StartNeed(at[v])
Coming == kick \/ \E v \in Workers : Herald(v)
Announced == ~env.park /\ Wanted => Coming

Safe == TypeOK /\ (\A p \in Submitters : Calling(p)) /\ Stacked /\ Table /\ Places /\ Alone /\ NotLost
IInv == Safe /\ Announced /\ ParkedRowPoked

-----------------------------------------------------------------------------
(* Facts.                                                                   *)

\* What a submitter registers is a job.
LEMMA PlanType ==
  ASSUME TypeOK, NEW p \in Submitters, Calling(p), spc[p] = "register"
  PROVE  Specs(p)[spec[p]] \in JobSpecs
<1>1. env \in Envs /\ spec[p] \in Nat /\ call[p] \in DOMAIN env.plan[p]
  BY DEF TypeOK, Calling
<1>2. env.plan[p] \in Seq(Seq(JobSpecs) \ {<< >>})
  BY <1>1, PoolAssumption
<1>3. Specs(p) \in Seq(JobSpecs)
  BY <1>1, <1>2 DEF Specs
<1>4. spec[p] \in 1 .. Len(Specs(p))
  BY <1>1 DEF Calling
<1> QED
  BY <1>3, <1>4

\* What the proofs use of INT_MAX.
LEMMA IntMax ==
  /\ INT_MAX \in Nat /\ 1 \in 1 .. INT_MAX - 1
  /\ \A n \in 1 .. INT_MAX - 1 : n \in Nat \ {0} /\ n < INT_MAX
<1>1. INT_MAX \in Nat /\ INT_MAX > 1
  BY SMT DEF INT_MAX
<1> QED
  BY <1>1

\* A non-empty set of naturals has a least element.
LEMMA LeastIn == ASSUME NEW V, V \subseteq Nat, V # {} PROVE \E v \in V : \A w \in V : v <= w
<1>1. PICK v \in V : \A w \in V : ~(<<w, v>> \in OpToRel(<, Nat))
  BY WFMin, NatLessThanWellFounded
<1>2. ASSUME NEW w \in V PROVE v <= w
  <2>1. w \in Nat /\ v \in Nat
    OBVIOUS
  <2>2. w < v => <<w, v>> \in OpToRel(<, Nat)
    BY <2>1, Zenon DEF OpToRel
  <2>3. ~(w < v)
    BY <1>1, <2>2, Zenon
  <2> QED
    BY <2>1, <2>3
<1> QED
  BY <1>2

\* The oldest of some jobs is one of them; a worker picks what is ready.
LEMMA OldestIn ==
  ASSUME TypeOK, NEW S \in SUBSET Slots, S # {}
  PROVE  Oldest(S) \in S
<1> DEFINE V == {job[s].seq : s \in S}
<1>1. \A s \in S : job[s].seq \in Nat
  BY DEF TypeOK, Jobs
<1>2. V \subseteq Nat /\ V # {}
  BY <1>1
<1>3. PICK x \in V : \A y \in V : x <= y
  <2> HIDE DEF V
  <2> QED
    BY <1>2, LeastIn
<1>4. PICK s \in S : job[s].seq = x
  OBVIOUS
<1>5. \A t \in S : job[s].seq <= job[t].seq
  BY <1>3, <1>4
<1> QED
  BY <1>5 DEF Oldest

LEMMA PickIn ==
  ASSUME TypeOK, NEW S \in SUBSET Slots, S # {}, NEW w \in Workers
  PROVE  PickFrom(S, w) \in S
<1> DEFINE hi == {s \in S : job[s].prio}
           aff == {s \in S : job[s].seq = cur_seq[w]}
<1>1. hi \in SUBSET Slots /\ aff \in SUBSET Slots
  OBVIOUS
<1>2. hi # {} => Oldest(hi) \in S
  <2>1. hi # {} => Oldest(hi) \in hi
    BY <1>1, OldestIn
  <2> QED
    BY <2>1
<1>3. aff # {} => Oldest(aff) \in S
  <2>1. aff # {} => Oldest(aff) \in aff
    BY <1>1, OldestIn
  <2> QED
    BY <2>1
<1>4. Oldest(S) \in S
  BY OldestIn
<1>5. PickFrom(S, w) = IF hi # {} THEN Oldest(hi) ELSE IF aff # {} THEN Oldest(aff)
                       ELSE IF S # {} THEN Oldest(S) ELSE NoJob
  BY DEF PickFrom
<1> HIDE DEF hi, aff
<1> QED
  BY <1>2, <1>3, <1>4, <1>5

\* The stack after a pop, a push and a removal.
LEMMA PoppedStack ==
  ASSUME NEW st \in Seq(Workers)
  PROVE  /\ Popped(st) \in Seq(Workers)
         /\ st # << >> => Len(Popped(st)) = Len(st) - 1
         /\ st = << >> => Popped(st) = << >>
         /\ \A i \in 1 .. Len(Popped(st)) : i \in 1 .. Len(st) - 1 /\ Popped(st)[i] = st[i]
<1>1. CASE st = << >>
  BY <1>1 DEF Popped
<1>2. CASE st # << >>
  <2>1. Len(st) \in Nat /\ Len(st) > 0
    BY <1>2
  <2> DEFINE n == Len(st) - 1
             q == SubSeq(st, 1, n)
  <2>2. Popped(st) = q
    BY <1>2 DEF Popped
  <2>3. n \in Nat /\ \A i \in 1 .. n : st[i] \in Workers
    BY <2>1
  <2>4. \A i \in 1 .. n : q[i] = st[i]
    BY <2>1
  <2>5. q \in Seq(Workers) /\ Len(q) = IF 1 <= n THEN n - 1 + 1 ELSE 0
    BY <2>3, SubSeqProperties
  <2> HIDE DEF q, n
  <2>6. Len(q) = n
    BY <2>3, <2>5
  <2> QED
    BY <1>2, <2>2, <2>4, <2>5, <2>6 DEF n
<1> QED
  BY <1>1, <1>2

LEMMA RemovedStack ==
  ASSUME NEW st \in Seq(Workers), NEW w,
         \A i, j \in 1 .. Len(st) : st[i] = st[j] => i = j
  PROVE  /\ StackRemove(st, w) \in Seq(Workers)
         /\ \A i \in 1 .. Len(StackRemove(st, w)) :
              /\ StackRemove(st, w)[i] # w
              /\ \E k \in 1 .. Len(st) : StackRemove(st, w)[i] = st[k]
         /\ \A i, j \in 1 .. Len(StackRemove(st, w)) :
              StackRemove(st, w)[i] = StackRemove(st, w)[j] => i = j
         /\ st = << >> => StackRemove(st, w) = << >>
<1>1. CASE ~\E i \in 1 .. Len(st) : st[i] = w
  BY <1>1 DEF StackRemove
<1>2. CASE \E i \in 1 .. Len(st) : st[i] = w
  <2> DEFINE i == CHOOSE n \in 1 .. Len(st) : st[n] = w
             n == Len(st)
             ex == [st EXCEPT ![i] = st[n]]
             R == SubSeq(ex, 1, n - 1)
  <2>1. i \in 1 .. n /\ st[i] = w
    BY <1>2
  <2>2. StackRemove(st, w) = R
    BY <1>2 DEF StackRemove
  <2>3. n \in Nat /\ n > 0 /\ st # << >>
    BY <2>1
  <2> HIDE DEF i
  <2>4. ex \in Seq(Workers) /\ Len(ex) = n
    BY <2>1, <2>3
  <2>5. \A k \in 1 .. n : ex[k] = IF k = i THEN st[n] ELSE st[k]
    BY <2>1
  <2> HIDE DEF ex
  <2>6. R \in Seq(Workers) /\ Len(R) = n - 1 /\ \A k \in 1 .. n - 1 : R[k] = ex[k]
    BY <2>3, <2>4
  <2>7. \A k \in 1 .. n - 1 : R[k] = IF k = i THEN st[n] ELSE st[k]
    BY <2>3, <2>5, <2>6
  <2> HIDE DEF R
  <2>8. \A k \in 1 .. n - 1 : R[k] # w /\ \E m \in 1 .. n : R[k] = st[m]
    BY <2>1, <2>3, <2>7
  <2>9. \A k, m \in 1 .. n - 1 : R[k] = R[m] => k = m
    BY <2>1, <2>3, <2>7
  <2> QED
    BY <2>2, <2>3, <2>6, <2>8, <2>9
<1> QED
  BY <1>1, <1>2

-----------------------------------------------------------------------------
(* What a handler writes in the job table.                                  *)

\* The slot's registration is the one it was.
SameJob(s) ==
    /\ job'[s].used = job[s].used /\ job'[s].seq = job[s].seq /\ job'[s].kind = job[s].kind
    /\ job'[s].nrows = job[s].nrows /\ job'[s].ncols = job[s].ncols
    /\ job'[s].gated = job[s].gated
SameRows(s) ==
    /\ job'[s].progress = job[s].progress /\ job'[s].parked_need = job[s].parked_need
    /\ job'[s].parked_owner = job[s].parked_owner
SameCounts(s) ==
    /\ job'[s].next_row = job[s].next_row /\ job'[s].rows_done = job[s].rows_done
    /\ job'[s].done = job[s].done
Elsewhere(s) == \A t \in Slots \ {s} : job'[t] = job[t]

\* The entry j of the table with the fields that handlers write.
With(j, u, d, n, q, pr, ne, ow) ==
    [used |-> u, done |-> d, seq |-> j.seq, next_row |-> n, rows_done |-> q, progress |-> pr,
     parked_need |-> ne, parked_owner |-> ow, kind |-> j.kind, nrows |-> j.nrows,
     ncols |-> j.ncols, prio |-> j.prio, parkable |-> j.parkable, gated |-> j.gated]
LEMMA WithIsJob ==
  ASSUME NEW j \in Jobs, NEW u \in BOOLEAN, NEW d \in BOOLEAN, NEW n \in Nat, NEW q \in Nat,
         NEW pr \in Arrays(Nat), NEW ne \in Arrays(Nat), NEW ow \in Arrays(Workers \cup {NoJob})
  PROVE  /\ With(j, u, d, n, q, pr, ne, ow) \in Jobs
         /\ j = With(j, j.used, j.done, j.next_row, j.rows_done, j.progress, j.parked_need,
                     j.parked_owner)
BY DEF With, Jobs

LEMMA JobTypes ==
  ASSUME TypeOK, NEW s \in Slots
  PROVE  /\ job[s] \in Jobs
         /\ job[s].used \in BOOLEAN /\ job[s].done \in BOOLEAN /\ job[s].seq \in Nat
         /\ job[s].next_row \in Nat /\ job[s].rows_done \in Nat
         /\ job[s].progress \in Arrays(Nat) /\ job[s].parked_need \in Arrays(Nat)
         /\ job[s].parked_owner \in Arrays(Workers \cup {NoJob})
         /\ job[s].kind \in {0, 1} /\ job[s].nrows \in Nat \ {0} /\ job[s].ncols \in Nat \ {0}
         /\ job[s].ncols < INT_MAX
         /\ job[s] = With(job[s], job[s].used, job[s].done, job[s].next_row, job[s].rows_done,
                          job[s].progress, job[s].parked_need, job[s].parked_owner)
<1>1. job[s] \in Jobs
  BY DEF TypeOK
<1>2. /\ job[s].used \in BOOLEAN /\ job[s].done \in BOOLEAN /\ job[s].seq \in Nat
      /\ job[s].next_row \in Nat /\ job[s].rows_done \in Nat
      /\ job[s].progress \in Arrays(Nat) /\ job[s].parked_need \in Arrays(Nat)
      /\ job[s].parked_owner \in Arrays(Workers \cup {NoJob})
      /\ job[s].kind \in {0, 1} /\ job[s].nrows \in Nat \ {0} /\ job[s].ncols \in 1 .. INT_MAX - 1
  BY <1>1 DEF Jobs
<1>3. job[s].ncols \in Nat \ {0} /\ job[s].ncols < INT_MAX
  <2>1. \A n \in 1 .. INT_MAX - 1 : n \in Nat \ {0} /\ n < INT_MAX
    BY IntMax
  <2>2. job[s].ncols \in 1 .. INT_MAX - 1
    BY <1>2
  <2> QED
    BY <2>1, <2>2
<1>4. job[s] = With(job[s], job[s].used, job[s].done, job[s].next_row, job[s].rows_done,
                    job[s].progress, job[s].parked_need, job[s].parked_owner)
  BY <1>1 DEF With, Jobs
<1> QED
  BY <1>1, <1>2, <1>3, <1>4, Zenon

LEMMA WroteNextRow ==
  ASSUME TypeOK, NEW s \in Slots, job' = [job EXCEPT ![s].next_row = @ + 1]
  PROVE  /\ job' \in [Slots -> Jobs] /\ Elsewhere(s) /\ SameJob(s) /\ SameRows(s)
         /\ job'[s].next_row = job[s].next_row + 1 /\ job'[s].rows_done = job[s].rows_done
         /\ job'[s].done = job[s].done
<1>1. job[s] \in Jobs /\ job \in [Slots -> Jobs]
  BY DEF TypeOK
<1>2. job' = [job EXCEPT ![s] = job'[s]] /\ Elsewhere(s)
  BY <1>1 DEF Elsewhere
<1>3. job'[s] = [job[s] EXCEPT !.next_row = job[s].next_row + 1]
  BY <1>1
<1>4. job[s] = With(job[s], job[s].used, job[s].done, job[s].next_row, job[s].rows_done,
                            job[s].progress, job[s].parked_need, job[s].parked_owner)
  BY JobTypes
<1>5. job'[s] = With(job[s], job[s].used, job[s].done, job[s].next_row + 1, job[s].rows_done,
                            job[s].progress, job[s].parked_need, job[s].parked_owner)
  BY <1>3, <1>4 DEF With
<1>6. job'[s] \in Jobs
  BY <1>1, <1>5 DEF With, Jobs
<1>7. job' \in [Slots -> Jobs]
  BY <1>1, <1>2, <1>6
<1> QED
  BY <1>2, <1>5, <1>7 DEF With, SameJob, SameRows, SameCounts

LEMMA WroteRowsDone ==
  ASSUME TypeOK, NEW s \in Slots, job' = [job EXCEPT ![s].rows_done = @ + 1]
  PROVE  /\ job' \in [Slots -> Jobs] /\ Elsewhere(s) /\ SameJob(s) /\ SameRows(s)
         /\ job'[s].rows_done = job[s].rows_done + 1 /\ job'[s].next_row = job[s].next_row
         /\ job'[s].done = job[s].done
<1>1. job[s] \in Jobs /\ job \in [Slots -> Jobs]
  BY DEF TypeOK
<1>2. job' = [job EXCEPT ![s] = job'[s]] /\ Elsewhere(s)
  BY <1>1 DEF Elsewhere
<1>3. job'[s] = [job[s] EXCEPT !.rows_done = job[s].rows_done + 1]
  BY <1>1
<1>4. job[s] = With(job[s], job[s].used, job[s].done, job[s].next_row, job[s].rows_done,
                            job[s].progress, job[s].parked_need, job[s].parked_owner)
  BY JobTypes
<1>5. job'[s] = With(job[s], job[s].used, job[s].done, job[s].next_row, job[s].rows_done + 1,
                            job[s].progress, job[s].parked_need, job[s].parked_owner)
  BY <1>3, <1>4 DEF With
<1>6. job'[s] \in Jobs
  BY <1>1, <1>5 DEF With, Jobs
<1>7. job' \in [Slots -> Jobs]
  BY <1>1, <1>2, <1>6
<1> QED
  BY <1>2, <1>5, <1>7 DEF With, SameJob, SameRows, SameCounts

LEMMA WroteRowEnd ==
  ASSUME TypeOK, NEW s \in Slots,
         job' = [job EXCEPT ![s].rows_done = @ + 1,
                            ![s].done = job[s].rows_done + 1 = job[s].nrows]
  PROVE  /\ job' \in [Slots -> Jobs] /\ Elsewhere(s) /\ SameJob(s) /\ SameRows(s)
         /\ job'[s].rows_done = job[s].rows_done + 1 /\ job'[s].next_row = job[s].next_row
         /\ job'[s].done = (job[s].rows_done + 1 = job[s].nrows)
<1> DEFINE v == (job[s].rows_done + 1 = job[s].nrows)
<1>1. v \in BOOLEAN
  OBVIOUS
<1>2. job[s] \in Jobs /\ job \in [Slots -> Jobs]
  BY DEF TypeOK
<1>3. job' = [job EXCEPT ![s] = job'[s]] /\ Elsewhere(s)
  BY <1>2 DEF Elsewhere
<1>4. job'[s] = [[job[s] EXCEPT !.rows_done = job[s].rows_done + 1] EXCEPT !.done = v]
  BY <1>2
<1> HIDE DEF v
<1>5. job[s] = With(job[s], job[s].used, job[s].done, job[s].next_row, job[s].rows_done,
                            job[s].progress, job[s].parked_need, job[s].parked_owner)
  BY JobTypes
<1>6. [job[s] EXCEPT !.rows_done = job[s].rows_done + 1] = With(job[s], job[s].used, job[s].done, job[s].next_row, job[s].rows_done + 1,
                            job[s].progress, job[s].parked_need, job[s].parked_owner)
  BY <1>5 DEF With
<1>7. job'[s] = [With(job[s], job[s].used, job[s].done, job[s].next_row, job[s].rows_done + 1,
                            job[s].progress, job[s].parked_need, job[s].parked_owner) EXCEPT !.done = v]
  BY <1>4, <1>6
<1>8. job'[s] = With(job[s], job[s].used, v, job[s].next_row, job[s].rows_done + 1,
                            job[s].progress, job[s].parked_need, job[s].parked_owner)
  BY <1>7 DEF With
<1>9. job'[s] \in Jobs
  BY <1>2, <1>8, <1>1 DEF With, Jobs
<1>10. job' \in [Slots -> Jobs]
  BY <1>2, <1>3, <1>9
<1> QED
  BY <1>3, <1>8, <1>10 DEF v, With, SameJob, SameRows, SameCounts

LEMMA WroteDone ==
  ASSUME TypeOK, NEW s \in Slots, job' = [job EXCEPT ![s].done = TRUE]
  PROVE  /\ job' \in [Slots -> Jobs] /\ Elsewhere(s) /\ SameJob(s) /\ SameRows(s)
         /\ job'[s].rows_done = job[s].rows_done /\ job'[s].next_row = job[s].next_row
         /\ job'[s].done
<1> DEFINE v == TRUE
<1>1. v \in BOOLEAN
  OBVIOUS
<1>2. job[s] \in Jobs /\ job \in [Slots -> Jobs]
  BY DEF TypeOK
<1>3. job' = [job EXCEPT ![s] = job'[s]] /\ Elsewhere(s)
  BY <1>2 DEF Elsewhere
<1>4. job'[s] = [job[s] EXCEPT !.done = v]
  BY <1>2
<1> HIDE DEF v
<1>5. job[s] = With(job[s], job[s].used, job[s].done, job[s].next_row, job[s].rows_done,
                            job[s].progress, job[s].parked_need, job[s].parked_owner)
  BY JobTypes
<1>6. job'[s] = With(job[s], job[s].used, v, job[s].next_row, job[s].rows_done,
                            job[s].progress, job[s].parked_need, job[s].parked_owner)
  BY <1>4, <1>5 DEF With
<1>7. job'[s] \in Jobs
  BY <1>2, <1>6, <1>1 DEF With, Jobs
<1>8. job' \in [Slots -> Jobs]
  BY <1>2, <1>3, <1>7
<1> QED
  BY <1>3, <1>6, <1>8 DEF v, With, SameJob, SameRows, SameCounts

LEMMA WroteUnused ==
  ASSUME TypeOK, NEW s \in Slots, job' = [job EXCEPT ![s].used = FALSE]
  PROVE  /\ job' \in [Slots -> Jobs] /\ Elsewhere(s) /\ SameRows(s) /\ SameCounts(s)
         /\ ~job'[s].used /\ job'[s].seq = job[s].seq /\ job'[s].kind = job[s].kind
         /\ job'[s].nrows = job[s].nrows /\ job'[s].ncols = job[s].ncols
         /\ job'[s].gated = job[s].gated
<1> DEFINE v == FALSE
<1>1. v \in BOOLEAN
  OBVIOUS
<1>2. job[s] \in Jobs /\ job \in [Slots -> Jobs]
  BY DEF TypeOK
<1>3. job' = [job EXCEPT ![s] = job'[s]] /\ Elsewhere(s)
  BY <1>2 DEF Elsewhere
<1>4. job'[s] = [job[s] EXCEPT !.used = v]
  BY <1>2
<1> HIDE DEF v
<1>5. job[s] = With(job[s], job[s].used, job[s].done, job[s].next_row, job[s].rows_done,
                            job[s].progress, job[s].parked_need, job[s].parked_owner)
  BY JobTypes
<1>6. job'[s] = With(job[s], v, job[s].done, job[s].next_row, job[s].rows_done,
                            job[s].progress, job[s].parked_need, job[s].parked_owner)
  BY <1>4, <1>5 DEF With
<1>7. job'[s] \in Jobs
  BY <1>2, <1>6, <1>1 DEF With, Jobs
<1>8. job' \in [Slots -> Jobs]
  BY <1>2, <1>3, <1>7
<1> QED
  BY <1>3, <1>6, <1>8 DEF v, With, SameJob, SameRows, SameCounts

LEMMA WroteProgress ==
  ASSUME TypeOK, NEW s \in Slots,
         job[s].progress \in Array(job[s].nrows, Nat),
         NEW r \in 0 .. job[s].nrows - 1, NEW n \in Nat,
         job' = [job EXCEPT ![s].progress[r] = n]
  PROVE  /\ job' \in [Slots -> Jobs] /\ Elsewhere(s) /\ SameJob(s) /\ SameCounts(s)
         /\ job'[s].parked_need = job[s].parked_need
         /\ job'[s].parked_owner = job[s].parked_owner
         /\ job'[s].progress = [job[s].progress EXCEPT ![r] = n]
         /\ job'[s].progress \in Array(job[s].nrows, Nat)
<1> DEFINE a == [job[s].progress EXCEPT ![r] = n]
<1>1. a \in Array(job[s].nrows, Nat) /\ a \in Arrays(Nat)
  <2>1. a \in Array(job[s].nrows, Nat)
    BY DEF Array
  <2>2. job[s].nrows \in Nat
    BY JobTypes
  <2> QED
    BY <2>1, <2>2 DEF Arrays
<1>2. job[s] \in Jobs /\ job \in [Slots -> Jobs]
  BY DEF TypeOK
<1>3. job' = [job EXCEPT ![s] = job'[s]] /\ Elsewhere(s)
  BY <1>2 DEF Elsewhere
<1>4. job'[s] = [job[s] EXCEPT !.progress = a]
  BY <1>2
<1> HIDE DEF a
<1>5. job[s] = With(job[s], job[s].used, job[s].done, job[s].next_row, job[s].rows_done,
                            job[s].progress, job[s].parked_need, job[s].parked_owner)
  BY JobTypes
<1>6. job'[s] = With(job[s], job[s].used, job[s].done, job[s].next_row, job[s].rows_done,
                            a, job[s].parked_need, job[s].parked_owner)
  BY <1>4, <1>5 DEF With
<1>7. job'[s] \in Jobs
  BY <1>2, <1>6, <1>1 DEF With, Jobs
<1>8. job' \in [Slots -> Jobs]
  BY <1>2, <1>3, <1>7
<1>9. /\ SameJob(s) /\ SameCounts(s)
         /\ job'[s].parked_need = job[s].parked_need
         /\ job'[s].parked_owner = job[s].parked_owner
      /\ job'[s].progress = a
  BY <1>6 DEF With, SameJob, SameCounts
<1> QED
  BY <1>1, <1>3, <1>8, <1>9 DEF a

LEMMA WroteNeed ==
  ASSUME TypeOK, NEW s \in Slots,
         job[s].parked_need \in Array(job[s].nrows, Nat),
         NEW r \in 0 .. job[s].nrows - 1, NEW n \in Nat,
         job' = [job EXCEPT ![s].parked_need[r] = n]
  PROVE  /\ job' \in [Slots -> Jobs] /\ Elsewhere(s) /\ SameJob(s) /\ SameCounts(s)
         /\ job'[s].progress = job[s].progress
         /\ job'[s].parked_owner = job[s].parked_owner
         /\ job'[s].parked_need = [job[s].parked_need EXCEPT ![r] = n]
         /\ job'[s].parked_need \in Array(job[s].nrows, Nat)
<1> DEFINE a == [job[s].parked_need EXCEPT ![r] = n]
<1>1. a \in Array(job[s].nrows, Nat) /\ a \in Arrays(Nat)
  <2>1. a \in Array(job[s].nrows, Nat)
    BY DEF Array
  <2>2. job[s].nrows \in Nat
    BY JobTypes
  <2> QED
    BY <2>1, <2>2 DEF Arrays
<1>2. job[s] \in Jobs /\ job \in [Slots -> Jobs]
  BY DEF TypeOK
<1>3. job' = [job EXCEPT ![s] = job'[s]] /\ Elsewhere(s)
  BY <1>2 DEF Elsewhere
<1>4. job'[s] = [job[s] EXCEPT !.parked_need = a]
  BY <1>2
<1> HIDE DEF a
<1>5. job[s] = With(job[s], job[s].used, job[s].done, job[s].next_row, job[s].rows_done,
                            job[s].progress, job[s].parked_need, job[s].parked_owner)
  BY JobTypes
<1>6. job'[s] = With(job[s], job[s].used, job[s].done, job[s].next_row, job[s].rows_done,
                            job[s].progress, a, job[s].parked_owner)
  BY <1>4, <1>5 DEF With
<1>7. job'[s] \in Jobs
  BY <1>2, <1>6, <1>1 DEF With, Jobs
<1>8. job' \in [Slots -> Jobs]
  BY <1>2, <1>3, <1>7
<1>9. /\ SameJob(s) /\ SameCounts(s)
         /\ job'[s].progress = job[s].progress
         /\ job'[s].parked_owner = job[s].parked_owner
      /\ job'[s].parked_need = a
  BY <1>6 DEF With, SameJob, SameCounts
<1> QED
  BY <1>1, <1>3, <1>8, <1>9 DEF a

LEMMA WrotePark ==
  ASSUME TypeOK, NEW s \in Slots,
         job[s].parked_need \in Array(job[s].nrows, Nat),
         job[s].parked_owner \in Array(job[s].nrows, Workers \cup {NoJob}), NEW w \in Workers,
         NEW r \in 0 .. job[s].nrows - 1, NEW n \in Nat,
         job' = [job EXCEPT ![s].parked_owner[r] = w, ![s].parked_need[r] = n]
  PROVE  /\ job' \in [Slots -> Jobs] /\ Elsewhere(s) /\ SameJob(s) /\ SameCounts(s)
         /\ job'[s].progress = job[s].progress
         /\ job'[s].parked_need = [job[s].parked_need EXCEPT ![r] = n]
         /\ job'[s].parked_need \in Array(job[s].nrows, Nat)
         /\ job'[s].parked_owner = [job[s].parked_owner EXCEPT ![r] = w]
         /\ job'[s].parked_owner \in Array(job[s].nrows, Workers \cup {NoJob})
<1> DEFINE a == [job[s].parked_need EXCEPT ![r] = n]
           b == [job[s].parked_owner EXCEPT ![r] = w]
<1>1. a \in Array(job[s].nrows, Nat) /\ a \in Arrays(Nat)
  <2>1. a \in Array(job[s].nrows, Nat)
    BY DEF Array
  <2>2. job[s].nrows \in Nat
    BY JobTypes
  <2> QED
    BY <2>1, <2>2 DEF Arrays
<1>2. b \in Array(job[s].nrows, Workers \cup {NoJob}) /\ b \in Arrays(Workers \cup {NoJob})
  <2>1. b \in Array(job[s].nrows, Workers \cup {NoJob})
    BY DEF Array
  <2>2. job[s].nrows \in Nat
    BY JobTypes
  <2> QED
    BY <2>1, <2>2 DEF Arrays
<1>3. job[s] \in Jobs /\ job \in [Slots -> Jobs]
  BY DEF TypeOK
<1>4. job' = [job EXCEPT ![s] = job'[s]] /\ Elsewhere(s)
  BY <1>3 DEF Elsewhere
<1>5. job'[s] = [[job[s] EXCEPT !.parked_owner = b] EXCEPT !.parked_need = a]
  BY <1>3
<1> HIDE DEF a, b
<1>6. job[s] = With(job[s], job[s].used, job[s].done, job[s].next_row, job[s].rows_done,
                            job[s].progress, job[s].parked_need, job[s].parked_owner)
  BY JobTypes
<1>7. [job[s] EXCEPT !.parked_owner = b] = With(job[s], job[s].used, job[s].done, job[s].next_row, job[s].rows_done,
                            job[s].progress, job[s].parked_need, b)
  BY <1>6 DEF With
<1>8. job'[s] = [With(job[s], job[s].used, job[s].done, job[s].next_row, job[s].rows_done,
                            job[s].progress, job[s].parked_need, b) EXCEPT !.parked_need = a]
  BY <1>5, <1>7
<1>9. job'[s] = With(job[s], job[s].used, job[s].done, job[s].next_row, job[s].rows_done,
                            job[s].progress, a, b)
  BY <1>8 DEF With
<1>10. job'[s] \in Jobs
  BY <1>3, <1>9, <1>1, <1>2 DEF With, Jobs
<1>11. job' \in [Slots -> Jobs]
  BY <1>3, <1>4, <1>10
<1>12. /\ SameJob(s) /\ SameCounts(s)
       /\ job'[s].progress = job[s].progress
       /\ job'[s].parked_need = a /\ job'[s].parked_owner = b
  <2>1. SameJob(s)
    BY <1>9 DEF With, SameJob
  <2>2. SameCounts(s)
    BY <1>9 DEF With, SameCounts
  <2>3. /\ job'[s].progress = job[s].progress
        /\ job'[s].parked_need = a /\ job'[s].parked_owner = b
    BY ONLY <1>9 DEF With
  <2> QED
    BY <2>1, <2>2, <2>3
<1>13. /\ job'[s].parked_need \in Array(job[s].nrows, Nat)
       /\ job'[s].parked_owner \in Array(job[s].nrows, Workers \cup {NoJob})
  BY <1>1, <1>2, <1>12
<1>14. /\ job'[s].parked_need = [job[s].parked_need EXCEPT ![r] = n]
       /\ job'[s].parked_owner = [job[s].parked_owner EXCEPT ![r] = w]
  BY <1>12, Zenon DEF a, b
<1> QED
  BY <1>4, <1>11, <1>12, <1>13, <1>14

LEMMA WroteRegistered ==
  ASSUME TypeOK, NEW s \in Slots, NEW x \in JobSpecs, job' = [job EXCEPT ![s] = Registered(x)]
  PROVE  /\ job' \in [Slots -> Jobs] /\ Elsewhere(s)
         /\ job'[s].progress = [r \in 0 .. job'[s].nrows - 1 |-> 0]
         /\ job'[s].parked_need = [r \in 0 .. job'[s].nrows - 1 |-> INT_MAX]
         /\ job'[s].parked_owner = [r \in 0 .. job'[s].nrows - 1 |-> NoJob]
         /\ job'[s].used /\ ~job'[s].done /\ job'[s].seq = seq_next + 1
         /\ job'[s].next_row = 0 /\ job'[s].rows_done = 0
<1> DEFINE a == [r \in 0 .. x.nrows - 1 |-> 0]
           b == [r \in 0 .. x.nrows - 1 |-> INT_MAX]
           c == [r \in 0 .. x.nrows - 1 |-> NoJob]
<1>1. x.nrows \in Nat \ {0} /\ x.ncols \in 1 .. INT_MAX - 1 /\ x.kind \in {0, 1}
  BY DEF JobSpecs
<1>2. x.prio \in BOOLEAN /\ x.parkable \in BOOLEAN /\ x.gated \in BOOLEAN
  BY DEF JobSpecs
<1>3. /\ a \in Array(x.nrows, Nat) /\ b \in Array(x.nrows, Nat)
      /\ c \in Array(x.nrows, Workers \cup {NoJob})
  BY <1>1, IntMax DEF Array
<1>4. /\ a \in Arrays(Nat) /\ b \in Arrays(Nat) /\ c \in Arrays(Workers \cup {NoJob})
  BY <1>1, <1>3 DEF Arrays
<1>5. Registered(x) =
        [used |-> TRUE, done |-> FALSE, seq |-> seq_next + 1, next_row |-> 0, rows_done |-> 0,
         progress |-> a, parked_need |-> b, parked_owner |-> c,
         kind |-> x.kind, nrows |-> x.nrows, ncols |-> x.ncols, prio |-> x.prio,
         parkable |-> x.parkable, gated |-> x.gated]
  BY DEF Registered
<1>6. job'[s] = Registered(x) /\ Elsewhere(s) /\ DOMAIN job' = Slots
  BY DEF TypeOK, Elsewhere
<1>7. job' = [job EXCEPT ![s] = Registered(x)]
  OBVIOUS
<1> HIDE DEF a, b, c
<1>8. Registered(x) \in Jobs
  BY <1>1, <1>2, <1>4, <1>5 DEF Jobs, TypeOK
<1>9. job' \in [Slots -> Jobs]
  BY <1>7, <1>8 DEF TypeOK
<1>10. job'[s].nrows = x.nrows
  BY <1>5, <1>6
<1>11. /\ job'[s].progress = a /\ job'[s].parked_need = b /\ job'[s].parked_owner = c
       /\ job'[s].used /\ ~job'[s].done /\ job'[s].seq = seq_next + 1
       /\ job'[s].next_row = 0 /\ job'[s].rows_done = 0
  BY <1>5, <1>6
<1> QED
  BY <1>6, <1>9, <1>10, <1>11 DEF a, b, c

-----------------------------------------------------------------------------
(* What a step leaves alone.                                                *)

\* A worker the step does not move, but perhaps wakes from its wait for a row.
Bystander(v) ==
    /\ at'[v] = at[v] /\ row'[v] = row[v] /\ col'[v] = col[v]
    /\ run_seq'[v] = run_seq[v] /\ cur_seq'[v] = cur_seq[v] /\ held'[v] = held[v]
    /\ pc'[v] = pc[v] \/ (pc[v] = "wait" /\ pc'[v] = "woken")

\* The slot a worker is in, or holds a row of, goes on.
Busy(v, s) == (pc[v] \in Active \cup {"unit"} /\ at[v] = s) \/ s \in HeldJobs(v)
GoesOn(s) ==
    /\ job'[s].used = job[s].used /\ job'[s].done = job[s].done /\ job'[s].seq = job[s].seq
    /\ job'[s].kind = job[s].kind /\ job'[s].nrows = job[s].nrows
    /\ job'[s].ncols = job[s].ncols /\ job'[s].next_row >= job[s].next_row

\* The rows of a worker the step leaves alone, what it stored of them, and what
\* its parked ones wait for.
WaitKept(v, h) ==
    /\ job'[h.at].progress[h.row] = job[h.at].progress[h.row]
    /\ job'[h.at].parked_owner[h.row] = job[h.at].parked_owner[h.row]
    /\ job'[h.at].progress[h.row - 1] \in Nat
    /\ job'[h.at].progress[h.row - 1] >= job[h.at].progress[h.row - 1]
    /\ \/ job'[h.at].parked_need[h.row] = job[h.at].parked_need[h.row]
       \/ job'[h.at].progress[h.row - 1] >= h.need /\ ~InStack(v)'
RowsKept(v) ==
    /\ pc[v] \in Active => job'[at[v]].progress[row[v]] = job[at[v]].progress[row[v]]
    /\ \A h \in held[v] : WaitKept(v, h)

LEMMA OwnsKept ==
  ASSUME NEW v \in Workers, Bystander(v), NEW s
  PROVE  Owns(v, s)' = Owns(v, s)
BY DEF Bystander, Owns, Active

LEMMA HoldsKept ==
  ASSUME TypeOK, job' \in [Slots -> Jobs], NEW v \in Workers, NEW h \in held[v], Holds(v, h),
         job[h.at].seq > 0 => Entry(h.at), job[h.at].used => job[h.at].seq > 0,
         GoesOn(h.at), WaitKept(v, h), InStack(v)' => InStack(v)
  PROVE  Holds(v, h)'
<1> DEFINE s == h.at
<1>1. s \in Slots /\ h.row \in Nat \ {0} /\ h.col \in Nat /\ h.need \in Nat
  BY DEF TypeOK, Parked
<1>2. /\ job[s].kind = 0 /\ job[s].used /\ ~job[s].done
      /\ h.row < job[s].next_row /\ h.col < job[s].ncols /\ h.need <= job[s].ncols
      /\ job[s].progress[h.row] = h.col /\ job[s].parked_owner[h.row] = v
      /\ job[s].parked_need[h.row] # h.need =>
           job[s].progress[h.row - 1] >= h.need /\ ~InStack(v)
  BY DEF Holds
<1>5. /\ job[s].next_row \in Nat /\ job'[s].next_row \in Nat /\ job[s].nrows \in Nat
  BY <1>1, JobTypes DEF Jobs
<1>6. Entry(s)
  BY <1>2
<1>7. /\ job'[s].progress[h.row] = h.col /\ job'[s].parked_owner[h.row] = v
      /\ job'[s].progress[h.row - 1] \in Nat
      /\ job'[s].progress[h.row - 1] >= job[s].progress[h.row - 1]
      /\ \/ job'[s].parked_need[h.row] = job[s].parked_need[h.row]
         \/ job'[s].progress[h.row - 1] >= h.need /\ ~InStack(v)'
  BY <1>2 DEF WaitKept
<1>8. /\ job'[s].used /\ ~job'[s].done /\ job'[s].kind = 0 /\ job'[s].ncols = job[s].ncols
      /\ job'[s].next_row >= job[s].next_row
  BY <1>2 DEF GoesOn
<1> HIDE DEF s
<1>9. h.row < job'[s].next_row
  BY <1>1, <1>2, <1>5, <1>8
<1>10. job[s].progress[h.row - 1] \in Nat
  <2>1. job[s].progress \in [0 .. job[s].nrows - 1 -> Nat] /\ job[s].next_row <= job[s].nrows
    BY <1>6 DEF Entry, Array
  <2>2. h.row - 1 \in 0 .. job[s].nrows - 1
    BY <1>1, <1>2, <1>5, <2>1
  <2> QED
    BY <2>1, <2>2
<1>11. job[s].progress[h.row - 1] >= h.need => job'[s].progress[h.row - 1] >= h.need
  <2> DEFINE x == job[s].progress[h.row - 1]
             y == job'[s].progress[h.row - 1]
  <2>1. x \in Nat /\ y \in Nat /\ y >= x /\ h.need \in Nat
    BY <1>1, <1>7, <1>10
  <2> HIDE DEF x, y
  <2>2. x >= h.need => y >= h.need
    BY <2>1
  <2> QED
    BY <2>2 DEF x, y
<1>12. job'[s].parked_need[h.row] # h.need => job'[s].progress[h.row - 1] >= h.need /\ ~InStack(v)'
  BY <1>2, <1>7, <1>11
<1> QED
  BY <1>2, <1>7, <1>8, <1>9, <1>12 DEF Holds, s

\* A worker's place, from what is said of its row by itself.
LEMMA PlaceFrom ==
  ASSUME TypeOK, job' \in [Slots -> Jobs], NEW v \in Workers, Place(v), env' = env,
         seq_next' \in Nat, seq_next' >= seq_next, run_seq'[v] = run_seq[v],
         held'[v] = held[v], at'[v] = at[v],
         \A s \in Slots : job[s].seq > 0 => Entry(s),
         \A s \in Slots : job[s].used => job[s].seq > 0,
         \A h \in held[v] : GoesOn(h.at) /\ WaitKept(v, h),
         InStack(v)' => InStack(v),
         pc'[v] \in Active => pc[v] \in Active /\ InRow(v)',
         pc'[v] \in {"unit", "next", "bottom"} => InLoop(v)'
  PROVE  Place(v)'
<1>1. (run_seq[v] <= seq_next)'
  <2>1. run_seq[v] <= seq_next /\ run_seq[v] \in Nat /\ seq_next \in Nat
    BY DEF Place, TypeOK
  <2> QED
    BY <2>1
<1>2. (\A h \in held[v] : Holds(v, h))'
  <2> SUFFICES ASSUME NEW h \in held'[v] PROVE Holds(v, h)'
    OBVIOUS
  <2>1. h \in held[v] /\ h.at \in Slots
    BY DEF TypeOK, Parked
  <2>2. Holds(v, h)
    BY <2>1 DEF Place
  <2> QED
    BY <2>1, <2>2, HoldsKept
<1>3. (\A h, g \in held[v] : h.at = g.at => h = g)'
  BY DEF Place
<1>4. (pc[v] \in Active => at[v] \notin HeldJobs(v))'
  <2>1. HeldJobs(v)' = HeldJobs(v)
    BY DEF HeldJobs
  <2> QED
    BY <2>1 DEF Place
<1>5. (~env.park => held[v] = {})'
  BY DEF Place
<1> QED
  BY <1>1, <1>2, <1>3, <1>4, <1>5 DEF Place

LEMMA PlaceKept ==
  ASSUME TypeOK, job' \in [Slots -> Jobs], NEW v \in Workers, Place(v), Bystander(v), env' = env,
         seq_next' \in Nat, seq_next' >= seq_next,
         \A s \in Slots : job[s].seq > 0 => Entry(s),
         \A s \in Slots : job[s].used => job[s].seq > 0,
         \A s \in Slots : Busy(v, s) => GoesOn(s),
         pc[v] \in {"next", "bottom"} =>
             (job'[at[v]].seq = run_seq[v] => job'[at[v]].kind = 1),
         RowsKept(v), InStack(v)' => InStack(v)
  PROVE  Place(v)'
<1>1. pc'[v] \in Active <=> pc[v] \in Active
  BY DEF Bystander, Active
<1>2. \A l \in {"unit", "next", "bottom", "rowend"} : pc'[v] = l <=> pc[v] = l
  BY DEF Bystander
<1>3. pc'[v] \in Before <=> pc[v] \in Before
  BY DEF Bystander, Before
<1>4. row[v] \in Nat
  BY DEF TypeOK
<1>5. \A s \in Slots : job[s].next_row \in Nat /\ job'[s].next_row \in Nat
  BY DEF TypeOK, Jobs
<1>6. pc'[v] \in Active => InRow(v)'
  <2> SUFFICES ASSUME pc'[v] \in Active PROVE InRow(v)'
    OBVIOUS
  <2> DEFINE s == at[v]
  <2>1. pc[v] \in Active /\ InRow(v)
    BY <1>1 DEF Place
  <2>2. s \in Slots /\ GoesOn(s)
    BY <2>1 DEF InRow, Busy
  <2>3. job'[s].progress[row[v]] = job[s].progress[row[v]]
    BY <2>1 DEF RowsKept
  <2>4. /\ at'[v] = s /\ row'[v] = row[v] /\ col'[v] = col[v]
        /\ run_seq'[v] = run_seq[v] /\ cur_seq'[v] = cur_seq[v]
    BY DEF Bystander
  <2>5. /\ job[s].kind = 0 /\ job[s].used /\ ~job[s].done /\ job[s].seq = run_seq[v]
        /\ job[s].seq = cur_seq[v] /\ row[v] < job[s].next_row /\ col[v] < job[s].ncols
        /\ job[s].progress[row[v]] = IF pc[v] \in Before THEN col[v] ELSE col[v] + 1
        /\ pc[v] = "rowend" => col[v] + 1 = job[s].ncols
    BY <2>1 DEF InRow
  <2> HIDE DEF s
  <2>6. row[v] < job'[s].next_row
    BY <2>2, <2>5, <1>4, <1>5 DEF GoesOn
  <2>7. /\ job'[s].kind = 0 /\ job'[s].used /\ ~job'[s].done /\ job'[s].seq = run_seq[v]
        /\ job'[s].seq = cur_seq[v] /\ col[v] < job'[s].ncols
        /\ job'[s].progress[row[v]] = IF pc'[v] \in Before THEN col[v] ELSE col[v] + 1
        /\ pc'[v] = "rowend" => col[v] + 1 = job'[s].ncols
    BY <2>2, <2>3, <2>5, <1>2, <1>3 DEF GoesOn
  <2> QED
    BY <2>2, <2>4, <2>6, <2>7 DEF InRow
<1>7. pc'[v] \in {"unit", "next", "bottom"} => InLoop(v)'
  <2> SUFFICES ASSUME pc'[v] \in {"unit", "next", "bottom"} PROVE InLoop(v)'
    OBVIOUS
  <2>1. pc[v] \in {"unit", "next", "bottom"} /\ (pc'[v] = "unit" <=> pc[v] = "unit")
    BY <1>2
  <2>2. InLoop(v)
    BY <2>1 DEF Place
  <2>3. at'[v] = at[v] /\ run_seq'[v] = run_seq[v]
    BY DEF Bystander
  <2>4. CASE pc[v] = "unit"
    <3>1. GoesOn(at[v])
      BY <2>2, <2>4 DEF InLoop, Busy
    <3> QED
      BY <2>2, <2>3, <2>4, <3>1 DEF InLoop, GoesOn
  <2>5. CASE pc[v] \in {"next", "bottom"}
    BY <2>1, <2>2, <2>3, <2>5 DEF InLoop
  <2> QED
    BY <2>1, <2>4, <2>5
<1>8. \A h \in held[v] : GoesOn(h.at) /\ WaitKept(v, h)
  <2>1. \A h \in held[v] : h.at \in Slots
    BY DEF TypeOK, Parked
  <2> QED
    BY <2>1 DEF RowsKept, Busy, HeldJobs
<1> QED
  BY <1>1, <1>6, <1>7, <1>8, PlaceFrom DEF Bystander

\* The table, and whose rows are whose: kept by a step that moves no row from
\* hand to hand and neither claims nor counts.
LEMMA LedgerKept ==
  ASSUME TypeOK, job' \in [Slots -> Jobs], Table, Alone, NotLost, env' = env, seq_next' = seq_next,
         \A v \in Workers, s \in Slots : Owns(v, s)' = Owns(v, s),
         \A s \in Slots : InUnit(s)' = InUnit(s),
         \A s \in Slots : SameJob(s) /\ SameCounts(s),
         \A s \in Slots : job[s].seq > 0 =>
             /\ job'[s].progress \in Array(job[s].nrows, Nat)
             /\ job'[s].parked_need \in Array(job[s].nrows, Nat)
             /\ job'[s].parked_owner \in Array(job[s].nrows, Workers \cup {NoJob})
             /\ \A r \in 0 .. job[s].nrows - 1 :
                  /\ job'[s].progress[r] >= job[s].progress[r]
                  /\ r >= job[s].next_row => job'[s].progress[r] = job[s].progress[r]
                  /\ ~env.park => job'[s].parked_need[r] = job[s].parked_need[r]
  PROVE  Table' /\ Alone' /\ NotLost'
<1>1. \A s \in Slots : InHand(s)' = InHand(s)
  BY DEF InHand, SameCounts
<1>2. ASSUME NEW s \in Slots PROVE Tabled(s)'
  <2>1. Tabled(s) /\ SameJob(s) /\ SameCounts(s)
    BY DEF Table
  <2>2. (job[s].seq > 0 => Entry(s))'
    <3> SUFFICES ASSUME job'[s].seq > 0 PROVE Entry(s)'
      OBVIOUS
    <3>1. job[s].seq > 0 /\ Entry(s)
      BY <2>1 DEF SameJob, Tabled
    <3>2. /\ job'[s].nrows = job[s].nrows /\ job'[s].next_row = job[s].next_row
          /\ job'[s].rows_done = job[s].rows_done /\ job'[s].done = job[s].done
          /\ job'[s].used = job[s].used /\ job'[s].kind = job[s].kind
      BY <2>1 DEF SameJob, SameCounts
    <3>3. /\ (job[s].used \/ job[s].done)' /\ (job[s].next_row <= job[s].nrows)'
          /\ (job[s].done => job[s].rows_done = job[s].nrows)'
          /\ (job[s].kind = 0 => job[s].rows_done + Cardinality(InHand(s)) = job[s].next_row)'
          /\ (job[s].kind = 1 => job[s].rows_done + Cardinality(InUnit(s)) = job[s].next_row)'
      BY <1>1, <3>1, <3>2 DEF Entry
    <3>4. (\A r \in 0 .. job[s].nrows - 1 : r >= job[s].next_row => job[s].progress[r] = 0)'
      BY <3>1, <3>2 DEF Entry
    <3>5. (~env.park => \A r \in 0 .. job[s].nrows - 1 : job[s].parked_need[r] = INT_MAX)'
      BY <3>1, <3>2, IntMax DEF Entry
    <3> QED
      BY <3>1, <3>2, <3>3, <3>4, <3>5 DEF Entry
  <2> QED
    BY <2>1, <2>2 DEF Tabled, SameJob, SameCounts
<1>3. NotLost'
  <2> SUFFICES ASSUME NEW s \in Slots, job'[s].seq > 0, job'[s].kind = 0,
                      NEW r \in 0 .. job'[s].next_row - 1,
                      job'[s].progress[r] < job'[s].ncols
               PROVE  \E w \in Workers : r \in Owns(w, s)'
    BY DEF NotLost
  <2>1. /\ job[s].seq > 0 /\ job[s].kind = 0 /\ job'[s].next_row = job[s].next_row
        /\ job'[s].ncols = job[s].ncols
    BY DEF SameJob, SameCounts
  <2>2. Entry(s)
    BY <2>1 DEF Table, Tabled
  <2>3. /\ job[s].next_row \in Nat /\ job[s].nrows \in Nat /\ job[s].next_row <= job[s].nrows
        /\ job[s].ncols \in Nat
    BY <2>2, JobTypes DEF Entry
  <2>4. r \in 0 .. job[s].nrows - 1 /\ r \in 0 .. job[s].next_row - 1
    BY <2>1, <2>3
  <2>5. job[s].progress[r] \in Nat /\ job'[s].progress[r] \in Nat
    BY <2>1, <2>2, <2>4 DEF Entry, Array
  <2>6. job'[s].progress[r] >= job[s].progress[r]
    BY <2>1, <2>4
  <2>7. job[s].progress[r] < job[s].ncols
    <3> DEFINE x == job[s].progress[r]
               y == job'[s].progress[r]
    <3>1. x \in Nat /\ y \in Nat /\ y >= x /\ y < job[s].ncols
      BY <2>1, <2>5, <2>6
    <3> HIDE DEF x, y
    <3>2. x < job[s].ncols
      BY <3>1, <2>3
    <3> QED
      BY <3>2 DEF x
  <2>8. \E w \in Workers : r \in Owns(w, s)
    BY <2>1, <2>4, <2>7 DEF NotLost
  <2> QED
    BY <2>8
<1>4. Alone'
  BY DEF Alone
<1> QED
  BY <1>2, <1>3, <1>4 DEF Table

-----------------------------------------------------------------------------
(* Steps that write nothing in the job table.                               *)

LEMMA SafeFacts ==
  ASSUME Safe
  PROVE  /\ TypeOK /\ Stacked /\ Table /\ Alone /\ NotLost
         /\ \A v \in Workers : Place(v)
         /\ \A p \in Submitters : Calling(p)
         /\ \A s \in Slots : job[s].seq > 0 => Entry(s)
         /\ \A s \in Slots : job[s].used => job[s].seq > 0
<1>1. TypeOK /\ Stacked /\ Table /\ Alone /\ NotLost /\ Places /\ \A p \in Submitters : Calling(p)
  BY DEF Safe
<1>2. \A s \in Slots : Tabled(s) /\ job[s].seq \in Nat
  BY <1>1, JobTypes DEF Table
<1>3. \A s \in Slots : job[s].used => job[s].seq > 0
  BY <1>2 DEF Tabled
<1> QED
  BY <1>1, <1>2, <1>3 DEF Places, Tabled

\* What a parked row's worker relies on, in a slot the step does not write.
LEMMA WaitSame ==
  ASSUME Safe, NEW v \in Workers, NEW h \in held[v], job'[h.at] = job[h.at]
  PROVE  GoesOn(h.at) /\ WaitKept(v, h)
<1> DEFINE s == h.at
<1>1. s \in Slots /\ h.row \in Nat \ {0} /\ Holds(v, h)
  BY SafeFacts DEF TypeOK, Parked, Place
<1>2. Entry(s) /\ h.row < job[s].next_row
  BY <1>1, SafeFacts DEF Holds
<1>3. job[s].nrows \in Nat /\ job[s].next_row \in Nat /\ job[s].next_row <= job[s].nrows
  BY <1>1, <1>2, SafeFacts, JobTypes DEF Entry
<1>4. h.row - 1 \in 0 .. job[s].nrows - 1
  BY <1>1, <1>2, <1>3
<1>5. job[s].progress[h.row - 1] \in Nat
  BY <1>2, <1>4 DEF Entry, Array
<1> HIDE DEF s
<1>6. job[s].progress[h.row - 1] >= job[s].progress[h.row - 1] /\ job[s].next_row >= job[s].next_row
  BY <1>3, <1>5
<1> QED
  BY <1>5, <1>6 DEF GoesOn, WaitKept, s

LEMMA QuietPlace ==
  ASSUME Safe, NEW v \in Workers, Bystander(v), job' = job, env' = env, seq_next' = seq_next,
         InStack(v)' => InStack(v)
  PROVE  Place(v)'
<1>1. TypeOK /\ Place(v)
  BY SafeFacts
<1>2. job' \in [Slots -> Jobs] /\ seq_next' \in Nat /\ seq_next' >= seq_next
  BY <1>1 DEF TypeOK
<1>3. \A s \in Slots : GoesOn(s)
  <2>1. \A s \in Slots : job[s].next_row \in Nat
    BY <1>1, JobTypes
  <2> QED
    BY <2>1 DEF GoesOn
<1>4. RowsKept(v)
  BY WaitSame DEF RowsKept
<1>5. pc[v] \in {"next", "bottom"} => (job'[at[v]].seq = run_seq[v] => job'[at[v]].kind = 1)
  BY <1>1 DEF Place, InLoop
<1> QED
  BY <1>1, <1>2, <1>3, <1>4, <1>5, SafeFacts, PlaceKept

LEMMA QuietActor ==
  ASSUME Safe, NEW w \in Workers, job' = job, env' = env, seq_next' = seq_next,
         run_seq'[w] = run_seq[w], held'[w] = held[w], at'[w] = at[w],
         InStack(w)' => InStack(w),
         pc'[w] \in Active => pc[w] \in Active /\ InRow(w)',
         pc'[w] \in {"unit", "next", "bottom"} => InLoop(w)'
  PROVE  Place(w)'
<1>1. TypeOK /\ Place(w)
  BY SafeFacts
<1>2. job' \in [Slots -> Jobs] /\ seq_next' \in Nat /\ seq_next' >= seq_next
  BY <1>1 DEF TypeOK
<1>3. \A h \in held[w] : GoesOn(h.at) /\ WaitKept(w, h)
  BY WaitSame
<1> QED
  BY <1>1, <1>2, <1>3, SafeFacts, PlaceFrom

LEMMA QuietLedger ==
  ASSUME Safe, job' = job, env' = env, seq_next' = seq_next,
         \A v \in Workers, s \in Slots : Owns(v, s)' = Owns(v, s),
         \A s \in Slots : InUnit(s)' = InUnit(s)
  PROVE  Table' /\ Alone' /\ NotLost'
<1>1. job' \in [Slots -> Jobs]
  BY SafeFacts DEF TypeOK
<1>2. \A s \in Slots : SameJob(s) /\ SameCounts(s)
  BY DEF SameJob, SameCounts
<1>3. ASSUME NEW s \in Slots, job[s].seq > 0
      PROVE  /\ job'[s].progress \in Array(job[s].nrows, Nat)
             /\ job'[s].parked_need \in Array(job[s].nrows, Nat)
             /\ job'[s].parked_owner \in Array(job[s].nrows, Workers \cup {NoJob})
             /\ \A r \in 0 .. job[s].nrows - 1 :
                  /\ job'[s].progress[r] >= job[s].progress[r]
                  /\ r >= job[s].next_row => job'[s].progress[r] = job[s].progress[r]
                  /\ ~env.park => job'[s].parked_need[r] = job[s].parked_need[r]
  <2>1. Entry(s)
    BY <1>3, SafeFacts
  <2>2. \A r \in 0 .. job[s].nrows - 1 : job[s].progress[r] \in Nat
    BY <2>1 DEF Entry, Array
  <2>3. \A r \in 0 .. job[s].nrows - 1 : job[s].progress[r] >= job[s].progress[r]
    BY <2>2
  <2> QED
    BY <2>1, <2>3 DEF Entry
<1> QED
  BY <1>1, <1>2, <1>3, SafeFacts, LedgerKept

\* The idle stack after a step that puts nobody on it.
LEMMA StackFrom ==
  ASSUME Safe, stack' \in Seq(Workers),
         \A i \in 1 .. Len(stack') : \E k \in 1 .. Len(stack) : stack'[i] = stack[k],
         \A i, j \in 1 .. Len(stack') : stack'[i] = stack'[j] => i = j,
         shutdown' => stack' = << >>,
         \A v \in Workers : pc[v] = "sleep" /\ InStack(v) => pc'[v] = "sleep"
  PROVE  Stacked' /\ \A v \in Workers : InStack(v)' => InStack(v)
<1>1. stack \in Seq(Workers) /\ \A i \in 1 .. Len(stack) : pc[stack[i]] = "sleep"
  BY SafeFacts DEF TypeOK, Stacked
<1>2. \A v \in Workers : InStack(v)' => InStack(v)
  BY DEF InStack
<1>3. ASSUME NEW i \in 1 .. Len(stack') PROVE pc'[stack'[i]] = "sleep"
  <2>1. PICK k \in 1 .. Len(stack) : stack'[i] = stack[k]
    OBVIOUS
  <2>2. stack[k] \in Workers /\ pc[stack[k]] = "sleep" /\ InStack(stack[k])
    BY <1>1 DEF InStack
  <2> QED
    BY <2>1, <2>2
<1> QED
  BY <1>2, <1>3 DEF Stacked

\* The stack stays, loses its top or is emptied.
LEMMA StackStep ==
  ASSUME Safe, stack' \in {stack, Popped(stack), << >>}, shutdown' = shutdown,
         \A v \in Workers : pc[v] = "sleep" /\ InStack(v) => pc'[v] = "sleep"
  PROVE  /\ stack' \in Seq(Workers) /\ Stacked'
         /\ \A v \in Workers : InStack(v)' => InStack(v)
<1>1. /\ stack \in Seq(Workers) /\ shutdown \in BOOLEAN
      /\ \A i, j \in 1 .. Len(stack) : stack[i] = stack[j] => i = j
      /\ shutdown => stack = << >>
  BY SafeFacts DEF TypeOK, Stacked
<1>2. CASE stack' = stack
  BY <1>1, <1>2, StackFrom
<1>3. CASE stack' = << >>
  BY <1>1, <1>3, StackFrom
<1>4. CASE stack' = Popped(stack)
  <2>1. /\ Popped(stack) \in Seq(Workers)
        /\ stack = << >> => Popped(stack) = << >>
        /\ \A i \in 1 .. Len(Popped(stack)) : i \in 1 .. Len(stack) - 1 /\ Popped(stack)[i] = stack[i]
    BY <1>1, PoppedStack
  <2>2. Len(stack) \in Nat
    BY <1>1
  <2>3. \A i \in 1 .. Len(stack') : i \in 1 .. Len(stack) /\ stack'[i] = stack[i]
    BY <2>1, <2>2, <1>4
  <2> QED
    BY <1>1, <1>4, <2>1, <2>3, StackFrom
<1> QED
  BY <1>2, <1>3, <1>4

LEMMA CallingKept ==
  ASSUME Safe, env' = env, spc' = spc, call' = call, spec' = spec, reg' = reg
  PROVE  \A p \in Submitters : Calling(p)'
BY SafeFacts DEF Calling, Specs

\* A step of a worker in a row that writes only where it is.
Labels == Active \cup {"top", "sleep", "exit", "unit", "next", "bottom"}
LEMMA QuietWorker ==
  ASSUME Safe, NEW w \in Workers, pc' \in [Workers -> Labels], col' \in [Workers -> Nat],
         stack' \in Seq(Workers), Stacked', \A v \in Workers : InStack(v)' => InStack(v),
         job' = job, UNCHANGED <<env, seq_next, pub, kick, shutdown, sub>>,
         UNCHANGED <<at, row, run_seq, held, cur_seq>>,
         \A v \in Workers \ {w} : col'[v] = col[v]
             /\ (pc'[v] = pc[v] \/ (pc[v] = "wait" /\ pc'[v] = "woken")),
         pc[w] \in Active, pc'[w] \in Active, InRow(w)'
  PROVE  Safe'
<1>1. TypeOK'
  BY SafeFacts DEF TypeOK, Labels, sub
<1>2. \A p \in Submitters : Calling(p)'
  BY CallingKept DEF sub
<1>3. \A v \in Workers \ {w} : Bystander(v)
  BY DEF Bystander
<1>4. Places'
  <2>1. \A v \in Workers \ {w} : Place(v)'
    BY <1>3, QuietPlace
  <2>2. Place(w)'
    <3>1. pc'[w] \notin {"unit", "next", "bottom"}
      BY DEF Active
    <3> QED
      BY <3>1, QuietActor
  <2> QED
    BY <2>1, <2>2 DEF Places
<1>5. \A v \in Workers, s \in Slots : Owns(v, s)' = Owns(v, s)
  <2> SUFFICES ASSUME NEW v \in Workers, NEW s \in Slots PROVE Owns(v, s)' = Owns(v, s)
    OBVIOUS
  <2>1. pc'[v] \in Active <=> pc[v] \in Active
    BY DEF Active
  <2> QED
    BY <2>1 DEF Owns
<1>6. \A s \in Slots : InUnit(s)' = InUnit(s)
  <2>1. \A v \in Workers : pc'[v] = "unit" <=> pc[v] = "unit"
    BY DEF Active
  <2> QED
    BY <2>1 DEF InUnit
<1>7. Table' /\ Alone' /\ NotLost'
  BY <1>5, <1>6, QuietLedger
<1> QED
  BY <1>1, <1>2, <1>4, <1>7 DEF Safe

\* A worker in a row is not asleep on the stack.
LEMMA ActiveAwake ==
  ASSUME Safe, NEW w \in Workers, InStack(w)
  PROVE  pc[w] = "sleep"
BY SafeFacts DEF InStack, Stacked

LEMMA LookSafe == ASSUME Safe, NEW w \in Workers, Look(w) PROVE Safe'
<1>1. /\ pc[w] = "run" /\ pc' = [pc EXCEPT ![w] = pc'[w]] /\ pc'[w] \in {"cell", "stall"}
      /\ UNCHANGED <<env, job, seq_next, stack, pub, kick, shutdown, at, row, col, run_seq, held,
                     cur_seq, sub>>
  BY SafeFacts DEF Look, Goto, TypeOK
<1>2. stack' \in Seq(Workers) /\ Stacked' /\ \A v \in Workers : InStack(v)' => InStack(v)
  BY <1>1, StackStep, SafeFacts DEF TypeOK
<1>3. InRow(w) /\ pc[w] \in Active
  BY <1>1, SafeFacts DEF Place, Active
<1>4. InRow(w)' /\ pc'[w] \in Active
  BY <1>1, <1>3 DEF InRow, Before, Active
<1>5. pc' \in [Workers -> Labels]
  BY <1>1, SafeFacts DEF TypeOK, Labels, Active
<1>6. col' \in [Workers -> Nat]
  BY <1>1, SafeFacts DEF TypeOK
<1> QED
  BY <1>1, <1>2, <1>3, <1>4, <1>5, <1>6, QuietWorker

LEMMA RewaitSafe == ASSUME Safe, NEW w \in Workers, Rewait(w) PROVE Safe'
<1>1. /\ pc[w] = "woken" /\ pc' = [pc EXCEPT ![w] = pc'[w]] /\ pc'[w] \in {"cell", "wait"}
      /\ UNCHANGED <<env, job, seq_next, stack, pub, kick, shutdown, at, row, col, run_seq, held,
                     cur_seq, sub>>
  BY SafeFacts DEF Rewait, Goto, TypeOK
<1>2. stack' \in Seq(Workers) /\ Stacked' /\ \A v \in Workers : InStack(v)' => InStack(v)
  BY <1>1, StackStep, SafeFacts DEF TypeOK
<1>3. InRow(w) /\ pc[w] \in Active
  BY <1>1, SafeFacts DEF Place, Active
<1>4. InRow(w)' /\ pc'[w] \in Active
  BY <1>1, <1>3 DEF InRow, Before, Active
<1>5. pc' \in [Workers -> Labels]
  BY <1>1, SafeFacts DEF TypeOK, Labels, Active
<1>6. col' \in [Workers -> Nat]
  BY <1>1, SafeFacts DEF TypeOK
<1> QED
  BY <1>1, <1>2, <1>3, <1>4, <1>5, <1>6, QuietWorker

LEMMA NotifySafe == ASSUME Safe, NEW w \in Workers, Notify(w) PROVE Safe'
<1>1. /\ pc[w] = "notify" /\ pc'[w] = "poke"
      /\ pc' = [v \in Workers |->
                  IF v = w THEN "poke"
                  ELSE IF pc[v] = "wait" /\ at[v] = at[w] /\ row[v] = row[w] + 1 THEN "woken"
                  ELSE pc[v]]
      /\ UNCHANGED <<env, job, seq_next, stack, pub, kick, shutdown, at, row, col, run_seq, held,
                     cur_seq, sub>>
  BY DEF Notify
<1>2. stack' \in Seq(Workers) /\ Stacked' /\ \A v \in Workers : InStack(v)' => InStack(v)
  <2>1. \A v \in Workers : pc[v] = "sleep" => pc'[v] = "sleep"
    BY <1>1
  <2> QED
    BY <1>1, <2>1, StackStep
<1>3. InRow(w) /\ pc[w] \in Active
  BY <1>1, SafeFacts DEF Place, Active
<1>4. InRow(w)' /\ pc'[w] \in Active
  BY <1>1, <1>3 DEF InRow, Before, Active
<1>5. pc' \in [Workers -> Labels]
  BY <1>1, SafeFacts DEF TypeOK, Labels, Active
<1>6. col' \in [Workers -> Nat]
  BY <1>1, SafeFacts DEF TypeOK
<1> QED
  BY <1>1, <1>2, <1>3, <1>4, <1>5, <1>6, QuietWorker

\* A row goes on to its next column or ends, in a slot whose progress is kept.
LEMMA NextColumnFacts ==
  ASSUME Safe, NEW w \in Workers, pc[w] \in {"poke", "hint", "start"}, NextColumn(w),
         UNCHANGED <<at, row, run_seq, cur_seq>>, job' \in [Slots -> Jobs],
         SameJob(at[w]), SameCounts(at[w]),
         job'[at[w]].progress = job[at[w]].progress
  PROVE  /\ pc' = [pc EXCEPT ![w] = pc'[w]] /\ pc'[w] \in {"run", "rowend"}
         /\ pc' \in [Workers -> Labels] /\ col' \in [Workers -> Nat]
         /\ \A v \in Workers \ {w} : col'[v] = col[v]
         /\ InRow(w)'
<1> DEFINE s == at[w]
<1>1. InRow(w) /\ s \in Slots
  BY SafeFacts DEF Place, Active, InRow
<1>2. pc \in [Workers -> Labels] /\ col \in [Workers -> Nat] /\ job[s].ncols \in Nat
  BY <1>1, SafeFacts, JobTypes DEF TypeOK, Labels
<1>3. /\ job[s].kind = 0 /\ job[s].used /\ ~job[s].done /\ job[s].seq = run_seq[w]
      /\ job[s].seq = cur_seq[w] /\ row[w] < job[s].next_row /\ col[w] < job[s].ncols
      /\ job[s].progress[row[w]] = col[w] + 1
  BY <1>1 DEF InRow, Before
<1>4. /\ job'[s].kind = 0 /\ job'[s].used /\ ~job'[s].done /\ job'[s].seq = run_seq[w]
      /\ job'[s].seq = cur_seq[w] /\ row[w] < job'[s].next_row
      /\ job'[s].progress[row[w]] = col[w] + 1 /\ job'[s].ncols = job[s].ncols
  BY <1>3 DEF SameJob, SameCounts
<1>5. CASE col[w] + 1 < job[s].ncols
  <2>1. pc' = [pc EXCEPT ![w] = "run"] /\ col' = [col EXCEPT ![w] = col[w] + 1]
    BY <1>5 DEF NextColumn, Goto
  <2>2. pc'[w] = "run" /\ col'[w] = col[w] + 1 /\ col'[w] \in Nat /\ col'[w] < job[s].ncols
    BY <1>2, <1>5, <2>1
  <2>3. InRow(w)'
    <3> HIDE DEF s
    <3>1. at'[w] = s /\ row'[w] = row[w] /\ run_seq'[w] = run_seq[w] /\ cur_seq'[w] = cur_seq[w]
      BY DEF s
    <3> QED
      BY <1>1, <1>4, <2>2, <3>1 DEF InRow, Before
  <2> QED
    BY <1>2, <2>1, <2>2, <2>3 DEF Labels, Active
<1>6. CASE ~(col[w] + 1 < job[s].ncols)
  <2>1. pc' = [pc EXCEPT ![w] = "rowend"] /\ col' = col
    BY <1>6 DEF NextColumn, Goto
  <2>2. pc'[w] = "rowend" /\ col[w] + 1 = job[s].ncols
    BY <1>2, <1>3, <1>6, <2>1
  <2>3. InRow(w)'
    <3> HIDE DEF s
    <3>1. at'[w] = s /\ row'[w] = row[w] /\ run_seq'[w] = run_seq[w] /\ cur_seq'[w] = cur_seq[w]
      BY DEF s
    <3> QED
      BY <1>1, <1>3, <1>4, <2>1, <2>2, <3>1 DEF InRow, Before
  <2> QED
    BY <1>2, <2>1, <2>2, <2>3 DEF Labels, Active
<1> QED
  BY <1>5, <1>6

LEMMA PokeSafe == ASSUME Safe, NEW w \in Workers, Poke(w) PROVE Safe'
<1>1. /\ pc[w] = "poke"
      /\ UNCHANGED <<env, job, seq_next, stack, pub, kick, shutdown, at, row, run_seq, held, cur_seq, sub>>
  BY DEF Poke
<1>2. InRow(w) /\ pc[w] \in Active
  BY <1>1, SafeFacts DEF Place, Active
<1>3. /\ pc' = [pc EXCEPT ![w] = pc'[w]] /\ pc'[w] \in Active \ {"wait"}
      /\ pc' \in [Workers -> Labels] /\ col' \in [Workers -> Nat]
      /\ \A v \in Workers \ {w} : col'[v] = col[v]
      /\ InRow(w)'
  <2>1. CASE Goto(w, "hint") /\ UNCHANGED col
    BY <1>1, <1>2, <2>1, SafeFacts DEF Goto, TypeOK, Labels, Active, InRow, Before
  <2>2. CASE Goto(w, "start") /\ UNCHANGED col
    BY <1>1, <1>2, <2>2, SafeFacts DEF Goto, TypeOK, Labels, Active, InRow, Before
  <2>3. CASE NextColumn(w)
    <3>1. job' \in [Slots -> Jobs] /\ SameJob(at[w]) /\ SameCounts(at[w])
      BY <1>1, SafeFacts DEF TypeOK, SameJob, SameCounts
    <3> QED
      BY <1>1, <2>3, <3>1, NextColumnFacts DEF Active
  <2> QED
    BY <2>1, <2>2, <2>3 DEF Poke
<1>4. stack' \in Seq(Workers) /\ Stacked' /\ \A v \in Workers : InStack(v)' => InStack(v)
  <2>1. \A v \in Workers : pc[v] = "sleep" => pc'[v] = "sleep"
    BY <1>1, <1>3
  <2> QED
    BY <1>1, <2>1, StackStep
<1> QED
  BY <1>1, <1>2, <1>3, <1>4, QuietWorker

LEMMA StartWakeSafe == ASSUME Safe, NEW w \in Workers, StartWake(w) PROVE Safe'
<1>1. /\ pc[w] = "start" /\ stack' = Popped(stack) /\ NextColumn(w)
      /\ UNCHANGED <<env, job, seq_next, pub, kick, shutdown, at, row, run_seq, held, cur_seq, sub>>
  BY DEF StartWake
<1>2. InRow(w) /\ pc[w] \in Active
  BY <1>1, SafeFacts DEF Place, Active
<1>3. /\ pc' = [pc EXCEPT ![w] = pc'[w]] /\ pc'[w] \in Active \ {"wait"}
      /\ pc' \in [Workers -> Labels] /\ col' \in [Workers -> Nat]
      /\ \A v \in Workers \ {w} : col'[v] = col[v]
      /\ InRow(w)'
  <2>1. job' \in [Slots -> Jobs] /\ SameJob(at[w]) /\ SameCounts(at[w])
    BY <1>1, SafeFacts DEF TypeOK, SameJob, SameCounts
  <2> QED
    BY <1>1, <2>1, NextColumnFacts DEF Active
<1>4. stack' \in Seq(Workers) /\ Stacked' /\ \A v \in Workers : InStack(v)' => InStack(v)
  <2>1. \A v \in Workers : pc[v] = "sleep" => pc'[v] = "sleep"
    BY <1>1, <1>3
  <2> QED
    BY <1>1, <2>1, StackStep
<1> QED
  BY <1>1, <1>2, <1>3, <1>4, QuietWorker

\* A step of one worker that writes nothing in the job table and moves no row.
LEMMA QuietMove ==
  ASSUME Safe, NEW w \in Workers, TypeOK', Stacked', job' = job, env' = env, seq_next' = seq_next,
         spc' = spc, call' = call, spec' = spec, reg' = reg,
         \A v \in Workers \ {w} : Bystander(v) /\ (InStack(v)' => InStack(v)),
         Place(w)',
         \A s \in Slots : Owns(w, s)' = Owns(w, s),
         pc'[w] = "unit" <=> pc[w] = "unit", pc[w] = "unit" => at'[w] = at[w]
  PROVE  Safe'
<1>1. \A p \in Submitters : Calling(p)'
  BY CallingKept
<1>2. Places'
  <2>1. \A v \in Workers \ {w} : Place(v)'
    BY QuietPlace
  <2> QED
    BY <2>1 DEF Places
<1>3. \A v \in Workers, s \in Slots : Owns(v, s)' = Owns(v, s)
  BY OwnsKept
<1>4. \A s \in Slots : InUnit(s)' = InUnit(s)
  <2>1. \A v \in Workers : (pc'[v] = "unit" <=> pc[v] = "unit") /\ (pc[v] = "unit" => at'[v] = at[v])
    BY DEF Bystander
  <2> QED
    BY <2>1 DEF InUnit
<1>5. Table' /\ Alone' /\ NotLost'
  BY <1>3, <1>4, QuietLedger
<1> QED
  BY <1>1, <1>2, <1>5 DEF Safe

LEMMA IdleSafe == ASSUME Safe, NEW w \in Workers, Idle(w) PROVE Safe'
<1>1. /\ pc[w] = "top" /\ Resumable(w) = {} /\ at' = [at EXCEPT ![w] = NoJob]
      /\ pc' = [pc EXCEPT ![w] = pc'[w]] /\ pc'[w] \in {"sleep", "exit"}
      /\ \/ stack' = stack /\ shutdown
         \/ stack' = Append(stack, w) /\ pc'[w] = "sleep" /\ ~shutdown
      /\ UNCHANGED <<env, job, seq_next, pub, kick, shutdown, row, col, run_seq, held, cur_seq, sub>>
  BY SafeFacts DEF Idle, Goto, TypeOK
<1>0. /\ \A v \in Workers \ {w} : pc'[v] = pc[v] /\ at'[v] = at[v]
      /\ pc' \in [Workers -> Labels] /\ at' \in [Workers -> Slots \cup {NoJob}]
  <2>1. pc \in [Workers -> Labels] /\ at \in [Workers -> Slots \cup {NoJob}]
    BY SafeFacts DEF TypeOK, Labels
  <2>2. pc'[w] \in Labels
    BY <1>1 DEF Labels
  <2> QED
    BY <1>1, <2>1, <2>2
<1>2. /\ TypeOK /\ Place(w) /\ stack \in Seq(Workers) /\ ~InStack(w)
      /\ \A i \in 1 .. Len(stack) : pc[stack[i]] = "sleep" /\ stack[i] # w
      /\ \A i, j \in 1 .. Len(stack) : stack[i] = stack[j] => i = j
      /\ shutdown => stack = << >>
  <2>1. \A i \in 1 .. Len(stack) : pc[stack[i]] = "sleep"
    BY SafeFacts DEF Stacked
  <2> QED
    BY <1>1, <2>1, SafeFacts DEF Stacked, InStack, TypeOK
<1>3. stack' \in Seq(Workers) /\ Stacked' /\ \A v \in Workers \ {w} : InStack(v)' => InStack(v)
  <2>1. CASE stack' = stack /\ shutdown
    <3>1. stack = << >> /\ stack' = << >>
      BY <1>2, <2>1
    <3> QED
      BY <3>1 DEF Stacked, InStack
  <2>2. CASE stack' = Append(stack, w) /\ pc'[w] = "sleep" /\ ~shutdown
    <3> DEFINE n == Len(stack)
    <3>1. n \in Nat /\ Len(stack') = n + 1 /\ stack' \in Seq(Workers)
      BY <1>2, <2>2
    <3>2. \A i \in 1 .. n + 1 : stack'[i] = IF i = n + 1 THEN w ELSE stack[i]
      BY <1>2, <2>2
    <3>3. \A i \in 1 .. n : stack[i] \in Workers /\ stack[i] # w /\ pc[stack[i]] = "sleep"
      BY <1>2
    <3>4. \A i, j \in 1 .. n : stack[i] = stack[j] => i = j
      BY <1>2
    <3> HIDE DEF n
    <3>5. \A i \in 1 .. n + 1 : i \in 1 .. n \/ i = n + 1
      BY <3>1
    <3>6. \A i \in 1 .. Len(stack') : pc'[stack'[i]] = "sleep"
      <4>1. \A i \in 1 .. n + 1 : pc'[stack'[i]] = "sleep"
        <5>1. \A i \in 1 .. n : stack'[i] = stack[i]
          BY <3>1, <3>2
        <5>2. \A i \in 1 .. n : pc'[stack'[i]] = "sleep"
          BY <5>1, <3>3, <1>0
        <5>3. pc'[stack'[n + 1]] = "sleep"
          BY <3>1, <3>2, <2>2
        <5> QED
          BY ONLY <5>2, <5>3, <3>5
      <4> QED
        BY ONLY <4>1, <3>1
    <3>7. \A i, j \in 1 .. Len(stack') : stack'[i] = stack'[j] => i = j
      BY <3>1, <3>2, <3>3, <3>4, <3>5
    <3>8. \A v \in Workers \ {w} : InStack(v)' => InStack(v)
      BY <3>1, <3>2, <3>5 DEF InStack, n
    <3> QED
      BY <1>1, <2>2, <3>1, <3>6, <3>7, <3>8 DEF Stacked
  <2> QED
    BY <1>1, <2>1, <2>2
<1>4. TypeOK'
  BY <1>0, <1>1, <1>2, <1>3 DEF TypeOK, Labels, sub
<1>5. \A v \in Workers \ {w} : Bystander(v)
  BY <1>0, <1>1 DEF Bystander
<1>6. Place(w)'
  <2>1. (run_seq[w] <= seq_next)' /\ (~env.park => held[w] = {})'
        /\ (\A h, g \in held[w] : h.at = g.at => h = g)'
    <3>1. run_seq'[w] = run_seq[w] /\ seq_next' = seq_next /\ env' = env /\ held'[w] = held[w]
      BY <1>1
    <3> QED
      BY <1>2, <3>1 DEF Place
  <2>2. pc'[w] \notin Active /\ pc'[w] \notin {"unit", "next", "bottom"}
    BY <1>1 DEF Active
  <2>3. (\A h \in held[w] : Holds(w, h))'
    <3> SUFFICES ASSUME NEW h \in held[w] PROVE Holds(w, h)'
      BY <1>1
    <3>1. Holds(w, h) /\ ~(job[h.at].progress[h.row - 1] >= h.need)
      BY <1>1, <1>2, Zenon DEF Place, Resumable
    <3>2. job' = job
      BY <1>1
    <3> QED
      BY <3>1, <3>2 DEF Holds
  <2> QED
    BY <2>1, <2>2, <2>3 DEF Place
<1>7. \A s \in Slots : Owns(w, s)' = Owns(w, s)
  BY <1>1 DEF Owns, Active
<1> QED
  BY <1>1, <1>3, <1>4, <1>5, <1>6, <1>7, QuietMove DEF sub

LEMMA WakeSafe == ASSUME Safe, NEW w \in Workers, Wake(w) PROVE Safe'
<1>1. /\ pc[w] = "sleep" /\ (~InStack(w) \/ shutdown) /\ pc' = [pc EXCEPT ![w] = "top"]
      /\ UNCHANGED <<env, job, seq_next, stack, pub, kick, shutdown, at, row, col, run_seq, held,
                     cur_seq, sub>>
  BY DEF Wake, Goto
<1>2. /\ TypeOK /\ Place(w) /\ stack \in Seq(Workers)
      /\ \A i \in 1 .. Len(stack) : pc[stack[i]] = "sleep"
      /\ \A i, j \in 1 .. Len(stack) : stack[i] = stack[j] => i = j
      /\ shutdown => stack = << >>
  BY SafeFacts DEF Stacked, TypeOK
<1>3. \A i \in 1 .. Len(stack) : stack[i] \in Workers /\ stack[i] # w
  BY <1>1, <1>2 DEF InStack
<1>4. Stacked'
  <2>1. \A i \in 1 .. Len(stack) : pc'[stack[i]] = "sleep"
    BY <1>1, <1>2, <1>3
  <2> QED
    BY <1>1, <1>2, <2>1 DEF Stacked
<1>5. \A v \in Workers : InStack(v)' => InStack(v)
  BY <1>1 DEF InStack
<1>6. TypeOK' /\ pc'[w] = "top"
  BY <1>1, <1>2 DEF TypeOK, sub
<1>7. \A v \in Workers \ {w} : Bystander(v)
  BY <1>1 DEF Bystander
<1>8. Place(w)'
  <2>1. pc'[w] \notin Active /\ pc'[w] \notin {"unit", "next", "bottom"}
    BY <1>6 DEF Active
  <2> QED
    BY <1>1, <1>5, <2>1, QuietActor
<1>9. \A s \in Slots : Owns(w, s)' = Owns(w, s)
  BY <1>1, <1>6 DEF Owns, Active
<1> QED
  BY <1>1, <1>4, <1>5, <1>6, <1>7, <1>8, <1>9, QuietMove DEF sub

-----------------------------------------------------------------------------
(* Steps of a worker that write in the slot of its job.                     *)

\* The rows of a slot stay: so does what a parked row's worker relies on.
LEMMA WaitRows ==
  ASSUME Safe, NEW v \in Workers, NEW h \in held[v], SameRows(h.at)
  PROVE  WaitKept(v, h)
<1> DEFINE s == h.at
<1>1. s \in Slots /\ h.row \in Nat \ {0} /\ Holds(v, h)
  BY SafeFacts DEF TypeOK, Parked, Place
<1>2. Entry(s) /\ h.row < job[s].next_row
  BY <1>1, SafeFacts DEF Holds
<1>3. job[s].nrows \in Nat /\ job[s].next_row \in Nat /\ job[s].next_row <= job[s].nrows
  BY <1>1, <1>2, SafeFacts, JobTypes DEF Entry
<1>4. h.row - 1 \in 0 .. job[s].nrows - 1
  BY <1>1, <1>2, <1>3
<1>5. job[s].progress[h.row - 1] \in Nat
  BY <1>2, <1>4 DEF Entry, Array
<1> HIDE DEF s
<1>6. job[s].progress[h.row - 1] >= job[s].progress[h.row - 1]
  BY <1>5
<1> QED
  BY <1>5, <1>6 DEF SameRows, WaitKept, s

\* A worker that takes no part in a step on slot s.
LEMMA OthersPlaced ==
  ASSUME Safe, job' \in [Slots -> Jobs], NEW s \in Slots, Elsewhere(s), SameJob(s),
         env' = env, seq_next' = seq_next,
         NEW v \in Workers, Bystander(v), InStack(v)' => InStack(v),
         Busy(v, s) => job'[s].done = job[s].done /\ job'[s].next_row >= job[s].next_row,
         pc[v] \in Active /\ at[v] = s => job'[s].progress[row[v]] = job[s].progress[row[v]],
         \A h \in held[v] : h.at = s => WaitKept(v, h)
  PROVE  Place(v)'
<1>1. TypeOK /\ Place(v)
  BY SafeFacts
<1>2. seq_next' \in Nat /\ seq_next' >= seq_next
  BY <1>1 DEF TypeOK
<1>3. \A t \in Slots : Busy(v, t) => GoesOn(t)
  <2> SUFFICES ASSUME NEW t \in Slots, Busy(v, t) PROVE GoesOn(t)
    OBVIOUS
  <2>1. job[t].next_row \in Nat
    BY <1>1, JobTypes
  <2>2. CASE t = s
    BY <2>2 DEF GoesOn, SameJob
  <2>3. CASE t # s
    <3>1. job'[t] = job[t] /\ job[t].next_row >= job[t].next_row
      BY <2>1, <2>3 DEF Elsewhere
    <3> QED
      BY <3>1 DEF GoesOn
  <2> QED
    BY <2>2, <2>3
<1>4. RowsKept(v)
  <2>1. pc[v] \in Active => at[v] \in Slots
    BY <1>1 DEF Place, InRow
  <2>2. pc[v] \in Active => job'[at[v]].progress[row[v]] = job[at[v]].progress[row[v]]
    BY <2>1 DEF Elsewhere
  <2>3. ASSUME NEW h \in held[v], h.at # s PROVE WaitKept(v, h)
    <3>1. h.at \in Slots
      BY <1>1 DEF TypeOK, Parked
    <3>2. job'[h.at] = job[h.at]
      BY <2>3, <3>1 DEF Elsewhere
    <3> QED
      BY <3>2, WaitSame
  <2> QED
    BY <2>2, <2>3 DEF RowsKept
<1>5. pc[v] \in {"next", "bottom"} => (job'[at[v]].seq = run_seq[v] => job'[at[v]].kind = 1)
  <2>1. pc[v] \in {"next", "bottom"} => InLoop(v) /\ at[v] \in Slots
    BY <1>1 DEF Place, InLoop
  <2>2. \A t \in Slots : job'[t].seq = job[t].seq /\ job'[t].kind = job[t].kind
    BY DEF Elsewhere, SameJob
  <2> QED
    BY <2>1, <2>2 DEF InLoop
<1> QED
  BY <1>1, <1>2, <1>3, <1>4, <1>5, SafeFacts, PlaceKept

\* The row a worker is in is in nobody else's hands.
LEMMA OneOwner ==
  ASSUME Safe, NEW w \in Workers, pc[w] \in Active, NEW v \in Workers \ {w}
  PROVE  /\ at[v] = at[w] /\ pc[v] \in Active => row[v] # row[w]
         /\ \A h \in held[v] : h.at = at[w] => h.row # row[w]
<1>1. at[w] \in Slots
  BY SafeFacts DEF Place, InRow
<1>2. Owns(v, at[w]) \cap Owns(w, at[w]) = {}
  BY <1>1, SafeFacts DEF Alone
<1> QED
  BY <1>2 DEF Owns

\* A parked row, of a job that runs.
LEMMA HeldFacts ==
  ASSUME Safe, NEW v \in Workers, NEW h \in held[v]
  PROVE  /\ h.at \in Slots /\ h.row \in Nat \ {0} /\ h.col \in Nat /\ h.need \in Nat
         /\ Holds(v, h) /\ Entry(h.at) /\ job[h.at].nrows \in Nat /\ job[h.at].next_row \in Nat
         /\ h.row < job[h.at].next_row
         /\ h.row \in 0 .. job[h.at].nrows - 1 /\ h.row - 1 \in 0 .. job[h.at].nrows - 1
         /\ job[h.at].progress[h.row - 1] \in Nat
<1> DEFINE s == h.at
<1>1. s \in Slots /\ h.row \in Nat \ {0} /\ h.col \in Nat /\ h.need \in Nat /\ Holds(v, h)
  BY SafeFacts DEF TypeOK, Parked, Place
<1>2. Entry(s) /\ h.row < job[s].next_row
  BY <1>1, SafeFacts DEF Holds
<1>3. job[s].nrows \in Nat /\ job[s].next_row \in Nat /\ job[s].next_row <= job[s].nrows
  BY <1>1, <1>2, SafeFacts, JobTypes DEF Entry
<1>4. h.row - 1 \in 0 .. job[s].nrows - 1 /\ h.row \in 0 .. job[s].nrows - 1
  BY <1>1, <1>2, <1>3
<1>5. job[s].progress[h.row - 1] \in Nat
  BY <1>2, <1>4 DEF Entry, Array
<1> QED
  BY <1>1, <1>2, <1>3, <1>4, <1>5

LEMMA StallSafe == ASSUME Safe, NEW w \in Workers, Stall(w) PROVE Safe'
<1> DEFINE s == at[w]
           h0 == [at |-> s, row |-> row[w], col |-> col[w], need |-> Need(s, col[w])]
<1>1. /\ pc[w] = "stall"
      /\ UNCHANGED <<env, seq_next, stack, pub, kick, shutdown, at, row, col, run_seq, cur_seq, sub>>
  BY DEF Stall
<1>2. InRow(w) /\ pc[w] \in Active /\ s \in Slots /\ TypeOK /\ Place(w)
  BY <1>1, SafeFacts DEF Place, Active, InRow
<1>3. \A v \in Workers : InStack(v)' => InStack(v)
  BY <1>1 DEF InStack
<1>4. ASSUME NEW l \in {"cell", "wait"}, pc' = [pc EXCEPT ![w] = l], job' = job, held' = held
      PROVE  Safe'
  <2>1. pc'[w] = l /\ \A v \in Workers \ {w} : pc'[v] = pc[v]
    BY <1>2, <1>4 DEF TypeOK
  <2>2. stack' \in Seq(Workers) /\ Stacked'
    <3>1. \A v \in Workers : pc[v] = "sleep" => pc'[v] = "sleep"
      BY <1>1, <2>1
    <3> QED
      BY <1>1, <1>2, <3>1, StackStep DEF TypeOK
  <2>3. InRow(w)' /\ pc'[w] \in Active
    <3>1. pc[w] \in Before /\ pc'[w] \in Before /\ pc'[w] # "rowend" /\ pc'[w] \in Active
      BY <1>1, <2>1 DEF Before, Active
    <3> QED
      BY <1>1, <1>2, <1>4, <3>1 DEF InRow
  <2>4. pc' \in [Workers -> Labels] /\ col' \in [Workers -> Nat]
    BY <1>1, <1>2, <1>4 DEF TypeOK, Labels, Active
  <2> QED
    BY <1>1, <1>2, <1>3, <1>4, <2>1, <2>2, <2>3, <2>4, QuietWorker
<1>5. ASSUME ~Satisfied(s, row[w], col[w]), env.park, pc' = [pc EXCEPT ![w] = "top"],
             held' = [held EXCEPT ![w] = @ \cup {h0}],
             job' = [job EXCEPT ![s].parked_owner[row[w]] = w,
                                ![s].parked_need[row[w]] = Need(s, col[w])]
      PROVE  Safe'
  <2>1. /\ job[s].kind = 0 /\ job[s].used /\ ~job[s].done /\ row[w] < job[s].next_row
        /\ col[w] < job[s].ncols /\ job[s].progress[row[w]] = col[w]
    BY <1>1, <1>2 DEF InRow, Before
  <2>2. /\ Entry(s) /\ job[s].nrows \in Nat /\ job[s].next_row \in Nat /\ job[s].ncols \in Nat
        /\ job[s].next_row <= job[s].nrows /\ row[w] \in Nat /\ col[w] \in Nat
    BY <1>2, <2>1, SafeFacts, JobTypes DEF Entry, TypeOK
  <2> DEFINE r == row[w]
             n == Need(s, col[w])
  <2>3. r \in 0 .. job[s].nrows - 1 /\ r \in Nat \ {0}
    BY <1>5, <2>1, <2>2 DEF Satisfied
  <2>4. n \in Nat /\ n <= job[s].ncols
    BY <2>2 DEF Need
  <2>0. h0 \in Parked /\ h0.at = s /\ h0.row = r /\ h0.col = col[w] /\ h0.need = n
    BY <1>2, <2>2, <2>3, <2>4 DEF Parked
  <2>5. PICK g \in Parked : g = h0 /\ g.at = s /\ g.row = r /\ g.col = col[w] /\ g.need = n
    BY <2>0
  <2> HIDE DEF s, r, n, h0
  <2>6. s = at[w] /\ r = row[w] /\ n = Need(s, col[w])
    BY DEF s, r, n
  <2>7. /\ job' \in [Slots -> Jobs] /\ Elsewhere(s) /\ SameJob(s) /\ SameCounts(s)
        /\ job'[s].progress = job[s].progress
        /\ job'[s].parked_need = [job[s].parked_need EXCEPT ![r] = n]
        /\ job'[s].parked_need \in Array(job[s].nrows, Nat)
        /\ job'[s].parked_owner = [job[s].parked_owner EXCEPT ![r] = w]
        /\ job'[s].parked_owner \in Array(job[s].nrows, Workers \cup {NoJob})
    <3>1. /\ job[s].parked_need \in Array(job[s].nrows, Nat)
          /\ job[s].parked_owner \in Array(job[s].nrows, Workers \cup {NoJob})
      BY <2>2 DEF Entry
    <3>2. job' = [job EXCEPT ![s].parked_owner[r] = w, ![s].parked_need[r] = n]
      BY <1>5, <2>6
    <3> QED
      BY ONLY <1>2, <2>3, <2>4, <3>1, <3>2, WrotePark
  <2>8. /\ \A x \in 0 .. job[s].nrows - 1 : x # r => job'[s].parked_need[x] = job[s].parked_need[x]
        /\ \A x \in 0 .. job[s].nrows - 1 : x # r => job'[s].parked_owner[x] = job[s].parked_owner[x]
        /\ job'[s].parked_need[r] = n /\ job'[s].parked_owner[r] = w
    BY ONLY <2>2, <2>3, <2>7 DEF Entry, Array
  <2>9. /\ pc'[w] = "top" /\ held'[w] = held[w] \cup {g}
        /\ \A v \in Workers \ {w} : pc'[v] = pc[v] /\ held'[v] = held[v]
        /\ pc' \in [Workers -> Labels] /\ held' \in [Workers -> SUBSET Parked]
    BY <1>2, <1>5, <2>5 DEF TypeOK, Labels
  <2>10. \A v \in Workers \ {w} : Bystander(v)
    BY <1>1, <2>9 DEF Bystander
  <2>11. stack' \in Seq(Workers) /\ Stacked'
    <3>1. \A v \in Workers : pc[v] = "sleep" => pc'[v] = "sleep"
      BY <1>1, <2>9
    <3> QED
      BY <1>1, <1>2, <3>1, StackStep DEF TypeOK
  <2>12. TypeOK'
    BY <1>1, <1>2, <2>7, <2>9, <2>11 DEF TypeOK, Labels, sub
  <2>13. \A p \in Submitters : Calling(p)'
    BY <1>1, CallingKept DEF sub
  <2>14. ASSUME NEW v \in Workers \ {w} PROVE Place(v)'
    <3>1. job'[s].done = job[s].done /\ job'[s].next_row >= job[s].next_row
      BY <2>2, <2>7 DEF SameCounts
    <3>2. ASSUME NEW h \in held[v], h.at = s PROVE WaitKept(v, h)
      <4>1. h.row # r /\ h.row \in Nat \ {0} /\ Holds(v, h)
        BY <1>2, <2>6, <3>2, OneOwner, HeldFacts
      <4>3. h.row \in 0 .. job[s].nrows - 1 /\ h.row - 1 \in 0 .. job[s].nrows - 1
            /\ job[s].progress[h.row - 1] \in Nat
        BY <3>2, HeldFacts
      <4>5. job[s].progress[h.row - 1] >= job[s].progress[h.row - 1]
        BY <4>3
      <4> QED
        BY <2>7, <2>8, <3>2, <4>1, <4>3, <4>5 DEF WaitKept
    <3> QED
      BY <1>1, <1>2, <1>3, <2>7, <2>10, <3>1, <3>2, OthersPlaced
  <2>15. Place(w)'
    <3>1. at[w] \notin HeldJobs(w) /\ \A h \in held[w] : h.at # s /\ h.at \in Slots
      BY <1>2, <2>6 DEF Place, HeldJobs, TypeOK, Parked
    <3>2. ASSUME NEW h \in held[w] PROVE Holds(w, h)'
      <4>1. job'[h.at] = job[h.at] /\ Holds(w, h)
        BY <1>2, <2>7, <3>1 DEF Elsewhere, Place
      <4> QED
        BY <1>3, <4>1 DEF Holds
    <3>3. Holds(w, g)'
      <4>1. /\ job'[s].kind = 0 /\ job'[s].used /\ ~job'[s].done /\ job'[s].ncols = job[s].ncols
            /\ job'[s].next_row = job[s].next_row
        BY <2>1, <2>7 DEF SameJob, SameCounts
      <4> QED
        BY <2>1, <2>4, <2>5, <2>6, <2>7, <2>8, <4>1 DEF Holds
    <3>4. (\A h \in held[w] : Holds(w, h))'
      BY <2>9, <3>2, <3>3
    <3>5. (\A h, x \in held[w] : h.at = x.at => h = x)'
      BY <1>2, <2>5, <2>9, <3>1 DEF Place
    <3>6. pc'[w] \notin Active /\ pc'[w] \notin {"unit", "next", "bottom"}
      BY <2>9 DEF Active
    <3>7. (run_seq[w] <= seq_next)' /\ (~env.park => held[w] = {})'
      BY <1>1, <1>2, <1>5 DEF Place
    <3> QED
      BY <3>4, <3>5, <3>6, <3>7 DEF Place
  <2>16. \A v \in Workers, t \in Slots : Owns(v, t)' = Owns(v, t)
    <3>1. \A v \in Workers \ {w}, t \in Slots : Owns(v, t)' = Owns(v, t)
      BY <2>10, OwnsKept
    <3>2. ASSUME NEW t \in Slots PROVE Owns(w, t)' = Owns(w, t)
      <4>1. pc'[w] \notin Active
        BY <2>9 DEF Active
      <4>2. \A h \in held[w] : h.at # s
        BY <1>2, <2>6 DEF Place, HeldJobs
      <4>3. CASE t = s
        BY <1>2, <2>5, <2>6, <2>9, <4>1, <4>2, <4>3 DEF Owns
      <4>4. CASE t # s
        BY <1>2, <2>5, <2>6, <2>9, <4>1, <4>4 DEF Owns
      <4> QED
        BY <4>3, <4>4
    <3> QED
      BY <3>1, <3>2
  <2>17. \A t \in Slots : InUnit(t)' = InUnit(t)
    BY <1>1, <2>9 DEF InUnit
  <2>18. Table' /\ Alone' /\ NotLost'
    <3>1. \A t \in Slots : SameJob(t) /\ SameCounts(t)
      BY <2>7 DEF Elsewhere, SameJob, SameCounts
    <3>2. ASSUME NEW t \in Slots, job[t].seq > 0
          PROVE  /\ job'[t].progress \in Array(job[t].nrows, Nat)
                 /\ job'[t].parked_need \in Array(job[t].nrows, Nat)
                 /\ job'[t].parked_owner \in Array(job[t].nrows, Workers \cup {NoJob})
                 /\ job'[t].progress = job[t].progress
      <4>1. Entry(t)
        BY <3>2, SafeFacts
      <4>2. CASE t = s
        BY <2>7, <4>1, <4>2 DEF Entry
      <4>3. CASE t # s
        BY <2>7, <4>1, <4>3 DEF Entry, Elsewhere
      <4> QED
        BY <4>2, <4>3
    <3>3. ASSUME NEW t \in Slots, job[t].seq > 0, NEW x \in 0 .. job[t].nrows - 1
          PROVE  job[t].progress[x] >= job[t].progress[x]
      <4>1. job[t].progress[x] \in Nat
        BY <3>3, SafeFacts DEF Entry, Array
      <4> QED
        BY <4>1
    <3> QED
      BY <1>1, <1>2, <1>5, <2>7, <2>16, <2>17, <3>1, <3>2, <3>3, SafeFacts, LedgerKept
  <2> QED
    BY <2>11, <2>12, <2>13, <2>14, <2>15, <2>18 DEF Safe, Places
<1> QED
  BY <1>4, <1>5 DEF Stall, Goto

\* The rows a worker holds are of other jobs than the one it is in.
LEMMA HeldElsewhere ==
  ASSUME Safe, NEW w \in Workers, pc[w] \in Active, NEW h \in held[w]
  PROVE  h.at # at[w]
BY SafeFacts DEF Place, HeldJobs

\* A step of a worker in its row that writes in the rows of its job's slot.
LEMMA RowWorker ==
  ASSUME Safe, NEW w \in Workers, pc[w] \in Active, pc'[w] \in Active, InRow(w)',
         NEW s \in Slots, s = at[w], job' \in [Slots -> Jobs], Elsewhere(s), SameJob(s), SameCounts(s),
         pc' \in [Workers -> Labels], col' \in [Workers -> Nat],
         stack' \in Seq(Workers), Stacked', \A v \in Workers : InStack(v)' => InStack(v),
         UNCHANGED <<env, seq_next, pub, kick, shutdown, sub>>,
         UNCHANGED <<at, row, run_seq, held, cur_seq>>,
         \A v \in Workers \ {w} : Bystander(v),
         \A v \in Workers \ {w} : \A h \in held[v] : h.at = s => WaitKept(v, h),
         \A x \in 0 .. job[s].nrows - 1 : x # row[w] => job'[s].progress[x] = job[s].progress[x],
         job'[s].progress[row[w]] >= job[s].progress[row[w]],
         job'[s].progress \in Array(job[s].nrows, Nat),
         job'[s].parked_need \in Array(job[s].nrows, Nat),
         job'[s].parked_owner \in Array(job[s].nrows, Workers \cup {NoJob}),
         ~env.park => job'[s].parked_need = job[s].parked_need
  PROVE  Safe'
<1> DEFINE r == row[w]
<1>1. InRow(w) /\ TypeOK /\ Place(w)
  BY SafeFacts DEF Place
<1>2. job[s].used /\ job[s].kind = 0 /\ r < job[s].next_row
  BY <1>1 DEF InRow
<1>3. /\ Entry(s) /\ job[s].nrows \in Nat /\ job[s].next_row \in Nat
      /\ job[s].next_row <= job[s].nrows /\ r \in Nat
  BY <1>1, <1>2, SafeFacts, JobTypes DEF Entry, TypeOK
<1> HIDE DEF r
<1>0. r = row[w]
  BY DEF r
<1>4. r \in 0 .. job[s].nrows - 1
  BY <1>2, <1>3
<1>5. TypeOK'
  BY <1>1 DEF TypeOK, Labels, sub
<1>6. \A p \in Submitters : Calling(p)'
  BY CallingKept DEF sub
<1>7. \A x \in 0 .. job[s].nrows - 1 : job'[s].progress[x] >= job[s].progress[x]
  <2>1. \A x \in 0 .. job[s].nrows - 1 : job[s].progress[x] \in Nat
    BY <1>3 DEF Entry, Array
  <2>2. \A x \in 0 .. job[s].nrows - 1 : job[s].progress[x] >= job[s].progress[x]
    BY <2>1
  <2> QED
    BY <1>0, <2>2
<1>8. ASSUME NEW v \in Workers \ {w} PROVE Place(v)'
  <2>1. job'[s].done = job[s].done /\ job'[s].next_row >= job[s].next_row
    BY <1>3 DEF SameCounts
  <2>2. pc[v] \in Active /\ at[v] = s => job'[s].progress[row[v]] = job[s].progress[row[v]]
    <3> SUFFICES ASSUME pc[v] \in Active, at[v] = s
                 PROVE job'[s].progress[row[v]] = job[s].progress[row[v]]
      OBVIOUS
    <3>1. row[v] # r /\ row[v] < job[s].next_row /\ row[v] \in Nat
      BY <1>0, OneOwner, SafeFacts DEF Place, InRow, TypeOK
    <3>2. row[v] \in 0 .. job[s].nrows - 1
      BY <1>3, <3>1
    <3> QED
      BY <1>0, <3>1, <3>2
  <2> QED
    BY <2>1, <2>2, OthersPlaced
<1>9. Place(w)'
  <2>1. \A h \in held[w] : GoesOn(h.at) /\ WaitKept(w, h)
    <3> SUFFICES ASSUME NEW h \in held[w] PROVE GoesOn(h.at) /\ WaitKept(w, h)
      OBVIOUS
    <3>1. h.at # s /\ h.at \in Slots
      BY HeldElsewhere, HeldFacts
    <3> QED
      BY <3>1, WaitSame DEF Elsewhere
  <2>2. pc'[w] \in Active /\ pc'[w] \notin {"unit", "next", "bottom"}
    BY DEF Active
  <2>3. run_seq'[w] = run_seq[w] /\ held'[w] = held[w] /\ at'[w] = at[w] /\ env' = env
        /\ seq_next' \in Nat /\ seq_next' >= seq_next
    BY <1>1 DEF TypeOK
  <2> QED
    BY <1>1, <2>1, <2>2, <2>3, SafeFacts, PlaceFrom
<1>10. \A v \in Workers : (pc'[v] \in Active <=> pc[v] \in Active) /\ (pc'[v] = "unit" <=> pc[v] = "unit")
  <2>1. pc'[w] # "unit" /\ pc[w] # "unit"
    BY DEF Active
  <2> QED
    BY <2>1 DEF Bystander, Active
<1>11. \A v \in Workers, t \in Slots : Owns(v, t)' = Owns(v, t)
  BY <1>10 DEF Owns
<1>12. \A t \in Slots : InUnit(t)' = InUnit(t)
  BY <1>10 DEF InUnit
<1>13. Table' /\ Alone' /\ NotLost'
  <2>1. \A t \in Slots : SameJob(t) /\ SameCounts(t)
    BY DEF Elsewhere, SameJob, SameCounts
  <2>2. ASSUME NEW t \in Slots, job[t].seq > 0
        PROVE  /\ job'[t].progress \in Array(job[t].nrows, Nat)
               /\ job'[t].parked_need \in Array(job[t].nrows, Nat)
               /\ job'[t].parked_owner \in Array(job[t].nrows, Workers \cup {NoJob})
               /\ \A x \in 0 .. job[t].nrows - 1 :
                    /\ job'[t].progress[x] >= job[t].progress[x]
                    /\ x >= job[t].next_row => job'[t].progress[x] = job[t].progress[x]
                    /\ ~env.park => job'[t].parked_need[x] = job[t].parked_need[x]
    <3>1. Entry(t)
      BY <2>2, SafeFacts
    <3>2. CASE t = s
      <4>1. \A x \in 0 .. job[s].nrows - 1 : x >= job[s].next_row => x # r
        BY <1>2, <1>3
      <4>2. \A x \in 0 .. job[s].nrows - 1 :
              x >= job[s].next_row => job'[s].progress[x] = job[s].progress[x]
        BY <1>0, <4>1
      <4> QED
        BY ONLY <1>7, <3>1, <3>2, <4>2,
                job'[s].progress \in Array(job[s].nrows, Nat),
                job'[s].parked_need \in Array(job[s].nrows, Nat),
                job'[s].parked_owner \in Array(job[s].nrows, Workers \cup {NoJob}),
                ~env.park => job'[s].parked_need = job[s].parked_need
    <3>3. CASE t # s
      <4>1. job'[t] = job[t]
        BY <3>3 DEF Elsewhere
      <4>2. \A x \in 0 .. job[t].nrows - 1 : job[t].progress[x] \in Nat
        BY <3>1 DEF Entry, Array
      <4>3. \A x \in 0 .. job[t].nrows - 1 : job[t].progress[x] >= job[t].progress[x]
        BY <4>2
      <4> QED
        BY <3>1, <4>1, <4>3 DEF Entry
    <3> QED
      BY <3>2, <3>3
  <2> QED
    BY <1>11, <1>12, <2>1, <2>2, SafeFacts, LedgerKept
<1> QED
  BY <1>5, <1>6, <1>8, <1>9, <1>13 DEF Safe, Places

LEMMA EndCellSafe == ASSUME Safe, NEW w \in Workers, EndCell(w) PROVE Safe'
<1> DEFINE s == at[w]
           r == row[w]
           c == col[w]
<1>1. /\ pc[w] = "cell" /\ pc' = [pc EXCEPT ![w] = "notify"]
      /\ job' = [job EXCEPT ![s].progress[r] = c + 1]
      /\ UNCHANGED <<env, seq_next, stack, pub, kick, shutdown, at, row, col, run_seq, held, cur_seq, sub>>
  BY DEF EndCell, Goto
<1>2. InRow(w) /\ pc[w] \in Active /\ s \in Slots /\ TypeOK /\ Place(w)
  BY <1>1, SafeFacts DEF Place, Active, InRow
<1>3. /\ job[s].kind = 0 /\ job[s].used /\ ~job[s].done /\ r < job[s].next_row
      /\ c < job[s].ncols /\ job[s].progress[r] = c
      /\ job[s].seq = run_seq[w] /\ job[s].seq = cur_seq[w]
  BY <1>1, <1>2 DEF InRow, Before
<1>4. /\ Entry(s) /\ job[s].nrows \in Nat /\ job[s].next_row \in Nat
      /\ job[s].next_row <= job[s].nrows /\ r \in Nat /\ c \in Nat
  BY <1>2, <1>3, SafeFacts, JobTypes DEF Entry, TypeOK
<1> HIDE DEF s, r, c
<1>0. s = at[w] /\ r = row[w] /\ c = col[w]
  BY DEF s, r, c
<1>5. r \in 0 .. job[s].nrows - 1
  BY <1>3, <1>4
<1>6. /\ job' \in [Slots -> Jobs] /\ Elsewhere(s) /\ SameJob(s) /\ SameCounts(s)
      /\ job'[s].parked_need = job[s].parked_need
      /\ job'[s].parked_owner = job[s].parked_owner
      /\ job'[s].progress = [job[s].progress EXCEPT ![r] = c + 1]
      /\ job'[s].progress \in Array(job[s].nrows, Nat)
  <2>1. job[s].progress \in Array(job[s].nrows, Nat) /\ c + 1 \in Nat
    BY <1>4 DEF Entry
  <2> QED
    BY <1>1, <1>2, <1>5, <2>1, WroteProgress
<1>7. /\ \A x \in 0 .. job[s].nrows - 1 : x # r => job'[s].progress[x] = job[s].progress[x]
      /\ job'[s].progress[r] = c + 1
      /\ \A x \in 0 .. job[s].nrows - 1 : job[s].progress[x] \in Nat /\ job'[s].progress[x] \in Nat
  BY ONLY <1>4, <1>5, <1>6 DEF Entry, Array
<1>8. \A x \in 0 .. job[s].nrows - 1 : job'[s].progress[x] >= job[s].progress[x]
  BY <1>3, <1>4, <1>7
<1>9. /\ pc'[w] = "notify" /\ \A v \in Workers \ {w} : pc'[v] = pc[v]
      /\ pc' \in [Workers -> Labels] /\ col' \in [Workers -> Nat]
  BY <1>1, <1>2 DEF TypeOK, Labels, Active
<1>10. \A v \in Workers \ {w} : Bystander(v)
  BY <1>1, <1>9 DEF Bystander
<1>11. /\ stack' \in Seq(Workers) /\ Stacked' /\ \A v \in Workers : InStack(v)' => InStack(v)
  <2>1. \A v \in Workers : pc[v] = "sleep" => pc'[v] = "sleep"
    BY <1>1, <1>9
  <2> QED
    BY <1>1, <1>2, <2>1, StackStep DEF TypeOK
<1>12. InRow(w)'
  <2>1. /\ job'[s].kind = 0 /\ job'[s].used /\ ~job'[s].done /\ job'[s].ncols = job[s].ncols
        /\ job'[s].next_row = job[s].next_row /\ job'[s].seq = job[s].seq
    BY <1>3, <1>6 DEF SameJob, SameCounts
  <2>2. at'[w] = s /\ row'[w] = r /\ col'[w] = c /\ run_seq'[w] = run_seq[w] /\ cur_seq'[w] = cur_seq[w]
    BY <1>0, <1>1
  <2> QED
    BY <1>2, <1>3, <1>7, <1>9, <2>1, <2>2 DEF InRow, Before
<1>13. \A v \in Workers \ {w} : \A h \in held[v] : h.at = s => WaitKept(v, h)
  <2> SUFFICES ASSUME NEW v \in Workers \ {w}, NEW h \in held[v], h.at = s PROVE WaitKept(v, h)
    OBVIOUS
  <2>1. h.row # r
    BY <1>0, <1>2, OneOwner
  <2>2. h.row \in 0 .. job[s].nrows - 1 /\ h.row - 1 \in 0 .. job[s].nrows - 1
    BY HeldFacts
  <2> QED
    BY <1>6, <1>7, <1>8, <2>1, <2>2 DEF WaitKept
<1>14. pc'[w] \in Active /\ job'[s].progress[r] >= job[s].progress[r]
  BY <1>5, <1>8, <1>9 DEF Active
<1>15. /\ job'[s].parked_need \in Array(job[s].nrows, Nat)
       /\ job'[s].parked_owner \in Array(job[s].nrows, Workers \cup {NoJob})
  BY <1>4, <1>6 DEF Entry
<1>16. /\ \A x \in 0 .. job[s].nrows - 1 : x # row[w] => job'[s].progress[x] = job[s].progress[x]
       /\ job'[s].progress[row[w]] >= job[s].progress[row[w]]
  BY <1>0, <1>7, <1>14
<1>17. /\ UNCHANGED <<env, seq_next, pub, kick, shutdown, sub>>
       /\ UNCHANGED <<at, row, run_seq, held, cur_seq>>
  BY <1>1
<1>18. /\ s \in Slots /\ s = at[w] /\ pc[w] \in Active /\ pc'[w] \in Active
       /\ job' \in [Slots -> Jobs] /\ Elsewhere(s) /\ SameJob(s) /\ SameCounts(s)
       /\ job'[s].progress \in Array(job[s].nrows, Nat)
       /\ ~env.park => job'[s].parked_need = job[s].parked_need
       /\ pc' \in [Workers -> Labels] /\ col' \in [Workers -> Nat]
  BY <1>0, <1>2, <1>6, <1>9, <1>14
<1> QED
  BY <1>10, <1>11, <1>12, <1>13, <1>15, <1>16, <1>17, <1>18, RowWorker DEF s

LEMMA HintWakeSafe == ASSUME Safe, NEW w \in Workers, HintWake(w) PROVE Safe'
<1> DEFINE s == at[w]
           r == row[w]
           c == col[w]
<1>1. /\ pc[w] = "hint" /\ NextColumn(w)
      /\ UNCHANGED <<env, seq_next, pub, kick, shutdown, at, row, run_seq, held, cur_seq, sub>>
  BY DEF HintWake
<1>2. InRow(w) /\ pc[w] \in Active /\ s \in Slots /\ TypeOK /\ Place(w)
  BY <1>1, SafeFacts DEF Place, Active, InRow
<1>3. CASE job' = job /\ stack' = stack
  <2>1. /\ pc' = [pc EXCEPT ![w] = pc'[w]] /\ pc'[w] \in Active \ {"wait"}
        /\ pc' \in [Workers -> Labels] /\ col' \in [Workers -> Nat]
        /\ \A v \in Workers \ {w} : col'[v] = col[v]
        /\ InRow(w)'
    <3>1. job' \in [Slots -> Jobs] /\ SameJob(at[w]) /\ SameCounts(at[w])
      BY <1>3, SafeFacts DEF TypeOK, SameJob, SameCounts
    <3> QED
      BY <1>1, <1>3, <3>1, NextColumnFacts DEF Active
  <2>2. stack' \in Seq(Workers) /\ Stacked' /\ \A v \in Workers : InStack(v)' => InStack(v)
    <3>1. \A v \in Workers : pc[v] = "sleep" => pc'[v] = "sleep"
      BY <1>1, <2>1
    <3> QED
      BY <1>1, <1>3, <3>1, StackStep
  <2> QED
    BY <1>1, <1>2, <1>3, <2>1, <2>2, QuietWorker
<1>4. CASE /\ HintDue(w)
           /\ job' = [job EXCEPT ![s].parked_need[r + 1] = INT_MAX]
           /\ stack' = StackRemove(stack, job[s].parked_owner[r + 1])
  <2>1. /\ job[s].kind = 0 /\ job[s].used /\ ~job[s].done /\ r < job[s].next_row
        /\ c < job[s].ncols /\ job[s].progress[r] = c + 1
    BY <1>1, <1>2 DEF InRow, Before
  <2>2. /\ Entry(s) /\ job[s].nrows \in Nat /\ job[s].next_row \in Nat
        /\ job[s].next_row <= job[s].nrows /\ r \in Nat /\ c \in Nat
    BY <1>2, <2>1, SafeFacts, JobTypes DEF Entry, TypeOK
  <2>3. r + 1 < job[s].nrows /\ job[s].parked_need[r + 1] <= c + 1
    BY <1>4 DEF HintDue
  <2> DEFINE q == r + 1
             o == job[s].parked_owner[q]
  <2>4. q \in 0 .. job[s].nrows - 1 /\ q - 1 = r /\ r \in 0 .. job[s].nrows - 1
    BY <2>2, <2>3
  <2> HIDE DEF s, r, c, q, o
  <2>5. s = at[w] /\ r = row[w] /\ c = col[w] /\ q = r + 1 /\ o = job[s].parked_owner[q]
    BY DEF s, r, c, q, o
  <2>6. /\ job' \in [Slots -> Jobs] /\ Elsewhere(s) /\ SameJob(s) /\ SameCounts(s)
        /\ job'[s].progress = job[s].progress
        /\ job'[s].parked_owner = job[s].parked_owner
        /\ job'[s].parked_need = [job[s].parked_need EXCEPT ![q] = INT_MAX]
        /\ job'[s].parked_need \in Array(job[s].nrows, Nat)
    <3>1. job[s].parked_need \in Array(job[s].nrows, Nat) /\ INT_MAX \in Nat
      BY <2>2, IntMax DEF Entry
    <3>2. job' = [job EXCEPT ![s].parked_need[q] = INT_MAX]
      BY <1>4, <2>5
    <3> QED
      BY ONLY <1>2, <2>4, <3>1, <3>2, WroteNeed
  <2>7. \A x \in 0 .. job[s].nrows - 1 : x # q => job'[s].parked_need[x] = job[s].parked_need[x]
    BY ONLY <2>2, <2>4, <2>6 DEF Entry, Array
  <2>8. /\ pc' = [pc EXCEPT ![w] = pc'[w]] /\ pc'[w] \in {"run", "rowend"}
        /\ pc' \in [Workers -> Labels] /\ col' \in [Workers -> Nat]
        /\ \A v \in Workers \ {w} : col'[v] = col[v]
        /\ InRow(w)'
    BY <1>1, <2>5, <2>6, NextColumnFacts
  <2>9. \A v \in Workers \ {w} : Bystander(v)
    BY <1>1, <2>8 DEF Bystander
  <2>10. /\ stack' \in Seq(Workers) /\ Stacked' /\ \A v \in Workers : InStack(v)' => InStack(v)
         /\ \A v \in Workers : v = o => ~InStack(v)'
    <3>1. /\ stack \in Seq(Workers) /\ stack' = StackRemove(stack, o)
          /\ \A i, j \in 1 .. Len(stack) : stack[i] = stack[j] => i = j
          /\ shutdown => stack = << >>
      BY <1>4, <2>5, SafeFacts DEF TypeOK, Stacked
    <3>2. /\ stack' \in Seq(Workers)
          /\ \A i \in 1 .. Len(stack') : stack'[i] # o /\ \E k \in 1 .. Len(stack) : stack'[i] = stack[k]
          /\ \A i, j \in 1 .. Len(stack') : stack'[i] = stack'[j] => i = j
          /\ stack = << >> => stack' = << >>
      BY ONLY <3>1, RemovedStack
    <3>3. \A v \in Workers : pc[v] = "sleep" => pc'[v] = "sleep"
      BY <1>1, <2>8
    <3>4. Stacked' /\ \A v \in Workers : InStack(v)' => InStack(v)
      BY <1>1, <3>1, <3>2, <3>3, StackFrom
    <3>5. \A v \in Workers : v = o => ~InStack(v)'
      BY <3>2 DEF InStack
    <3> QED
      BY <3>2, <3>4, <3>5
  <2>11. \A v \in Workers \ {w} : \A h \in held[v] : h.at = s => WaitKept(v, h)
    <3> SUFFICES ASSUME NEW v \in Workers \ {w}, NEW h \in held[v], h.at = s PROVE WaitKept(v, h)
      OBVIOUS
    <3>1. /\ h.row \in 0 .. job[s].nrows - 1 /\ h.row - 1 \in 0 .. job[s].nrows - 1
          /\ job[s].progress[h.row - 1] \in Nat /\ Holds(v, h) /\ h.need \in Nat
      BY HeldFacts
    <3>2. job[s].progress[h.row - 1] >= job[s].progress[h.row - 1]
      BY <3>1
    <3>3. CASE h.row # q
      BY <2>6, <2>7, <3>1, <3>2, <3>3 DEF WaitKept
    <3>4. CASE h.row = q
      <4>1. o = v /\ ~InStack(v)'
        BY <2>5, <2>10, <3>1, <3>4 DEF Holds
      <4>2. job[s].progress[h.row - 1] >= h.need
        <5>1. CASE job[s].parked_need[h.row] = h.need
          <6>1. h.need <= c + 1 /\ job[s].progress[h.row - 1] = c + 1
            BY <2>1, <2>3, <2>4, <2>5, <3>4, <5>1
          <6> QED
            BY <2>2, <3>1, <6>1
        <5>2. CASE job[s].parked_need[h.row] # h.need
          BY <3>1, <5>2 DEF Holds
        <5> QED
          BY <5>1, <5>2
      <4> QED
        BY <2>6, <3>1, <3>2, <4>1, <4>2 DEF WaitKept
    <3> QED
      BY <3>3, <3>4
  <2>12. /\ job'[s].progress[r] >= job[s].progress[r]
         /\ \A x \in 0 .. job[s].nrows - 1 : job'[s].progress[x] = job[s].progress[x]
    <3>1. c + 1 >= c + 1
      BY <2>2
    <3> QED
      BY <2>1, <2>6, <3>1
  <2>13. /\ job'[s].progress \in Array(job[s].nrows, Nat)
         /\ job'[s].parked_owner \in Array(job[s].nrows, Workers \cup {NoJob})
    BY <2>2, <2>6 DEF Entry
  <2>14. ~env.park => job'[s].parked_need = job[s].parked_need
    <3> SUFFICES ASSUME ~env.park PROVE job'[s].parked_need = job[s].parked_need
      OBVIOUS
    <3>1. job[s].parked_need[q] = INT_MAX /\ job[s].parked_need \in Array(job[s].nrows, Nat)
      BY <2>2, <2>4 DEF Entry
    <3> QED
      BY <2>6, <3>1 DEF Array
  <2>15. pc'[w] \in Active
    BY <2>8 DEF Active
  <2> QED
    BY <1>1, <1>2, <2>5, <2>6, <2>8, <2>9, <2>10, <2>11, <2>12, <2>13, <2>14, <2>15, RowWorker
<1> QED
  BY <1>3, <1>4 DEF HintWake

\* A cascade leaves the stack, or pops one.
LEMMA CascadedStack ==
  ASSUME NEW J, NEW st
  PROVE  Cascaded(J, st) \in {st, Popped(st)}
BY DEF Cascaded

LEMMA ResumeSafe == ASSUME Safe, NEW w \in Workers, Resume(w) PROVE Safe'
<1>1. PICK s \in Slots, h \in Resumable(w) :
        /\ h.at = s
        /\ job' = [job EXCEPT ![s].parked_need[h.row] = INT_MAX]
        /\ held' = [held EXCEPT ![w] = @ \ {h}]
        /\ at' = [at EXCEPT ![w] = s]
        /\ row' = [row EXCEPT ![w] = h.row] /\ col' = [col EXCEPT ![w] = h.col]
        /\ run_seq' = [run_seq EXCEPT ![w] = job[s].seq]
        /\ cur_seq' = [cur_seq EXCEPT ![w] = job[s].seq]
        /\ stack' \in {stack, Popped(stack)}
  <2> DEFINE S == {h.at : h \in Resumable(w)}
             s == Oldest(S)
             h == CHOOSE x \in Resumable(w) : x.at = s
  <2>1. S \in SUBSET Slots /\ S # {}
    <3>1. \A h1 \in Resumable(w) : h1.at \in Slots
      BY HeldFacts DEF Resumable
    <3>2. Resumable(w) # {}
      BY DEF Resume
    <3> QED
      BY <3>1, <3>2
  <2>2. s \in S
    BY <2>1, OldestIn, SafeFacts
  <2>3. h \in Resumable(w) /\ h.at = s
    BY <2>2
  <2>4. Cascaded([job EXCEPT ![s].parked_need[h.row] = INT_MAX], stack) \in {stack, Popped(stack)}
    BY CascadedStack
  <2> QED
    BY <2>1, <2>2, <2>3, <2>4 DEF Resume
<1>2. /\ pc[w] = "top" /\ pc' = [pc EXCEPT ![w] = "run"]
      /\ UNCHANGED <<env, seq_next, pub, kick, shutdown, sub>>
  BY DEF Resume, Goto
<1>3. TypeOK /\ Place(w) /\ h \in held[w]
  BY SafeFacts DEF Resumable
<1>4. /\ h.row \in Nat \ {0} /\ h.col \in Nat /\ h.need \in Nat /\ Entry(s) /\ job[s].nrows \in Nat
      /\ job[s].next_row \in Nat /\ h.row \in 0 .. job[s].nrows - 1
      /\ job[s].kind = 0 /\ job[s].used /\ ~job[s].done
      /\ h.row < job[s].next_row /\ h.col < job[s].ncols /\ job[s].progress[h.row] = h.col
  BY <1>1, <1>3, HeldFacts DEF Holds
<1>5. env.park /\ job[s].seq <= seq_next /\ job[s].seq \in Nat
  BY <1>3, SafeFacts, JobTypes DEF Place, Table, Tabled
<1>6. /\ job' \in [Slots -> Jobs] /\ Elsewhere(s) /\ SameJob(s) /\ SameCounts(s)
      /\ job'[s].progress = job[s].progress
      /\ job'[s].parked_owner = job[s].parked_owner
      /\ job'[s].parked_need = [job[s].parked_need EXCEPT ![h.row] = INT_MAX]
      /\ job'[s].parked_need \in Array(job[s].nrows, Nat)
  <2>1. job[s].parked_need \in Array(job[s].nrows, Nat) /\ INT_MAX \in Nat
    BY <1>4, IntMax DEF Entry
  <2>2. job' = [job EXCEPT ![s].parked_need[h.row] = INT_MAX]
    BY <1>1
  <2> QED
    BY ONLY <1>3, <1>4, <2>1, <2>2, WroteNeed
<1>7. \A x \in 0 .. job[s].nrows - 1 : x # h.row => job'[s].parked_need[x] = job[s].parked_need[x]
  BY ONLY <1>4, <1>6 DEF Entry, Array
<1>8. /\ pc'[w] = "run" /\ at'[w] = s /\ row'[w] = h.row /\ col'[w] = h.col
      /\ run_seq'[w] = job[s].seq /\ cur_seq'[w] = job[s].seq /\ held'[w] = held[w] \ {h}
  BY <1>1, <1>2, <1>3 DEF TypeOK
<1>9. \A v \in Workers \ {w} :
         /\ pc'[v] = pc[v] /\ at'[v] = at[v] /\ row'[v] = row[v] /\ col'[v] = col[v]
         /\ run_seq'[v] = run_seq[v] /\ cur_seq'[v] = cur_seq[v] /\ held'[v] = held[v]
  BY <1>1, <1>2, <1>3 DEF TypeOK
<1>10. \A v \in Workers \ {w} : Bystander(v)
  BY <1>9 DEF Bystander
<1>11. /\ stack' \in Seq(Workers) /\ Stacked' /\ \A v \in Workers : InStack(v)' => InStack(v)
  <2>1. \A v \in Workers : pc[v] = "sleep" => pc'[v] = "sleep"
    BY <1>2, <1>9
  <2> QED
    BY <1>1, <1>2, <2>1, StackStep DEF TypeOK
<1>12. TypeOK'
  <2>1. /\ pc' \in [Workers -> Labels] /\ held' \in [Workers -> SUBSET Parked]
        /\ at' \in [Workers -> Slots \cup {NoJob}] /\ row' \in [Workers -> Nat]
        /\ col' \in [Workers -> Nat]
    BY <1>1, <1>2, <1>3, <1>4 DEF TypeOK, Labels, Active
  <2>2. run_seq' \in [Workers -> Nat] /\ cur_seq' \in [Workers -> Nat]
    BY <1>1, <1>3, <1>5 DEF TypeOK
  <2> QED
    BY <1>2, <1>3, <1>6, <1>11, <2>1, <2>2 DEF TypeOK, Labels, sub
<1>13. \A p \in Submitters : Calling(p)'
  BY <1>2, CallingKept DEF sub
<1>14. ASSUME NEW v \in Workers \ {w} PROVE Place(v)'
  <2>1. job'[s].done = job[s].done /\ job'[s].next_row >= job[s].next_row
    BY <1>4, <1>6 DEF SameCounts
  <2>2. ASSUME NEW g \in held[v], g.at = s PROVE WaitKept(v, g)
    <3>1. g.row # h.row
      <4>1. Owns(v, s) \cap Owns(w, s) = {}
        BY SafeFacts DEF Alone
      <4>2. g.row \in Owns(v, s) /\ h.row \in Owns(w, s)
        BY <1>1, <1>3, <2>2 DEF Owns
      <4> QED
        BY <4>1, <4>2
    <3>2. g.row \in 0 .. job[s].nrows - 1 /\ g.row - 1 \in 0 .. job[s].nrows - 1
          /\ job[s].progress[g.row - 1] \in Nat
      BY <2>2, HeldFacts
    <3>3. job[s].progress[g.row - 1] >= job[s].progress[g.row - 1]
      BY <3>2
    <3> QED
      BY <1>6, <1>7, <2>2, <3>1, <3>2, <3>3 DEF WaitKept
  <2> QED
    BY <1>2, <1>6, <1>10, <1>11, <2>1, <2>2, OthersPlaced
<1>15. Place(w)'
  <2>1. \A g \in held[w] : g # h => g.at # s /\ g.at \in Slots
    BY <1>1, <1>3, HeldFacts DEF Place
  <2>2. ASSUME NEW g \in held[w], g # h PROVE Holds(w, g)'
    <3>1. job'[g.at] = job[g.at] /\ Holds(w, g)
      BY <1>3, <1>6, <2>1, <2>2 DEF Elsewhere, Place
    <3> QED
      BY <1>11, <3>1 DEF Holds
  <2>3. (\A g \in held[w] : Holds(w, g))'
    BY <1>8, <2>2
  <2>4. (\A g, x \in held[w] : g.at = x.at => g = x)'
    BY <1>3, <1>8 DEF Place
  <2>5. InRow(w)'
    <3>1. /\ job'[s].kind = 0 /\ job'[s].used /\ ~job'[s].done /\ job'[s].ncols = job[s].ncols
          /\ job'[s].next_row = job[s].next_row /\ job'[s].seq = job[s].seq
          /\ job'[s].progress = job[s].progress
      BY <1>4, <1>6 DEF SameJob, SameCounts
    <3> QED
      BY <1>4, <1>8, <3>1 DEF InRow, Before
  <2>6. pc'[w] \notin {"unit", "next", "bottom"}
    BY <1>8
  <2>7. (run_seq[w] <= seq_next)' /\ (~env.park => held[w] = {})'
    BY <1>2, <1>5, <1>8
  <2>8. (at[w] \notin HeldJobs(w))'
    BY <1>8, <2>1 DEF HeldJobs
  <2> QED
    BY <2>3, <2>4, <2>5, <2>6, <2>7, <2>8 DEF Place
<1>16. \A v \in Workers, t \in Slots : Owns(v, t)' = Owns(v, t)
  <2>1. \A v \in Workers \ {w}, t \in Slots : Owns(v, t)' = Owns(v, t)
    BY <1>10, OwnsKept
  <2>2. ASSUME NEW t \in Slots PROVE Owns(w, t)' = Owns(w, t)
    <3>1. pc'[w] \in Active /\ pc[w] \notin Active
      BY <1>2, <1>8 DEF Active
    <3>2. \A g \in held[w] : g # h => g.at # s
      BY <1>1, <1>3 DEF Place
    <3>3. CASE t = s
      BY <1>1, <1>3, <1>8, <3>1, <3>2, <3>3 DEF Owns
    <3>4. CASE t # s
      BY <1>1, <1>3, <1>8, <3>1, <3>2, <3>4 DEF Owns
    <3> QED
      BY <3>3, <3>4
  <2> QED
    BY <2>1, <2>2
<1>17. \A t \in Slots : InUnit(t)' = InUnit(t)
  <2>1. \A v \in Workers : (pc'[v] = "unit" <=> pc[v] = "unit") /\ (pc[v] = "unit" => at'[v] = at[v])
    BY <1>2, <1>8, <1>9
  <2> QED
    BY <2>1 DEF InUnit
<1>18. Table' /\ Alone' /\ NotLost'
  <2>1. \A t \in Slots : SameJob(t) /\ SameCounts(t)
    BY <1>6 DEF Elsewhere, SameJob, SameCounts
  <2>2. ASSUME NEW t \in Slots, job[t].seq > 0
        PROVE  /\ job'[t].progress \in Array(job[t].nrows, Nat)
               /\ job'[t].parked_need \in Array(job[t].nrows, Nat)
               /\ job'[t].parked_owner \in Array(job[t].nrows, Workers \cup {NoJob})
               /\ job'[t].progress = job[t].progress
    <3>1. Entry(t)
      BY <2>2, SafeFacts
    <3>2. CASE t = s
      BY <1>6, <3>1, <3>2 DEF Entry
    <3>3. CASE t # s
      BY <1>6, <3>1, <3>3 DEF Entry, Elsewhere
    <3> QED
      BY <3>2, <3>3
  <2>3. ASSUME NEW t \in Slots, job[t].seq > 0, NEW x \in 0 .. job[t].nrows - 1
        PROVE  job[t].progress[x] >= job[t].progress[x]
    <3>1. job[t].progress[x] \in Nat
      BY <2>3, SafeFacts DEF Entry, Array
    <3> QED
      BY <3>1
  <2> QED
    BY <1>2, <1>5, <1>6, <1>16, <1>17, <2>1, <2>2, <2>3, SafeFacts, LedgerKept
<1> QED
  BY <1>11, <1>12, <1>13, <1>14, <1>15, <1>18 DEF Safe, Places

-----------------------------------------------------------------------------
(* Steps that claim or count.                                               *)

\* A worker owns claimed rows of wavefronts only, and the sets of the ledger
\* are finite.
LEMMA OwnsBelow ==
  ASSUME Safe, NEW v \in Workers, NEW s \in Slots, NEW r \in Owns(v, s)
  PROVE  /\ job[s].kind = 0 /\ job[s].used /\ ~job[s].done
         /\ r \in 0 .. job[s].next_row - 1
<1>1. CASE \E h \in held[v] : h.at = s /\ h.row = r
  <2>1. PICK h \in held[v] : h.at = s /\ h.row = r
    BY <1>1
  <2>2. Holds(v, h) /\ h.row \in Nat /\ job[s].next_row \in Nat /\ h.row < job[s].next_row
    BY <2>1, HeldFacts
  <2>3. r \in 0 .. job[s].next_row - 1
    BY <2>1, <2>2
  <2> QED
    BY <2>1, <2>2, <2>3 DEF Holds
<1>2. CASE at[v] = s /\ pc[v] \in Active /\ r = row[v]
  <2>1. InRow(v) /\ row[v] \in Nat /\ job[s].next_row \in Nat
    BY <1>2, SafeFacts, JobTypes DEF Place, TypeOK
  <2>2. job[s].kind = 0 /\ job[s].used /\ ~job[s].done /\ row[v] < job[s].next_row
    BY <1>2, <2>1 DEF InRow
  <2> QED
    BY <1>2, <2>1, <2>2
<1> QED
  BY <1>1, <1>2 DEF Owns

LEMMA LedgerSets ==
  ASSUME Safe, NEW s \in Slots
  PROVE  /\ IsFiniteSet(InHand(s)) /\ IsFiniteSet(InUnit(s))
         /\ Cardinality(InHand(s)) \in Nat /\ Cardinality(InUnit(s)) \in Nat
<1>1. job[s].next_row \in Nat
  BY SafeFacts, JobTypes
<1>2. IsFiniteSet(0 .. job[s].next_row - 1)
  BY <1>1, FS_Interval
<1>3. InHand(s) \subseteq 0 .. job[s].next_row - 1 /\ InUnit(s) \subseteq Workers
  BY DEF InHand, InUnit
<1>4. IsFiniteSet(InHand(s)) /\ IsFiniteSet(InUnit(s))
  BY <1>2, <1>3, FS_Subset, PoolAssumption
<1> QED
  BY <1>4, FS_CardinalityType

\* The table after a step that claims, counts or ends in slot s.
LEMMA LedgerStep ==
  ASSUME Safe, job' \in [Slots -> Jobs], env' = env, seq_next' = seq_next,
         NEW s \in Slots, Elsewhere(s), SameJob(s), SameRows(s), job[s].seq > 0,
         \A v \in Workers, t \in Slots \ {s} : Owns(v, t)' = Owns(v, t),
         \A t \in Slots \ {s} : InUnit(t)' = InUnit(t),
         job'[s].next_row \in job[s].next_row .. job[s].nrows,
         job[s].used \/ job'[s].done,
         job'[s].done => job'[s].rows_done = job[s].nrows,
         job[s].kind = 0 => job'[s].rows_done + Cardinality(InHand(s)') = job'[s].next_row,
         job[s].kind = 1 => job'[s].rows_done + Cardinality(InUnit(s)') = job'[s].next_row,
         job[s].kind = 0 => \A r \in 0 .. job'[s].next_row - 1 :
            job[s].progress[r] < job[s].ncols => \E w \in Workers : r \in Owns(w, s)'
  PROVE  Table' /\ NotLost'
<1>1. Entry(s) /\ job[s].next_row \in Nat /\ job[s].nrows \in Nat
  BY SafeFacts, JobTypes
<1>2. /\ job'[s].nrows = job[s].nrows /\ job'[s].ncols = job[s].ncols /\ job'[s].kind = job[s].kind
      /\ job'[s].used = job[s].used /\ job'[s].seq = job[s].seq
      /\ job'[s].progress = job[s].progress /\ job'[s].parked_need = job[s].parked_need
      /\ job'[s].parked_owner = job[s].parked_owner
  BY DEF SameJob, SameRows
<1>3. ASSUME NEW t \in Slots PROVE Tabled(t)'
  <2>1. CASE t = s
    <3>1. job'[s].next_row >= job[s].next_row /\ job'[s].next_row \in Nat
          /\ job'[s].next_row <= job[s].nrows
      BY <1>1
    <3>2. \A r \in 0 .. job[s].nrows - 1 : r >= job'[s].next_row => job[s].progress[r] = 0
      <4>1. \A r \in 0 .. job[s].nrows - 1 : r >= job'[s].next_row => r >= job[s].next_row
        BY <1>1, <3>1
      <4> QED
        BY <1>1, <4>1 DEF Entry
    <3>3. Entry(s)'
      <4>1. /\ job'[s].progress \in Array(job'[s].nrows, Nat)
            /\ job'[s].parked_need \in Array(job'[s].nrows, Nat)
            /\ job'[s].parked_owner \in Array(job'[s].nrows, Workers \cup {NoJob})
        BY <1>1, <1>2 DEF Entry
      <4>2. \A r \in 0 .. job'[s].nrows - 1 : r >= job'[s].next_row => job'[s].progress[r] = 0
        BY <1>2, <3>2
      <4>3. ~env'.park => \A r \in 0 .. job'[s].nrows - 1 : job'[s].parked_need[r] = INT_MAX
        BY <1>1, <1>2 DEF Entry
      <4>4. /\ job'[s].used \/ job'[s].done
            /\ job'[s].next_row <= job'[s].nrows
            /\ job'[s].done => job'[s].rows_done = job'[s].nrows
            /\ job'[s].kind = 0 => job'[s].rows_done + Cardinality(InHand(s)') = job'[s].next_row
            /\ job'[s].kind = 1 => job'[s].rows_done + Cardinality(InUnit(s)') = job'[s].next_row
        BY <1>2, <3>1
      <4> QED
        BY <4>1, <4>2, <4>3, <4>4 DEF Entry
    <3>4. Tabled(s)
      BY SafeFacts DEF Table
    <3> QED
      BY <1>2, <2>1, <3>3, <3>4 DEF Tabled
  <2>2. CASE t # s
    <3>1. job'[t] = job[t]
      BY <2>2 DEF Elsewhere
    <3>2. InHand(t)' = InHand(t) /\ InUnit(t)' = InUnit(t)
      BY <2>2, <3>1 DEF InHand
    <3>3. Tabled(t)
      BY SafeFacts DEF Table
    <3>4. Entry(t) => Entry(t)'
      BY <3>1, <3>2 DEF Entry
    <3> QED
      BY <3>1, <3>3, <3>4 DEF Tabled
  <2> QED
    BY <2>1, <2>2
<1>4. NotLost'
  <2> SUFFICES ASSUME NEW t \in Slots, job'[t].seq > 0, job'[t].kind = 0,
                      NEW r \in 0 .. job'[t].next_row - 1,
                      job'[t].progress[r] < job'[t].ncols
               PROVE  \E w \in Workers : r \in Owns(w, t)'
    BY DEF NotLost
  <2>1. CASE t = s
    BY <1>2, <2>1
  <2>2. CASE t # s
    <3>1. job'[t] = job[t]
      BY <2>2 DEF Elsewhere
    <3>2. \E w \in Workers : r \in Owns(w, t)
      BY <3>1, SafeFacts DEF NotLost
    <3> QED
      BY <2>2, <3>2
  <2> QED
    BY <2>1, <2>2
<1> QED
  BY <1>3, <1>4 DEF Table

\* The other workers, when a step writes neither rows nor the registration of s.
LEMMA OthersStay ==
  ASSUME Safe, job' \in [Slots -> Jobs], NEW s \in Slots, Elsewhere(s), SameJob(s), SameRows(s),
         env' = env, seq_next' = seq_next, job'[s].next_row >= job[s].next_row,
         NEW v \in Workers, Bystander(v), InStack(v)' => InStack(v),
         Busy(v, s) => job'[s].done = job[s].done
  PROVE  Place(v)'
<1>1. \A h \in held[v] : h.at = s => WaitKept(v, h)
  BY WaitRows
<1>2. job'[s].progress = job[s].progress
  BY DEF SameRows
<1> QED
  BY <1>1, <1>2, OthersPlaced

LEMMA ClaimSafe == ASSUME Safe, NEW w \in Workers, Claim(w) PROVE Safe'
<1>1. PICK s \in Slots \ HeldJobs(w) :
        /\ Ready(s)
        /\ job' = [job EXCEPT ![s].next_row = @ + 1]
        /\ at' = [at EXCEPT ![w] = s]
        /\ row' = [row EXCEPT ![w] = job[s].next_row] /\ col' = [col EXCEPT ![w] = 0]
        /\ run_seq' = [run_seq EXCEPT ![w] = job[s].seq]
        /\ cur_seq' = IF job[s].kind = 0 THEN [cur_seq EXCEPT ![w] = job[s].seq] ELSE cur_seq
        /\ stack' \in {stack, Popped(stack)}
        /\ pc' = [pc EXCEPT ![w] = IF job[s].kind = 0 THEN "run" ELSE "unit"]
  <2> DEFINE S == Fresh(w, NoJob)
             s == PickFrom(S, w)
  <2>1. S \in SUBSET Slots /\ S # {} /\ \A t \in S : t \in Slots \ HeldJobs(w) /\ Ready(t)
    BY DEF Claim, Fresh
  <2>2. s \in S
    BY <2>1, PickIn, SafeFacts
  <2>3. Cascaded([job EXCEPT ![s].next_row = @ + 1], stack) \in {stack, Popped(stack)}
    BY CascadedStack
  <2> QED
    BY <2>1, <2>2, <2>3 DEF Claim, Goto
<1>2. pc[w] = "top" /\ UNCHANGED <<env, seq_next, pub, kick, shutdown, held, sub>>
  BY DEF Claim
<1>3. TypeOK /\ Place(w)
  BY SafeFacts
<1>4. /\ job[s].used /\ ~job[s].done /\ job[s].next_row < job[s].nrows
      /\ job[s].seq > 0 /\ job[s].seq \in Nat /\ job[s].seq <= seq_next
      /\ job[s].next_row \in Nat /\ job[s].rows_done \in Nat /\ job[s].nrows \in Nat
      /\ job[s].ncols \in Nat \ {0} /\ job[s].kind \in {0, 1} /\ Entry(s)
  BY <1>1, SafeFacts, JobTypes DEF Ready, ReadyIn, Table, Tabled
<1> DEFINE n == job[s].next_row
<1>5. /\ job' \in [Slots -> Jobs] /\ Elsewhere(s) /\ SameJob(s) /\ SameRows(s)
      /\ job'[s].next_row = n + 1 /\ job'[s].rows_done = job[s].rows_done
      /\ job'[s].done = job[s].done
  BY <1>1, <1>3, WroteNextRow
<1>6. /\ pc'[w] = (IF job[s].kind = 0 THEN "run" ELSE "unit") /\ at'[w] = s /\ row'[w] = n
      /\ col'[w] = 0 /\ run_seq'[w] = job[s].seq /\ held'[w] = held[w]
      /\ job[s].kind = 0 => cur_seq'[w] = job[s].seq
  BY <1>1, <1>2, <1>3 DEF TypeOK
<1>7. \A v \in Workers \ {w} : Bystander(v) /\ pc'[v] = pc[v]
  BY <1>1, <1>2, <1>3 DEF TypeOK, Bystander
<1>8. /\ stack' \in Seq(Workers) /\ Stacked' /\ \A v \in Workers : InStack(v)' => InStack(v)
  <2>1. \A v \in Workers : pc[v] = "sleep" => pc'[v] = "sleep"
    BY <1>2, <1>7
  <2> QED
    BY <1>1, <1>2, <2>1, StackStep DEF TypeOK
<1>9. TypeOK'
  <2>1. /\ pc' \in [Workers -> Labels] /\ at' \in [Workers -> Slots \cup {NoJob}]
        /\ row' \in [Workers -> Nat] /\ col' \in [Workers -> Nat]
    BY <1>1, <1>3, <1>4 DEF TypeOK, Labels, Active
  <2>2. run_seq' \in [Workers -> Nat] /\ cur_seq' \in [Workers -> Nat]
    BY <1>1, <1>3, <1>4 DEF TypeOK
  <2> QED
    BY <1>2, <1>3, <1>5, <1>8, <2>1, <2>2 DEF TypeOK, Labels, sub
<1>10. \A p \in Submitters : Calling(p)'
  BY <1>2, CallingKept DEF sub
<1> HIDE DEF n
<1>0. n = job[s].next_row /\ n \in Nat
  BY <1>4 DEF n
<1>11. ASSUME NEW v \in Workers \ {w} PROVE Place(v)'
  <2>1. n + 1 >= n
    BY <1>0
  <2> QED
    BY <1>0, <1>2, <1>5, <1>7, <1>8, <2>1, OthersStay
<1>12. Place(w)'
  <2>1. \A h \in held[w] : h.at # s /\ h.at \in Slots
    BY <1>1, HeldFacts DEF HeldJobs
  <2>2. ASSUME NEW h \in held[w] PROVE Holds(w, h)'
    <3>1. job'[h.at] = job[h.at] /\ Holds(w, h)
      BY <1>3, <1>5, <2>1 DEF Elsewhere, Place
    <3> QED
      BY <1>8, <3>1 DEF Holds
  <2>3. (\A h \in held[w] : Holds(w, h))' /\ (at[w] \notin HeldJobs(w))'
    BY <1>6, <2>1, <2>2 DEF HeldJobs
  <2>4. (\A h, g \in held[w] : h.at = g.at => h = g)' /\ (run_seq[w] <= seq_next)'
        /\ (~env.park => held[w] = {})'
    BY <1>2, <1>3, <1>4, <1>6 DEF Place
  <2>5. /\ job'[s].kind = job[s].kind /\ job'[s].used /\ ~job'[s].done
        /\ job'[s].ncols = job[s].ncols /\ job'[s].seq = job[s].seq
        /\ job'[s].progress = job[s].progress
    BY <1>4, <1>5 DEF SameJob, SameRows
  <2>6. CASE job[s].kind = 0
    <3>1. pc'[w] = "run" /\ cur_seq'[w] = job[s].seq
      BY <1>6, <2>6
    <3>2. job[s].progress[n] = 0 /\ n < n + 1 /\ 0 < job[s].ncols
      <4>1. n \in 0 .. job[s].nrows - 1 /\ n >= n
        BY <1>0, <1>4
      <4> QED
        BY <1>0, <1>4, <4>1 DEF Entry
    <3>3. InRow(w)'
      BY <1>5, <1>6, <2>5, <2>6, <3>1, <3>2 DEF InRow, Before
    <3>4. pc'[w] \notin {"unit", "next", "bottom"}
      BY <3>1
    <3> QED
      BY <2>3, <2>4, <3>3, <3>4 DEF Place
  <2>7. CASE job[s].kind = 1
    <3>1. pc'[w] = "unit"
      BY <1>6, <2>7
    <3>2. InLoop(w)'
      BY <1>4, <1>6, <2>5, <2>7, <3>1 DEF InLoop
    <3>3. pc'[w] \notin Active
      BY <3>1 DEF Active
    <3> QED
      BY <2>3, <2>4, <3>2, <3>3 DEF Place
  <2> QED
    BY <1>4, <2>6, <2>7
<1>13. /\ \A v \in Workers \ {w}, t \in Slots : Owns(v, t)' = Owns(v, t)
       /\ \A t \in Slots \ {s} : Owns(w, t)' = Owns(w, t)
       /\ Owns(w, s) = {}
       /\ job[s].kind = 0 => Owns(w, s)' = {n}
       /\ job[s].kind = 1 => Owns(w, s)' = {}
  <2>1. \A v \in Workers \ {w}, t \in Slots : Owns(v, t)' = Owns(v, t)
    BY <1>7, OwnsKept
  <2>2. pc[w] \notin Active /\ (job[s].kind = 0 => pc'[w] \in Active)
        /\ (job[s].kind = 1 => pc'[w] \notin Active)
    BY <1>2, <1>6 DEF Active
  <2>3. \A h \in held[w] : h.at # s
    BY <1>1 DEF HeldJobs
  <2>4. \A t \in Slots \ {s} : Owns(w, t)' = Owns(w, t)
    BY <1>6, <2>2 DEF Owns
  <2>5. Owns(w, s) = {}
    BY <2>2, <2>3 DEF Owns
  <2>6. job[s].kind = 0 => Owns(w, s)' = {n}
    BY <1>6, <2>2, <2>3 DEF Owns
  <2>7. job[s].kind = 1 => Owns(w, s)' = {}
    BY <1>6, <2>2, <2>3 DEF Owns
  <2> QED
    BY <2>1, <2>4, <2>5, <2>6, <2>7
<1>14. \A t \in Slots \ {s} : InUnit(t)' = InUnit(t)
  <2>1. \A v \in Workers, t \in Slots \ {s} : (pc'[v] = "unit" /\ at'[v] = t) <=> (pc[v] = "unit" /\ at[v] = t)
    BY <1>2, <1>6, <1>7 DEF Bystander
  <2> QED
    BY <2>1 DEF InUnit
<1>15. job[s].kind = 0 =>
         /\ InHand(s)' = InHand(s) \cup {n} /\ n \notin InHand(s)
         /\ Cardinality(InHand(s)') = Cardinality(InHand(s)) + 1
  <2> SUFFICES ASSUME job[s].kind = 0
               PROVE  /\ InHand(s)' = InHand(s) \cup {n} /\ n \notin InHand(s)
                      /\ Cardinality(InHand(s)') = Cardinality(InHand(s)) + 1
    OBVIOUS
  <2>1. \A x \in InHand(s) : x \in 0 .. n - 1
    BY <1>0 DEF InHand
  <2>2. n \notin 0 .. n - 1 /\ \A x \in 0 .. n : x \in 0 .. n - 1 \/ x = n
    BY <1>0
  <2>3. \A x \in 0 .. n - 1 : x \in 0 .. n + 1 - 1
    BY <1>0
  <2>4. n \in 0 .. n + 1 - 1 /\ \A x \in 0 .. n + 1 - 1 : x \in 0 .. n - 1 \/ x = n
    BY <1>0
  <2>5. \A x : x \in InHand(s)' <=> x \in 0 .. n + 1 - 1 /\ \E v \in Workers : x \in Owns(v, s)'
    <3>1. \A x : x \in InHand(s)' <=>
                    x \in 0 .. job'[s].next_row - 1 /\ \E v \in Workers : x \in Owns(v, s)'
      BY DEF InHand
    <3>2. job'[s].next_row = n + 1
      BY <1>5
    <3>3. 0 .. job'[s].next_row - 1 = 0 .. n + 1 - 1
      BY ONLY <1>0, <3>2
    <3> QED
      BY ONLY <3>1, <3>3, Zenon
  <2>6. \A x : x \in InHand(s) <=> x \in 0 .. n - 1 /\ \E v \in Workers : x \in Owns(v, s)
    BY <1>0 DEF InHand
  <2>7. \A r \in 0 .. n - 1 : (\E v \in Workers : r \in Owns(v, s)') <=> \E v \in Workers : r \in Owns(v, s)
    BY <1>13, <2>2
  <2>8. \E v \in Workers : n \in Owns(v, s)'
    BY <1>13
  <2>9. InHand(s)' = InHand(s) \cup {n}
    BY ONLY <2>3, <2>4, <2>5, <2>6, <2>7, <2>8
  <2>10. n \notin InHand(s)
    BY <2>1, <2>2
  <2>11. IsFiniteSet(InHand(s))
    BY LedgerSets
  <2>12. Cardinality(InHand(s) \cup {n}) = Cardinality(InHand(s)) + 1
    BY ONLY <2>10, <2>11, FS_AddElement
  <2> QED
    BY <2>9, <2>10, <2>12
<1>16. job[s].kind = 1 => Cardinality(InUnit(s)') = Cardinality(InUnit(s)) + 1
  <2> SUFFICES ASSUME job[s].kind = 1 PROVE Cardinality(InUnit(s)') = Cardinality(InUnit(s)) + 1
    OBVIOUS
  <2>1. InUnit(s)' = InUnit(s) \cup {w} /\ w \notin InUnit(s)
    <3>1. \A v \in Workers \ {w} : (pc'[v] = "unit" /\ at'[v] = s) <=> (pc[v] = "unit" /\ at[v] = s)
      BY <1>7 DEF Bystander
    <3>2. pc'[w] = "unit" /\ at'[w] = s /\ pc[w] # "unit"
      BY <1>2, <1>6
    <3> QED
      BY <3>1, <3>2 DEF InUnit
  <2> QED
    BY <2>1, LedgerSets, FS_AddElement
<1>17. Table' /\ NotLost'
  <2>1. n + 1 \in n .. job[s].nrows
    BY <1>0, <1>4
  <2>2. job[s].kind = 0 => job[s].rows_done + Cardinality(InHand(s)') = n + 1
    BY <1>0, <1>4, <1>15, LedgerSets DEF Entry
  <2>3. job[s].kind = 1 => job[s].rows_done + Cardinality(InUnit(s)') = n + 1
    BY <1>0, <1>4, <1>16, LedgerSets DEF Entry
  <2>4. ASSUME job[s].kind = 0, NEW r \in 0 .. n + 1 - 1, job[s].progress[r] < job[s].ncols
        PROVE  \E v \in Workers : r \in Owns(v, s)'
    <3>1. r \in 0 .. n - 1 \/ r = n
      BY <1>0
    <3>2. CASE r = n
      BY <1>13, <2>4, <3>2
    <3>3. CASE r \in 0 .. n - 1
      <4>1. \E v \in Workers : r \in Owns(v, s)
        BY <1>0, <1>4, <2>4, <3>3, SafeFacts DEF NotLost
      <4> QED
        BY <1>13, <4>1
    <3> QED
      BY <3>1, <3>2, <3>3
  <2>5. job[s].used /\ ~job'[s].done /\ job'[s].next_row = n + 1 /\ job'[s].rows_done = job[s].rows_done
    BY <1>4, <1>5
  <2>6. \A v \in Workers, t \in Slots \ {s} : Owns(v, t)' = Owns(v, t)
    BY <1>13
  <2> QED
    BY <1>0, <1>2, <1>4, <1>5, <1>14, <2>1, <2>2, <2>3, <2>4, <2>5, <2>6, LedgerStep
<1>18. Alone'
  <2> SUFFICES ASSUME NEW v \in Workers, NEW u \in Workers, v # u, NEW t \in Slots,
                      NEW r \in Owns(v, t)', r \in Owns(u, t)'
               PROVE  FALSE
    BY DEF Alone
  <2>1. \A x \in Workers : n \notin Owns(x, s)
    <3>1. n \notin 0 .. n - 1
      BY <1>0
    <3> QED
      BY <1>0, <3>1, OwnsBelow
  <2>2. \A x \in Workers : Owns(x, t)' = Owns(x, t) \/ (x = w /\ t = s /\ Owns(x, t)' \subseteq {n})
    BY <1>4, <1>13
  <2>3. Owns(v, t) \cap Owns(u, t) = {}
    BY SafeFacts DEF Alone
  <2> QED
    BY <2>1, <2>2, <2>3
<1> QED
  BY <1>8, <1>9, <1>10, <1>11, <1>12, <1>17, <1>18 DEF Safe, Places

LEMMA RowEndSafe == ASSUME Safe, NEW w \in Workers, RowEnd(w) PROVE Safe'
<1>1. PICK s \in Slots, r \in Nat : s = at[w] /\ r = row[w] /\ InRow(w) /\ pc[w] \in Active
  BY SafeFacts DEF RowEnd, Place, Active, InRow, TypeOK
<1>2. /\ pc[w] = "rowend" /\ at' = [at EXCEPT ![w] = NoJob] /\ pc' = [pc EXCEPT ![w] = "top"]
      /\ job' = [job EXCEPT ![s].rows_done = @ + 1,
                            ![s].done = job[s].rows_done + 1 = job[s].nrows]
      /\ UNCHANGED <<env, seq_next, stack, pub, kick, shutdown, row, col, run_seq, held, cur_seq, sub>>
  BY <1>1 DEF RowEnd, Goto
<1>3. TypeOK /\ Place(w) /\ Entry(s) /\ job[s].seq > 0
  BY <1>1, SafeFacts DEF InRow
<1>4. /\ job[s].kind = 0 /\ job[s].used /\ ~job[s].done /\ r < job[s].next_row
      /\ job[s].next_row \in Nat /\ job[s].rows_done \in Nat /\ job[s].nrows \in Nat
      /\ job[s].ncols \in Nat /\ job[s].next_row <= job[s].nrows /\ job[s].progress[r] = job[s].ncols
  <2>1. col[w] + 1 = job[s].ncols
    BY <1>1, <1>2 DEF InRow
  <2> QED
    BY <1>1, <1>2, <1>3, <2>1, JobTypes DEF InRow, Before, Entry
<1>5. /\ job' \in [Slots -> Jobs] /\ Elsewhere(s) /\ SameJob(s) /\ SameRows(s)
      /\ job'[s].rows_done = job[s].rows_done + 1 /\ job'[s].next_row = job[s].next_row
      /\ job'[s].done = (job[s].rows_done + 1 = job[s].nrows)
  BY <1>2, <1>3, WroteRowEnd
<1>6. pc'[w] = "top" /\ at'[w] = NoJob
  BY <1>2, <1>3 DEF TypeOK
<1>7. \A v \in Workers \ {w} : Bystander(v) /\ pc'[v] = pc[v] /\ at'[v] = at[v]
  BY <1>2, <1>3 DEF TypeOK, Bystander
<1>8. /\ stack' \in Seq(Workers) /\ Stacked' /\ \A v \in Workers : InStack(v)' => InStack(v)
  <2>1. \A v \in Workers : pc[v] = "sleep" => pc'[v] = "sleep"
    BY <1>2, <1>7
  <2> QED
    BY <1>2, <2>1, StackStep DEF TypeOK
<1>9. TypeOK'
  <2>1. pc' \in [Workers -> Labels] /\ at' \in [Workers -> Slots \cup {NoJob}]
    BY <1>2, <1>3 DEF TypeOK, Labels
  <2> QED
    BY <1>2, <1>3, <1>5, <1>8, <2>1 DEF TypeOK, Labels, sub
<1>10. \A p \in Submitters : Calling(p)'
  BY <1>2, CallingKept DEF sub
<1>11. /\ \A v \in Workers \ {w}, t \in Slots : Owns(v, t)' = Owns(v, t)
       /\ \A t \in Slots \ {s} : Owns(w, t)' = Owns(w, t)
       /\ Owns(w, s) = {r} /\ Owns(w, s)' = {}
       /\ \A v \in Workers \ {w} : r \notin Owns(v, s)
  <2>1. \A v \in Workers \ {w}, t \in Slots : Owns(v, t)' = Owns(v, t)
    BY <1>7, OwnsKept
  <2>2. pc'[w] \notin Active /\ held'[w] = held[w]
    BY <1>2, <1>6 DEF Active
  <2>3. \A h \in held[w] : h.at # s
    BY <1>1, HeldElsewhere
  <2>4. \A t \in Slots \ {s} : Owns(w, t)' = Owns(w, t)
    BY <1>1, <2>2 DEF Owns
  <2>5. Owns(w, s) = {r} /\ Owns(w, s)' = {}
    BY <1>1, <2>2, <2>3 DEF Owns
  <2>6. \A v \in Workers \ {w} : Owns(v, s) \cap Owns(w, s) = {}
    BY SafeFacts DEF Alone
  <2> QED
    BY <2>1, <2>4, <2>5, <2>6
<1>12. /\ InHand(s)' = InHand(s) \ {r} /\ r \in InHand(s)
       /\ Cardinality(InHand(s)') = Cardinality(InHand(s)) - 1
  <2>1. \A x : x \in InHand(s) <=> x \in 0 .. job[s].next_row - 1 /\ \E v \in Workers : x \in Owns(v, s)
    BY DEF InHand
  <2>2. \A x : x \in InHand(s)' <=> x \in 0 .. job[s].next_row - 1 /\ \E v \in Workers : x \in Owns(v, s)'
    <3>1. \A x : x \in InHand(s)' <=>
                    x \in 0 .. job'[s].next_row - 1 /\ \E v \in Workers : x \in Owns(v, s)'
      BY DEF InHand
    <3>2. job'[s].next_row = job[s].next_row
      BY <1>5
    <3> QED
      BY ONLY <3>1, <3>2, Zenon
  <2>3. \A x : (\E v \in Workers : x \in Owns(v, s)') <=> x # r /\ \E v \in Workers : x \in Owns(v, s)
    BY <1>11
  <2>4. InHand(s)' = InHand(s) \ {r}
    BY ONLY <2>1, <2>2, <2>3
  <2>5. r \in InHand(s)
    <3>1. r \in 0 .. job[s].next_row - 1
      BY <1>4
    <3> QED
      BY <1>11, <2>1, <3>1
  <2>6. IsFiniteSet(InHand(s))
    BY LedgerSets
  <2>7. Cardinality(InHand(s) \ {r}) = Cardinality(InHand(s)) - 1
    BY ONLY <2>5, <2>6, FS_RemoveElement
  <2> QED
    BY <2>4, <2>5, <2>7
<1>13. \A v \in Workers \ {w} : Busy(v, s) => job[s].rows_done + 1 # job[s].nrows
  <2> SUFFICES ASSUME NEW v \in Workers \ {w}, Busy(v, s), job[s].rows_done + 1 = job[s].nrows
               PROVE  FALSE
    OBVIOUS
  <2>1. pc[v] # "unit" \/ at[v] # s
    BY <1>4, SafeFacts DEF Place, InLoop
  <2>2. PICK x \in Owns(v, s) : TRUE
    BY <2>1 DEF Busy, Owns, HeldJobs
  <2>3. x \in InHand(s)' /\ IsFiniteSet(InHand(s)')
    <3>1. x \in InHand(s) /\ x # r
      BY <1>11, <2>2, OwnsBelow DEF InHand
    <3> QED
      BY <1>12, <3>1, LedgerSets, FS_Subset
  <2>4. Cardinality(InHand(s)') # 0 /\ Cardinality(InHand(s)') \in Nat
    BY <2>3, FS_EmptySet, FS_CardinalityType
  <2>5. job[s].rows_done + Cardinality(InHand(s)) = job[s].next_row
    BY <1>3, <1>4 DEF Entry
  <2>6. Cardinality(InHand(s)') = Cardinality(InHand(s)) - 1 /\ Cardinality(InHand(s)) \in Nat
    BY <1>12, LedgerSets
  <2> QED
    BY <1>4, <2>4, <2>5, <2>6
<1>14. ASSUME NEW v \in Workers \ {w} PROVE Place(v)'
  <2>1. job'[s].next_row >= job[s].next_row
    BY <1>4, <1>5
  <2>2. Busy(v, s) => job'[s].done = job[s].done
    <3>1. job[s].done \in BOOLEAN
      BY <1>3, JobTypes
    <3>2. job[s].done = FALSE
      BY <1>4, <3>1
    <3>3. Busy(v, s) => (job[s].rows_done + 1 = job[s].nrows) = FALSE
      BY <1>13
    <3> QED
      BY <1>5, <3>2, <3>3, Zenon
  <2> QED
    BY <1>2, <1>5, <1>7, <1>8, <2>1, <2>2, OthersStay
<1>15. Place(w)'
  <2>1. \A h \in held[w] : GoesOn(h.at) /\ WaitKept(w, h)
    <3> SUFFICES ASSUME NEW h \in held[w] PROVE GoesOn(h.at) /\ WaitKept(w, h)
      OBVIOUS
    <3>1. h.at # s /\ h.at \in Slots
      BY <1>1, HeldElsewhere, HeldFacts
    <3> QED
      BY <1>5, <3>1, WaitSame DEF Elsewhere
  <2>2. ASSUME NEW h \in held[w] PROVE Holds(w, h)'
    <3>1. Holds(w, h) /\ h.at # s /\ h.at \in Slots
      BY <1>1, HeldElsewhere, HeldFacts
    <3>2. job'[h.at] = job[h.at]
      BY <1>5, <3>1 DEF Elsewhere
    <3> QED
      BY <1>8, <3>1, <3>2 DEF Holds
  <2>3. (\A h \in held[w] : Holds(w, h))'
    BY <1>2, <2>2
  <2>4. pc'[w] \notin Active /\ pc'[w] \notin {"unit", "next", "bottom"}
    BY <1>6 DEF Active
  <2>5. (\A h, g \in held[w] : h.at = g.at => h = g)' /\ (run_seq[w] <= seq_next)'
        /\ (~env.park => held[w] = {})'
    BY <1>2, <1>3 DEF Place
  <2> QED
    BY <2>3, <2>4, <2>5 DEF Place
<1>16. Table' /\ NotLost'
  <2>1. \A t \in Slots \ {s} : InUnit(t)' = InUnit(t)
    <3>1. \A v \in Workers, t \in Slots \ {s} : (pc'[v] = "unit" /\ at'[v] = t) <=> (pc[v] = "unit" /\ at[v] = t)
      BY <1>2, <1>6, <1>7
    <3> QED
      BY <3>1 DEF InUnit
  <2>2. job'[s].next_row \in job[s].next_row .. job[s].nrows
    BY <1>4, <1>5
  <2>3. job'[s].done => job'[s].rows_done = job[s].nrows
    BY <1>5
  <2>4. job'[s].rows_done + Cardinality(InHand(s)') = job'[s].next_row
    BY <1>3, <1>4, <1>5, <1>12, LedgerSets DEF Entry
  <2>5. ASSUME NEW x \in 0 .. job'[s].next_row - 1, job[s].progress[x] < job[s].ncols
        PROVE  \E v \in Workers : x \in Owns(v, s)'
    <3>1. x # r
      BY <1>4, <2>5
    <3>2. \E v \in Workers : x \in Owns(v, s)
      BY <1>3, <1>4, <1>5, <2>5, SafeFacts DEF NotLost
    <3> QED
      BY <1>11, <3>1, <3>2
  <2>6. \A v \in Workers, t \in Slots \ {s} : Owns(v, t)' = Owns(v, t)
    BY <1>11
  <2>7. job[s].used \/ job'[s].done
    BY <1>4
  <2>8. job[s].kind = 0 /\ job[s].kind # 1
    BY <1>4
  <2> QED
    BY <1>2, <1>3, <1>5, <2>1, <2>2, <2>3, <2>4, <2>5, <2>6, <2>7, <2>8, LedgerStep
<1>17. Alone'
  <2>1. \A v \in Workers, t \in Slots : Owns(v, t)' \subseteq Owns(v, t)
    BY <1>11
  <2>2. \A v, u \in Workers, t \in Slots : v # u => Owns(v, t) \cap Owns(u, t) = {}
    BY SafeFacts DEF Alone
  <2>3. \A v, u \in Workers, t \in Slots : v # u => Owns(v, t)' \cap Owns(u, t)' = {}
    BY ONLY <2>1, <2>2
  <2> QED
    BY <2>3 DEF Alone
<1> QED
  BY <1>8, <1>9, <1>10, <1>14, <1>15, <1>16, <1>17 DEF Safe, Places

\* A worker of a parallel-for: its place and who owns what, when it moves on.
LEMMA LoopPlace ==
  ASSUME Safe, NEW w \in Workers, pc[w] \in {"unit", "next", "bottom"},
         job' \in [Slots -> Jobs], NEW s \in Slots, s = at[w], Elsewhere(s), SameJob(s), SameRows(s),
         env' = env, seq_next' = seq_next, job'[s].next_row >= job[s].next_row,
         job[s].kind = 1,
         run_seq'[w] = run_seq[w], held'[w] = held[w], InStack(w)' => InStack(w),
         pc'[w] \notin Active, pc'[w] \in {"unit", "next", "bottom"} => InLoop(w)'
  PROVE  Place(w)' /\ \A t \in Slots : Owns(w, t)' = Owns(w, t)
<1>1. Place(w)
  BY SafeFacts
<1>2. ASSUME NEW h \in held[w] PROVE Holds(w, h)'
  <2>1. Holds(w, h) /\ h.at \in Slots
    BY HeldFacts
  <2>2. h.at # s
    BY <2>1 DEF Holds
  <2>3. job'[h.at] = job[h.at]
    BY <2>1, <2>2 DEF Elsewhere
  <2> QED
    BY <2>1, <2>3 DEF Holds
<1>3. (\A h \in held[w] : Holds(w, h))'
  BY <1>2
<1>4. (\A h, g \in held[w] : h.at = g.at => h = g)' /\ (run_seq[w] <= seq_next)'
      /\ (~env.park => held[w] = {})'
  BY <1>1 DEF Place
<1>5. Place(w)'
  BY <1>3, <1>4 DEF Place
<1>6. pc[w] \notin Active
  BY DEF Active
<1>7. \A t \in Slots : Owns(w, t)' = Owns(w, t)
  BY <1>6 DEF Owns
<1> QED
  BY <1>5, <1>7

LEMMA UnitSafe == ASSUME Safe, NEW w \in Workers, Unit(w) PROVE Safe'
<1>1. PICK s \in Slots : s = at[w] /\ InLoop(w) /\ pc[w] = "unit"
  BY SafeFacts DEF Unit, Place, InLoop
<1>2. /\ pc' = [pc EXCEPT ![w] = pc'[w]] /\ pc'[w] \in {"next", "bottom"}
      /\ job' = [job EXCEPT ![s].rows_done = @ + 1]
      /\ UNCHANGED <<env, seq_next, stack, pub, kick, shutdown, at, row, col, run_seq, held, cur_seq, sub>>
  BY <1>1, SafeFacts DEF Unit, Goto, TypeOK
<1>3. /\ TypeOK /\ Place(w) /\ Entry(s) /\ job[s].seq > 0 /\ run_seq[w] > 0
      /\ job[s].kind = 1 /\ job[s].used /\ ~job[s].done /\ job[s].seq = run_seq[w]
  BY <1>1, SafeFacts DEF InLoop
<1>4. /\ job[s].next_row \in Nat /\ job[s].rows_done \in Nat /\ job[s].nrows \in Nat
      /\ job[s].next_row <= job[s].nrows /\ job[s].next_row >= job[s].next_row
  BY <1>3, JobTypes DEF Entry
<1>5. /\ job' \in [Slots -> Jobs] /\ Elsewhere(s) /\ SameJob(s) /\ SameRows(s)
      /\ job'[s].rows_done = job[s].rows_done + 1 /\ job'[s].next_row = job[s].next_row
      /\ job'[s].done = job[s].done
  BY <1>2, <1>3, WroteRowsDone
<1>6. \A v \in Workers \ {w} : Bystander(v) /\ pc'[v] = pc[v]
  BY <1>2, <1>3 DEF TypeOK, Bystander
<1>7. /\ stack' \in Seq(Workers) /\ Stacked' /\ \A v \in Workers : InStack(v)' => InStack(v)
  <2>1. \A v \in Workers : pc[v] = "sleep" => pc'[v] = "sleep"
    BY <1>1, <1>6
  <2> QED
    BY <1>2, <2>1, StackStep DEF TypeOK
<1>8. TypeOK'
  <2>1. pc' \in [Workers -> Labels]
    BY <1>2, <1>3 DEF TypeOK, Labels
  <2> QED
    BY <1>2, <1>3, <1>5, <1>7, <2>1 DEF TypeOK, Labels, sub
<1>9. \A p \in Submitters : Calling(p)'
  BY <1>2, CallingKept DEF sub
<1>10. ASSUME NEW v \in Workers \ {w} PROVE Place(v)'
  <2>1. job'[s].next_row >= job[s].next_row
    BY <1>4, <1>5
  <2> QED
    BY <1>2, <1>5, <1>6, <1>7, <2>1, OthersStay
<1>11. Place(w)' /\ \A t \in Slots : Owns(w, t)' = Owns(w, t)
  <2>1. pc'[w] \notin Active /\ pc[w] \in {"unit", "next", "bottom"} /\ pc'[w] # "unit"
    BY <1>1, <1>2 DEF Active
  <2>2. at'[w] = s /\ run_seq'[w] = run_seq[w] /\ held'[w] = held[w]
    BY <1>1, <1>2
  <2>3. job'[s].kind = 1
    BY <1>3, <1>5 DEF SameJob
  <2>4. InLoop(w)'
    BY <1>3, <2>1, <2>2, <2>3 DEF InLoop
  <2>5. job'[s].next_row >= job[s].next_row /\ env' = env /\ seq_next' = seq_next
    BY <1>2, <1>4, <1>5
  <2> QED
    BY <1>1, <1>3, <1>5, <1>7, <2>1, <2>2, <2>4, <2>5, LoopPlace
<1>12. \A v \in Workers, t \in Slots : Owns(v, t)' = Owns(v, t)
  BY <1>6, <1>11, OwnsKept
<1>13. Table' /\ NotLost'
  <2>1. \A v \in Workers \ {w} : pc'[v] = pc[v] /\ at'[v] = at[v]
    BY <1>6 DEF Bystander
  <2>2. \A t \in Slots \ {s} : InUnit(t)' = InUnit(t)
    BY <1>1, <1>2, <2>1 DEF InUnit
  <2>3. InUnit(s)' = InUnit(s) \ {w} /\ w \in InUnit(s)
    BY <1>1, <1>2, <2>1 DEF InUnit
  <2>4. Cardinality(InUnit(s)') = Cardinality(InUnit(s)) - 1 /\ Cardinality(InUnit(s)) \in Nat
    BY <2>3, LedgerSets, FS_RemoveElement
  <2>5. job[s].rows_done + Cardinality(InUnit(s)) = job[s].next_row
    BY <1>3 DEF Entry
  <2>6. job'[s].rows_done + Cardinality(InUnit(s)') = job'[s].next_row
    BY <1>4, <1>5, <2>4, <2>5
  <2>7. job'[s].next_row \in job[s].next_row .. job[s].nrows
    BY <1>4, <1>5
  <2>8. job[s].kind # 0 /\ job[s].used /\ ~job'[s].done
    BY <1>3, <1>5
  <2> QED
    BY <1>2, <1>3, <1>5, <1>12, <2>2, <2>6, <2>7, <2>8, LedgerStep
<1>14. Alone'
  BY <1>12, SafeFacts DEF Alone
<1> QED
  BY <1>7, <1>8, <1>9, <1>10, <1>11, <1>13, <1>14 DEF Safe, Places

\* A worker of a parallel-for that finds the job moved on, or all units taken.
LEMMA LeaveLoop ==
  ASSUME Safe, NEW w \in Workers, pc[w] \in {"next", "bottom"}, job' = job,
         pc' = [pc EXCEPT ![w] = pc'[w]], pc'[w] \in {"bottom", "top"},
         at' = [at EXCEPT ![w] = at'[w]], at'[w] = at[w] \/ (pc'[w] = "top" /\ at'[w] = NoJob),
         UNCHANGED <<env, seq_next, stack, pub, kick, shutdown, row, col, run_seq, held, cur_seq, sub>>
  PROVE  Safe'
<1>1. TypeOK /\ Place(w) /\ InLoop(w)
  BY SafeFacts DEF Place
<1>2. \A v \in Workers \ {w} : pc'[v] = pc[v] /\ at'[v] = at[v]
  BY <1>1 DEF TypeOK
<1>3. \A v \in Workers \ {w} : Bystander(v)
  BY <1>2 DEF Bystander
<1>4. stack' \in Seq(Workers) /\ Stacked' /\ \A v \in Workers : InStack(v)' => InStack(v)
  <2>1. \A v \in Workers : pc[v] = "sleep" => pc'[v] = "sleep"
    BY <1>2
  <2> QED
    BY <2>1, StackStep DEF TypeOK
<1>5. TypeOK'
  <2>1. pc' \in [Workers -> Labels] /\ at' \in [Workers -> Slots \cup {NoJob}]
    BY <1>1 DEF TypeOK, Labels, InLoop
  <2> QED
    BY <1>1, <1>4, <2>1 DEF TypeOK, Labels, sub
<1>6. pc'[w] \notin Active /\ pc[w] \notin Active /\ pc'[w] # "unit" /\ pc[w] # "unit"
  BY DEF Active
<1>7. (\A h \in held[w] : Holds(w, h))'
  BY <1>1, <1>4 DEF Place, Holds
<1>8. (\A h, g \in held[w] : h.at = g.at => h = g)' /\ (run_seq[w] <= seq_next)'
      /\ (~env.park => held[w] = {})'
  BY <1>1 DEF Place
<1>9. pc'[w] \in {"unit", "next", "bottom"} => InLoop(w)'
  BY <1>1, <1>6 DEF InLoop
<1>10. Place(w)'
  BY <1>6, <1>7, <1>8, <1>9 DEF Place
<1>11. \A s \in Slots : Owns(w, s)' = Owns(w, s)
  BY <1>6 DEF Owns
<1> QED
  BY <1>3, <1>4, <1>5, <1>6, <1>10, <1>11, QuietMove DEF sub

LEMMA NextUnitSafe == ASSUME Safe, NEW w \in Workers, NextUnit(w) PROVE Safe'
<1>1. PICK s \in Slots : s = at[w] /\ InLoop(w) /\ pc[w] = "next"
  BY SafeFacts DEF NextUnit, Place, InLoop
<1>2. UNCHANGED <<env, seq_next, stack, pub, kick, shutdown, at, row, col, run_seq, held, cur_seq, sub>>
  BY DEF NextUnit
<1>3. CASE pc' = [pc EXCEPT ![w] = "bottom"] /\ job' = job
  <2>1. pc'[w] = "bottom" /\ at'[w] = at[w] /\ at' = [at EXCEPT ![w] = at'[w]]
    BY <1>2, <1>3, SafeFacts DEF TypeOK
  <2> QED
    BY <1>1, <1>2, <1>3, <2>1, LeaveLoop
<1>4. CASE /\ job[s].seq = run_seq[w] /\ job[s].next_row < job[s].nrows
           /\ job' = [job EXCEPT ![s].next_row = @ + 1] /\ pc' = [pc EXCEPT ![w] = "unit"]
  <2>1. /\ TypeOK /\ Place(w) /\ Entry(s) /\ job[s].seq > 0 /\ job[s].kind = 1
    BY <1>1, <1>4, SafeFacts DEF InLoop
  <2>2. /\ job[s].next_row \in Nat /\ job[s].rows_done \in Nat /\ job[s].nrows \in Nat
        /\ Cardinality(InUnit(s)) \in Nat
        /\ job[s].rows_done + Cardinality(InUnit(s)) = job[s].next_row
    BY <2>1, JobTypes, LedgerSets DEF Entry
  <2>3. job[s].used /\ ~job[s].done
    <3>1. job[s].rows_done # job[s].nrows
      BY <1>4, <2>2
    <3> QED
      BY <2>1, <3>1 DEF Entry
  <2>4. /\ job' \in [Slots -> Jobs] /\ Elsewhere(s) /\ SameJob(s) /\ SameRows(s)
        /\ job'[s].next_row = job[s].next_row + 1 /\ job'[s].rows_done = job[s].rows_done
        /\ job'[s].done = job[s].done
    BY <1>4, <2>1, WroteNextRow
  <2>5. \A v \in Workers \ {w} : Bystander(v) /\ pc'[v] = pc[v] /\ at'[v] = at[v]
    BY <1>2, <1>4, <2>1 DEF TypeOK, Bystander
  <2>6. pc'[w] = "unit" /\ at'[w] = s /\ run_seq'[w] = run_seq[w] /\ held'[w] = held[w]
    BY <1>1, <1>2, <1>4, <2>1 DEF TypeOK
  <2>7. /\ stack' \in Seq(Workers) /\ Stacked' /\ \A v \in Workers : InStack(v)' => InStack(v)
    <3>1. \A v \in Workers : pc[v] = "sleep" => pc'[v] = "sleep"
      BY <1>1, <2>5
    <3> QED
      BY <1>2, <3>1, StackStep DEF TypeOK
  <2>8. TypeOK'
    <3>1. pc' \in [Workers -> Labels]
      BY <1>4, <2>1 DEF TypeOK, Labels
    <3> QED
      BY <1>2, <2>1, <2>4, <2>7, <3>1 DEF TypeOK, Labels, sub
  <2>9. \A p \in Submitters : Calling(p)'
    BY <1>2, CallingKept DEF sub
  <2>10. job'[s].next_row >= job[s].next_row
    BY <2>2, <2>4
  <2>11. ASSUME NEW v \in Workers \ {w} PROVE Place(v)'
    BY <1>2, <2>4, <2>5, <2>7, <2>10, OthersStay
  <2>12. Place(w)' /\ \A t \in Slots : Owns(w, t)' = Owns(w, t)
    <3>1. pc'[w] \notin Active /\ pc[w] \in {"unit", "next", "bottom"}
      BY <1>1, <2>6 DEF Active
    <3>2. job'[s].kind = 1 /\ job'[s].used /\ ~job'[s].done /\ job'[s].seq = run_seq[w]
      BY <1>4, <2>1, <2>3, <2>4 DEF SameJob
    <3>3. InLoop(w)'
      BY <1>1, <2>6, <3>2 DEF InLoop
    <3>4. env' = env /\ seq_next' = seq_next
      BY <1>2
    <3> QED
      BY <1>1, <2>1, <2>4, <2>6, <2>7, <2>10, <3>1, <3>3, <3>4, LoopPlace
  <2>13. \A v \in Workers, t \in Slots : Owns(v, t)' = Owns(v, t)
    BY <2>5, <2>12, OwnsKept
  <2>14. Table' /\ NotLost'
    <3>1. \A t \in Slots \ {s} : InUnit(t)' = InUnit(t)
      BY <1>1, <1>2, <2>5, <2>6 DEF InUnit
    <3>2. InUnit(s)' = InUnit(s) \cup {w} /\ w \notin InUnit(s)
      BY <1>1, <1>2, <2>5, <2>6 DEF InUnit
    <3>3. Cardinality(InUnit(s)') = Cardinality(InUnit(s)) + 1
      BY <3>2, LedgerSets, FS_AddElement
    <3>4. job'[s].rows_done + Cardinality(InUnit(s)') = job'[s].next_row
      BY <2>2, <2>4, <3>3
    <3>5. job'[s].next_row \in job[s].next_row .. job[s].nrows
      BY <1>4, <2>2, <2>4
    <3>6. job[s].kind # 0 /\ job[s].used /\ ~job'[s].done
      BY <2>1, <2>3, <2>4
    <3> QED
      BY <1>2, <2>1, <2>4, <2>13, <3>1, <3>4, <3>5, <3>6, LedgerStep
  <2>15. Alone'
    BY <2>13, SafeFacts DEF Alone
  <2> QED
    BY <2>7, <2>8, <2>9, <2>11, <2>12, <2>14, <2>15 DEF Safe, Places
<1> QED
  BY <1>1, <1>3, <1>4 DEF NextUnit, Goto

LEMMA UnitEndSafe == ASSUME Safe, NEW w \in Workers, UnitEnd(w) PROVE Safe'
<1>1. PICK s \in Slots : s = at[w] /\ InLoop(w) /\ pc[w] = "bottom"
  BY SafeFacts DEF UnitEnd, Place, InLoop
<1>2. /\ pc' = [pc EXCEPT ![w] = "top"] /\ at' = [at EXCEPT ![w] = NoJob]
      /\ UNCHANGED <<env, seq_next, stack, pub, kick, shutdown, row, col, run_seq, held, cur_seq, sub>>
  BY DEF UnitEnd, Goto
<1>3. pc'[w] = "top" /\ at'[w] = NoJob
  BY <1>2, SafeFacts DEF TypeOK
<1>4. CASE job' = job
  BY <1>1, <1>2, <1>3, <1>4, LeaveLoop
<1>5. CASE job[s].seq = run_seq[w] /\ UnitsDone(s) /\ job' = [job EXCEPT ![s].done = TRUE]
  <2>1. /\ TypeOK /\ Place(w) /\ Entry(s) /\ job[s].seq > 0 /\ job[s].kind = 1
    BY <1>1, <1>5, SafeFacts DEF InLoop
  <2>2. /\ job[s].next_row \in Nat /\ job[s].rows_done \in Nat /\ job[s].nrows \in Nat
        /\ Cardinality(InUnit(s)) \in Nat /\ job[s].next_row <= job[s].nrows
        /\ job[s].rows_done + Cardinality(InUnit(s)) = job[s].next_row
        /\ job[s].rows_done = job[s].nrows
    BY <1>5, <2>1, JobTypes, LedgerSets DEF Entry, UnitsDone
  <2>3. InUnit(s) = {}
    <3>1. Cardinality(InUnit(s)) = 0
      BY <2>2
    <3> QED
      BY <3>1, LedgerSets, FS_EmptySet
  <2>4. /\ job' \in [Slots -> Jobs] /\ Elsewhere(s) /\ SameJob(s) /\ SameRows(s)
        /\ job'[s].next_row = job[s].next_row /\ job'[s].rows_done = job[s].rows_done
        /\ job'[s].done
    BY <1>5, <2>1, WroteDone
  <2>5. \A v \in Workers \ {w} : Bystander(v) /\ pc'[v] = pc[v] /\ at'[v] = at[v]
    BY <1>2, <2>1 DEF TypeOK, Bystander
  <2>6. /\ stack' \in Seq(Workers) /\ Stacked' /\ \A v \in Workers : InStack(v)' => InStack(v)
    <3>1. \A v \in Workers : pc[v] = "sleep" => pc'[v] = "sleep"
      BY <1>1, <2>5
    <3> QED
      BY <1>2, <3>1, StackStep DEF TypeOK
  <2>7. TypeOK'
    <3>1. pc' \in [Workers -> Labels] /\ at' \in [Workers -> Slots \cup {NoJob}]
      BY <1>2, <2>1 DEF TypeOK, Labels
    <3> QED
      BY <1>2, <2>1, <2>4, <2>6, <3>1 DEF TypeOK, Labels, sub
  <2>8. \A p \in Submitters : Calling(p)'
    BY <1>2, CallingKept DEF sub
  <2>9. job'[s].next_row >= job[s].next_row
    BY <2>2, <2>4
  <2>10. \A v \in Workers : ~Busy(v, s)
    <3> SUFFICES ASSUME NEW v \in Workers, Busy(v, s) PROVE FALSE
      OBVIOUS
    <3>1. ~(pc[v] = "unit" /\ at[v] = s)
      BY <2>3 DEF InUnit
    <3>2. PICK x \in Owns(v, s) : TRUE
      BY <3>1 DEF Busy, Owns, HeldJobs
    <3> QED
      BY <2>1, <3>2, OwnsBelow
  <2>11. ASSUME NEW v \in Workers \ {w} PROVE Place(v)'
    BY <1>2, <2>4, <2>5, <2>6, <2>9, <2>10, OthersStay
  <2>12. Place(w)' /\ \A t \in Slots : Owns(w, t)' = Owns(w, t)
    <3>1. pc'[w] \notin Active /\ pc[w] \in {"unit", "next", "bottom"}
          /\ pc'[w] \notin {"unit", "next", "bottom"}
      BY <1>1, <1>3 DEF Active
    <3>2. env' = env /\ seq_next' = seq_next /\ run_seq'[w] = run_seq[w] /\ held'[w] = held[w]
      BY <1>2
    <3> QED
      BY <1>1, <2>1, <2>4, <2>6, <2>9, <3>1, <3>2, LoopPlace
  <2>13. \A v \in Workers, t \in Slots : Owns(v, t)' = Owns(v, t)
    BY <2>5, <2>12, OwnsKept
  <2>14. Table' /\ NotLost'
    <3>1. \A v \in Workers, t \in Slots : (pc'[v] = "unit" /\ at'[v] = t) <=> (pc[v] = "unit" /\ at[v] = t)
      BY <1>1, <1>3, <2>5
    <3>2. \A t \in Slots : InUnit(t)' = InUnit(t)
      BY <3>1 DEF InUnit
    <3>3. job'[s].rows_done + Cardinality(InUnit(s)') = job'[s].next_row
      BY <2>2, <2>4, <3>2
    <3>4. job'[s].next_row \in job[s].next_row .. job[s].nrows
      BY <2>2, <2>4
    <3>5. job[s].kind # 0 /\ job'[s].done /\ job'[s].rows_done = job[s].nrows
      BY <2>1, <2>2, <2>4
    <3> QED
      BY <1>2, <2>1, <2>4, <2>13, <3>2, <3>3, <3>4, <3>5, LedgerStep
  <2>15. Alone'
    BY <2>13, SafeFacts DEF Alone
  <2> QED
    BY <2>6, <2>7, <2>8, <2>11, <2>12, <2>14, <2>15 DEF Safe, Places
<1> QED
  BY <1>1, <1>4, <1>5 DEF UnitEnd

-----------------------------------------------------------------------------
(* The submitters, the gate and the end.                                    *)

\* A step that moves no worker and writes nothing in the job table.
LEMMA QuietPool ==
  ASSUME Safe, TypeOK', Stacked', \A v \in Workers : InStack(v)' => InStack(v),
         job' = job, env' = env, seq_next' = seq_next, worker' = worker,
         \A p \in Submitters : Calling(p)'
  PROVE  Safe'
<1>1. \A v \in Workers : Bystander(v)
  BY DEF Bystander, worker
<1>2. Places'
  <2>1. \A v \in Workers : Place(v)'
    BY <1>1, QuietPlace
  <2> QED
    BY <2>1 DEF Places
<1>3. \A v \in Workers, s \in Slots : Owns(v, s)' = Owns(v, s)
  BY <1>1, OwnsKept
<1>4. \A s \in Slots : InUnit(s)' = InUnit(s)
  BY DEF InUnit, worker
<1>5. Table' /\ Alone' /\ NotLost'
  BY <1>3, <1>4, QuietLedger
<1> QED
  BY <1>2, <1>5 DEF Safe

LEMMA PublishSafe == ASSUME Safe, Publish PROVE Safe'
<1>1. TypeOK /\ UNCHANGED <<env, job, seq_next, stack, shutdown, worker, sub>>
      /\ pub' = pub + 1 /\ kick' = TRUE
  BY SafeFacts DEF Publish
<1>2. TypeOK'
  BY <1>1 DEF TypeOK, worker, sub
<1>3. Stacked' /\ \A v \in Workers : InStack(v)' => InStack(v)
  BY <1>1, SafeFacts DEF Stacked, InStack, worker
<1>4. \A p \in Submitters : Calling(p)'
  BY <1>1, CallingKept DEF sub
<1> QED
  BY <1>1, <1>2, <1>3, <1>4, QuietPool

\* The stack is emptied: everybody on it is woken.
LEMMA EmptiedStack ==
  ASSUME stack' = << >>
  PROVE  Stacked' /\ \A v \in Workers : ~InStack(v)'
BY DEF Stacked, InStack

LEMMA KickSafe == ASSUME Safe, Kick PROVE Safe'
<1>1. TypeOK /\ UNCHANGED <<env, job, seq_next, pub, shutdown, worker, sub>>
      /\ kick' = FALSE /\ stack' = << >>
  BY SafeFacts DEF Kick
<1>2. TypeOK'
  <2>1. stack' \in Seq(Workers)
    BY <1>1
  <2>2. kick' \in BOOLEAN /\ shutdown' \in BOOLEAN
    BY <1>1 DEF TypeOK
  <2> QED
    BY <1>1, <2>1, <2>2 DEF TypeOK, worker, sub
<1>3. Stacked' /\ \A v \in Workers : InStack(v)' => InStack(v)
  BY <1>1, EmptiedStack
<1>4. \A p \in Submitters : Calling(p)'
  BY <1>1, CallingKept DEF sub
<1> QED
  BY <1>1, <1>2, <1>3, <1>4, QuietPool

LEMMA DestroySafe == ASSUME Safe, Destroy PROVE Safe'
<1>1. TypeOK /\ UNCHANGED <<env, job, seq_next, pub, kick, worker, sub>>
      /\ shutdown' = TRUE /\ stack' = << >>
  BY SafeFacts DEF Destroy
<1>2. TypeOK'
  <2>1. stack' \in Seq(Workers)
    BY <1>1
  <2>2. kick' \in BOOLEAN /\ shutdown' \in BOOLEAN
    BY <1>1 DEF TypeOK
  <2> QED
    BY <1>1, <2>1, <2>2 DEF TypeOK, worker, sub
<1>3. Stacked' /\ \A v \in Workers : InStack(v)' => InStack(v)
  BY <1>1, EmptiedStack
<1>4. \A p \in Submitters : Calling(p)'
  BY <1>1, CallingKept DEF sub
<1> QED
  BY <1>1, <1>2, <1>3, <1>4, QuietPool

LEMMA TableFullSafe == ASSUME Safe, NEW p \in Submitters, TableFull(p) PROVE Safe'
<1>1. /\ TypeOK /\ UNCHANGED <<env, job, seq_next, stack, pub, kick, shutdown, worker, call, spec, reg>>
      /\ spc[p] = "register"
      /\ spc' = [spc EXCEPT ![p] = IF reg[p] # << >> THEN "join" ELSE "slotwait"]
  BY SafeFacts DEF TableFull, MustNotBlock
<1>2. TypeOK'
  BY <1>1 DEF TypeOK, worker
<1>3. Stacked' /\ \A v \in Workers : InStack(v)' => InStack(v)
  BY <1>1, SafeFacts DEF Stacked, InStack, worker
<1>4. ASSUME NEW q \in Submitters PROVE Calling(q)'
  <2>1. Calling(q) /\ Specs(q)' = Specs(q)
    BY <1>1, SafeFacts DEF Specs
  <2>2. CASE q = p
    <3>1. spc'[q] \in {"join", "slotwait"} /\ (spc'[q] = "join" => reg[q] # << >>)
      BY <1>1, <2>2 DEF TypeOK
    <3> QED
      BY <1>1, <2>1, <2>2, <3>1 DEF Calling
  <2>3. CASE q # p
    <3>1. spc'[q] = spc[q]
      BY <1>1, <2>3 DEF TypeOK
    <3> QED
      BY <1>1, <2>1, <3>1 DEF Calling
  <2> QED
    BY <2>2, <2>3
<1> QED
  BY <1>1, <1>2, <1>3, <1>4, QuietPool

LEMMA RegisterSafe == ASSUME Safe, NEW p \in Submitters, Register(p) PROVE Safe'
<1>1. PICK s \in Slots, x \in JobSpecs :
        /\ ~job[s].used /\ x = Specs(p)[spec[p]]
        /\ job' = [job EXCEPT ![s] = Registered(x)]
        /\ reg' = [reg EXCEPT ![p] = Append(reg[p], s)]
  <2> DEFINE s == CHOOSE y \in FreeSlots : TRUE
             x == Specs(p)[spec[p]]
  <2>1. s \in FreeSlots
    BY DEF Register
  <2>2. x \in JobSpecs
    BY SafeFacts, PlanType DEF Register
  <2>3. s \in Slots /\ ~job[s].used
    BY <2>1 DEF FreeSlots
  <2> QED
    BY <2>2, <2>3 DEF Register
<1>2. /\ spc[p] = "register" /\ seq_next' = seq_next + 1 /\ stack' \in {Popped(stack), << >>}
      /\ spec' = [spec EXCEPT ![p] = @ + 1]
      /\ spc' = [spc EXCEPT ![p] =
                   IF spec[p] = Len(Specs(p)) \/ Len(reg[p]) + 1 = Chunk THEN "join" ELSE "register"]
      /\ UNCHANGED <<env, pub, kick, shutdown, worker, call>>
  BY DEF Register
<1>3. TypeOK /\ seq_next \in Nat
  BY SafeFacts DEF TypeOK
<1>4. /\ job' \in [Slots -> Jobs] /\ Elsewhere(s)
      /\ job'[s].progress = [r \in 0 .. job'[s].nrows - 1 |-> 0]
      /\ job'[s].parked_need = [r \in 0 .. job'[s].nrows - 1 |-> INT_MAX]
      /\ job'[s].parked_owner = [r \in 0 .. job'[s].nrows - 1 |-> NoJob]
      /\ job'[s].used /\ ~job'[s].done /\ job'[s].seq = seq_next + 1
      /\ job'[s].next_row = 0 /\ job'[s].rows_done = 0
  BY <1>1, <1>3, WroteRegistered
<1>5. stack' \in Seq(Workers) /\ Stacked' /\ \A v \in Workers : InStack(v)' => InStack(v)
  <2>1. \A v \in Workers : pc[v] = "sleep" => pc'[v] = "sleep"
    BY <1>2 DEF worker
  <2> QED
    BY <1>2, <2>1, StackStep
<1>6. reg'[p] = Append(reg[p], s) /\ reg'[p] # << >> /\ reg' \in [Submitters -> Seq(Slots)]
  <2>1. reg[p] \in Seq(Slots) /\ reg \in [Submitters -> Seq(Slots)]
    BY <1>3 DEF TypeOK
  <2>2. Append(reg[p], s) \in Seq(Slots) /\ Append(reg[p], s) # << >>
    BY <2>1
  <2> QED
    BY <1>1, <2>1, <2>2
<1>7. TypeOK'
  <2>1. spc' \in [Submitters -> {"register", "slotwait", "join", "out"}]
        /\ spec' \in [Submitters -> Nat]
    BY <1>2, <1>3 DEF TypeOK
  <2>2. seq_next' \in Nat
    BY <1>2, <1>3
  <2> QED
    BY <1>2, <1>3, <1>4, <1>5, <1>6, <2>1, <2>2 DEF TypeOK, worker
<1>8. ASSUME NEW q \in Submitters PROVE Calling(q)'
  <2>1. Calling(q) /\ Specs(q)' = Specs(q)
    BY <1>2, SafeFacts DEF Specs
  <2>2. CASE q = p
    <3>1. /\ call[p] \in DOMAIN env.plan[p] /\ spec[p] \in 1 .. Len(Specs(p)) + 1
          /\ spec[p] <= Len(Specs(p)) /\ spec[p] \in Nat
      BY <1>2, <1>3, <2>1, <2>2 DEF Calling, TypeOK
    <3>2. Len(Specs(p)) \in Nat
      <4>1. env \in Envs
        BY <1>3 DEF TypeOK
      <4>2. env.plan[p] \in Seq(Seq(JobSpecs) \ {<< >>})
        BY <4>1, PoolAssumption
      <4>3. Specs(p) \in Seq(JobSpecs)
        BY <3>1, <4>2 DEF Specs
      <4> QED
        BY <4>3
    <3>3. /\ spec'[p] = spec[p] + 1 /\ spc'[p] \in {"join", "register"}
          /\ spc'[p] = "register" => spec[p] # Len(Specs(p))
      BY <1>2, <1>3 DEF TypeOK
    <3>4. spec'[p] \in 1 .. Len(Specs(p)) + 1 /\ (spc'[p] = "register" => spec'[p] <= Len(Specs(p)))
      BY <3>1, <3>2, <3>3
    <3>5. call'[p] = call[p] /\ env' = env
      BY <1>2
    <3> QED
      BY <1>6, <2>1, <2>2, <3>1, <3>3, <3>4, <3>5 DEF Calling
  <2>3. CASE q # p
    <3>1. spc'[q] = spc[q] /\ spec'[q] = spec[q] /\ reg'[q] = reg[q] /\ call'[q] = call[q] /\ env' = env
      BY <1>1, <1>2, <1>3, <2>3 DEF TypeOK
    <3> QED
      BY <2>1, <3>1 DEF Calling
  <2> QED
    BY <2>2, <2>3
<1>9. \A v \in Workers : Bystander(v)
  BY <1>2 DEF Bystander, worker
<1>10. ASSUME NEW v \in Workers PROVE ~Busy(v, s) /\ Owns(v, s) = {} /\ ~(pc[v] = "unit" /\ at[v] = s)
  <2>1. Owns(v, s) = {}
    BY <1>1, OwnsBelow
  <2>2. ~(pc[v] = "unit" /\ at[v] = s)
    BY <1>1, SafeFacts DEF Place, InLoop
  <2> QED
    BY <2>1, <2>2 DEF Busy, Owns, HeldJobs
<1>11. ASSUME NEW v \in Workers PROVE Place(v)'
  <2>1. \A t \in Slots : Busy(v, t) => GoesOn(t)
    <3> SUFFICES ASSUME NEW t \in Slots, Busy(v, t) PROVE GoesOn(t)
      OBVIOUS
    <3>1. job'[t] = job[t] /\ job[t].next_row \in Nat
      BY <1>3, <1>4, <1>10, JobTypes DEF Elsewhere
    <3>2. job[t].next_row >= job[t].next_row
      BY <3>1
    <3> QED
      BY <3>1, <3>2 DEF GoesOn
  <2>2. RowsKept(v)
    <3>1. \A h \in held[v] : WaitKept(v, h)
      <4> SUFFICES ASSUME NEW h \in held[v] PROVE WaitKept(v, h)
        OBVIOUS
      <4>1. h.at \in Slots /\ h.at # s
        BY <1>10, HeldFacts DEF Busy, HeldJobs
      <4>2. job'[h.at] = job[h.at]
        BY <1>4, <4>1 DEF Elsewhere
      <4> QED
        BY <4>2, WaitSame
    <3>2. pc[v] \in Active => job'[at[v]] = job[at[v]]
      <4>1. pc[v] \in Active => at[v] \in Slots /\ at[v] # s
        BY <1>10, SafeFacts DEF Place, InRow, Busy
      <4> QED
        BY <1>4, <4>1 DEF Elsewhere
    <3> QED
      BY <3>1, <3>2 DEF RowsKept
  <2>3. pc[v] \in {"next", "bottom"} => (job'[at[v]].seq = run_seq[v] => job'[at[v]].kind = 1)
    <3>1. run_seq[v] <= seq_next /\ run_seq[v] \in Nat
      BY <1>3, SafeFacts DEF Place, TypeOK
    <3>2. seq_next + 1 # run_seq[v]
      BY <1>3, <3>1
    <3>3. pc[v] \in {"next", "bottom"} => InLoop(v) /\ at[v] \in Slots
      BY SafeFacts DEF Place, InLoop
    <3>4. CASE at[v] = s
      BY <1>4, <3>2, <3>4
    <3>5. CASE at[v] # s
      BY <1>4, <3>3, <3>5 DEF InLoop, Elsewhere
    <3> QED
      BY <3>4, <3>5
  <2>4. seq_next' \in Nat /\ seq_next' >= seq_next /\ env' = env
    BY <1>2, <1>3
  <2> QED
    BY <1>3, <1>4, <1>5, <1>9, <2>1, <2>2, <2>3, <2>4, SafeFacts, PlaceKept
<1>12. \A v \in Workers, t \in Slots : Owns(v, t)' = Owns(v, t)
  BY <1>9, OwnsKept
<1>13. \A t \in Slots : InUnit(t)' = InUnit(t)
  BY <1>2 DEF InUnit, worker
<1>14. ASSUME NEW t \in Slots PROVE Tabled(t)'
  <2>1. CASE t = s
    <3>1. InHand(s)' = {}
      <4>1. \A y : y \in InHand(s)' => \E v \in Workers : y \in Owns(v, s)'
        BY DEF InHand
      <4> QED
        BY <1>10, <1>12, <4>1
    <3>2. InUnit(s)' = {}
      BY <1>10, <1>13 DEF InUnit
    <3>3. Cardinality(InHand(s)') = 0 /\ Cardinality(InUnit(s)') = 0
      BY <3>1, <3>2, FS_EmptySet
    <3>4. job'[s].nrows \in Nat
      BY <1>4 DEF Jobs
    <3>5. /\ job'[s].progress \in Array(job'[s].nrows, Nat)
          /\ job'[s].parked_need \in Array(job'[s].nrows, Nat)
          /\ job'[s].parked_owner \in Array(job'[s].nrows, Workers \cup {NoJob})
      <4> DEFINE k == job'[s].nrows
      <4>1. /\ [r \in 0 .. k - 1 |-> 0] \in Array(k, Nat)
            /\ [r \in 0 .. k - 1 |-> INT_MAX] \in Array(k, Nat)
            /\ [r \in 0 .. k - 1 |-> NoJob] \in Array(k, Workers \cup {NoJob})
        BY IntMax DEF Array
      <4> QED
        BY <1>4, <4>1
    <3>6. /\ \A r \in 0 .. job'[s].nrows - 1 : job'[s].progress[r] = 0
          /\ \A r \in 0 .. job'[s].nrows - 1 : job'[s].parked_need[r] = INT_MAX
      BY <1>4
    <3>7. Entry(s)'
      <4>1. job'[s].next_row <= job'[s].nrows
        BY <1>4, <3>4
      <4>2. /\ job'[s].rows_done + Cardinality(InHand(s)') = job'[s].next_row
            /\ job'[s].rows_done + Cardinality(InUnit(s)') = job'[s].next_row
        BY <1>4, <3>3
      <4>3. job'[s].used /\ ~job'[s].done
        BY <1>4
      <4> QED
        BY <3>5, <3>6, <4>1, <4>2, <4>3 DEF Entry
    <3>8. job'[s].seq > 0 /\ job'[s].seq <= seq_next' /\ job'[s].seq # 0
      BY <1>2, <1>3, <1>4
    <3> QED
      BY <2>1, <3>7, <3>8 DEF Tabled
  <2>2. CASE t # s
    <3>1. job'[t] = job[t] /\ job[t].seq \in Nat
      BY <1>3, <1>4, <2>2, JobTypes DEF Elsewhere
    <3>2. InHand(t)' = InHand(t) /\ InUnit(t)' = InUnit(t)
      BY <1>12, <1>13, <3>1 DEF InHand
    <3>3. Tabled(t)
      BY SafeFacts DEF Table
    <3>4. Entry(t) => Entry(t)'
      BY <1>2, <3>1, <3>2 DEF Entry
    <3>5. job'[t].seq <= seq_next'
      BY <1>2, <1>3, <3>1, <3>3 DEF Tabled
    <3> QED
      BY <3>1, <3>3, <3>4, <3>5 DEF Tabled
  <2> QED
    BY <2>1, <2>2
<1>15. NotLost'
  <2> SUFFICES ASSUME NEW t \in Slots, job'[t].seq > 0, job'[t].kind = 0,
                      NEW r \in 0 .. job'[t].next_row - 1,
                      job'[t].progress[r] < job'[t].ncols
               PROVE  \E w \in Workers : r \in Owns(w, t)'
    BY DEF NotLost
  <2>1. t # s
    BY <1>4
  <2>2. job'[t] = job[t]
    BY <1>4, <2>1 DEF Elsewhere
  <2>3. \E w \in Workers : r \in Owns(w, t)
    BY <2>2, SafeFacts DEF NotLost
  <2> QED
    BY <1>12, <2>3
<1>16. Alone'
  BY <1>12, SafeFacts DEF Alone
<1> QED
  BY <1>5, <1>7, <1>8, <1>11, <1>14, <1>15, <1>16 DEF Safe, Places, Table

\* A submitter that has joined one of its jobs knows what comes next.
LEMMA JoinCalling ==
  ASSUME Safe, NEW p \in Submitters, JobWait(p)
  PROVE  /\ \A q \in Submitters : Calling(q)'
         /\ spc' \in [Submitters -> {"register", "slotwait", "join", "out"}]
         /\ call' \in [Submitters -> Nat] /\ spec' \in [Submitters -> Nat]
         /\ reg' \in [Submitters -> Seq(Slots)]
         /\ reg[p] # << >>
<1> DEFINE last == Len(reg[p]) = 1
           more == spec[p] <= Len(Specs(p))
           next == IF ~last THEN "join"
                   ELSE IF more \/ call[p] < Len(env.plan[p]) THEN "register" ELSE "out"
<1>1. /\ spc[p] = "join" /\ reg' = [reg EXCEPT ![p] = Tail(@)] /\ env' = env
      /\ call' = IF last /\ ~more THEN [call EXCEPT ![p] = @ + 1] ELSE call
      /\ spec' = IF last /\ ~more THEN [spec EXCEPT ![p] = 1] ELSE spec
      /\ \/ spc' = [spc EXCEPT ![p] = next]
         \/ \E q \in Submitters : spc[q] = "slotwait" /\ spc' = [spc EXCEPT ![p] = next, ![q] = "register"]
  BY DEF JobWait
<1>2. /\ TypeOK /\ Calling(p) /\ call[p] \in DOMAIN env.plan[p]
      /\ spec[p] \in 1 .. Len(Specs(p)) + 1 /\ reg[p] # << >> /\ reg[p] \in Seq(Slots)
      /\ env \in Envs /\ spec[p] \in Nat /\ call[p] \in Nat
  BY <1>1, SafeFacts DEF Calling, TypeOK
<1>3. env.plan[p] \in Seq(Seq(JobSpecs) \ {<< >>})
  BY <1>2, PoolAssumption
<1>4. Tail(reg[p]) \in Seq(Slots) /\ (~last => Tail(reg[p]) # << >>)
  <2>1. \A z \in Seq(Slots) : z # << >> =>
          Tail(z) \in Seq(Slots) /\ Len(Tail(z)) = Len(z) - 1 /\ Len(z) \in Nat
    BY HeadTailProperties
  <2>2. Tail(reg[p]) \in Seq(Slots) /\ Len(Tail(reg[p])) = Len(reg[p]) - 1 /\ Len(reg[p]) \in Nat
    BY ONLY <1>2, <2>1
  <2>3. Len(reg[p]) # 1 => Len(Tail(reg[p])) # 0
    BY ONLY <2>2
  <2>4. Len(<< >>) = 0
    OBVIOUS
  <2>5. Len(Tail(reg[p])) # 0 => Tail(reg[p]) # << >>
    BY ONLY <2>4, Zenon
  <2> QED
    BY <2>2, <2>3, <2>5
<1>5. /\ spc' \in [Submitters -> {"register", "slotwait", "join", "out"}]
      /\ call' \in [Submitters -> Nat] /\ spec' \in [Submitters -> Nat]
      /\ reg' \in [Submitters -> Seq(Slots)]
  <2>1. next \in {"register", "slotwait", "join", "out"}
    OBVIOUS
  <2>2. spc \in [Submitters -> {"register", "slotwait", "join", "out"}]
        /\ call \in [Submitters -> Nat] /\ spec \in [Submitters -> Nat]
        /\ reg \in [Submitters -> Seq(Slots)]
    BY <1>2 DEF TypeOK
  <2> HIDE DEF next, last, more
  <2>3. spc' \in [Submitters -> {"register", "slotwait", "join", "out"}]
    BY <1>1, <2>1, <2>2
  <2>4. call' \in [Submitters -> Nat] /\ spec' \in [Submitters -> Nat]
    BY <1>1, <2>2
  <2>5. reg' \in [Submitters -> Seq(Slots)]
    BY <1>1, <1>4, <2>2
  <2> QED
    BY <2>3, <2>4, <2>5
<1>6. Calling(p)'
  <2>1. spc'[p] = next
    <3>1. spc \in [Submitters -> {"register", "slotwait", "join", "out"}]
      BY <1>2 DEF TypeOK
    <3>2. ASSUME NEW q \in Submitters, spc[q] = "slotwait", spc' = [spc EXCEPT ![p] = next, ![q] = "register"]
          PROVE  spc'[p] = next
      <4>1. q # p
        BY <1>1, <3>2
      <4> HIDE DEF next
      <4> QED
        BY <3>1, <3>2, <4>1
    <3>3. CASE spc' = [spc EXCEPT ![p] = next]
      <4> HIDE DEF next
      <4> QED
        BY <3>1, <3>3
    <3> QED
      BY <1>1, <3>2, <3>3
  <2>2. reg'[p] = Tail(reg[p])
    BY <1>1, <1>2 DEF TypeOK
  <2>3. CASE ~last
    <3>1. call'[p] = call[p] /\ spec'[p] = spec[p] /\ spc'[p] = "join" /\ reg'[p] # << >>
      BY <1>1, <1>4, <2>1, <2>2, <2>3
    <3>2. Specs(p)' = Specs(p)
      BY <1>1, <3>1 DEF Specs
    <3> QED
      BY <1>1, <1>2, <3>1, <3>2 DEF Calling
  <2>4. CASE last /\ more
    <3>1. call'[p] = call[p] /\ spec'[p] = spec[p] /\ spc'[p] = "register"
      BY <1>1, <2>1, <2>4
    <3>2. Specs(p)' = Specs(p)
      BY <1>1, <3>1 DEF Specs
    <3>3. spec[p] <= Len(Specs(p))
      BY <2>4
    <3> QED
      BY <1>1, <1>2, <3>1, <3>2, <3>3 DEF Calling
  <2>5. CASE last /\ ~more
    <3>1. call'[p] = call[p] + 1 /\ spec'[p] = 1
      <4>1. call' = [call EXCEPT ![p] = call[p] + 1] /\ spec' = [spec EXCEPT ![p] = 1]
        BY <1>1, <2>5
      <4> QED
        BY <1>2, <4>1 DEF TypeOK
    <3>2. CASE call[p] < Len(env.plan[p])
      <4>1. spc'[p] = "register"
        BY <2>1, <2>5, <3>2
      <4>2. call[p] + 1 \in DOMAIN env.plan[p] /\ env.plan[p][call[p] + 1] \in Seq(JobSpecs) \ {<< >>}
        BY <1>2, <1>3, <3>2
      <4>3. Len(env.plan[p][call[p] + 1]) \in Nat /\ 1 <= Len(env.plan[p][call[p] + 1])
        BY <4>2
      <4>4. Specs(p)' = env.plan[p][call[p] + 1]
        BY <1>1, <3>1 DEF Specs
      <4>5. 1 \in 1 .. Len(env.plan[p][call[p] + 1]) + 1
        BY <4>3
      <4> QED
        BY <1>1, <3>1, <4>1, <4>2, <4>3, <4>4, <4>5 DEF Calling
    <3>3. CASE ~(call[p] < Len(env.plan[p]))
      <4>1. spc'[p] = "out"
        BY <2>1, <2>5, <3>3
      <4> QED
        BY <4>1 DEF Calling
    <3> QED
      BY <3>2, <3>3
  <2> QED
    BY <2>3, <2>4, <2>5
<1>7. ASSUME NEW q \in Submitters, q # p PROVE Calling(q)'
  <2>1. call'[q] = call[q] /\ spec'[q] = spec[q] /\ reg'[q] = reg[q]
    <3> HIDE DEF last, more, next
    <3> QED
      BY <1>1, <1>2, <1>7 DEF TypeOK
  <2>2. spc'[q] = spc[q] \/ (spc[q] = "slotwait" /\ spc'[q] = "register")
    <3> HIDE DEF last, more, next
    <3> QED
      BY <1>1, <1>2, <1>7 DEF TypeOK
  <2>3. Specs(q)' = Specs(q) /\ Calling(q)
    BY <1>1, <2>1, SafeFacts DEF Specs
  <2> QED
    BY <1>1, <2>1, <2>2, <2>3 DEF Calling
<1> QED
  BY <1>2, <1>5, <1>6, <1>7

LEMMA JobWaitSafe == ASSUME Safe, NEW p \in Submitters, JobWait(p) PROVE Safe'
<1>1. /\ \A q \in Submitters : Calling(q)'
      /\ spc' \in [Submitters -> {"register", "slotwait", "join", "out"}]
      /\ call' \in [Submitters -> Nat] /\ spec' \in [Submitters -> Nat]
      /\ reg' \in [Submitters -> Seq(Slots)] /\ reg[p] # << >>
  BY JoinCalling
<1>2. PICK s \in Slots : job[s].done /\ job' = [job EXCEPT ![s].used = FALSE]
  <2>1. reg[p] \in Seq(Slots)
    BY SafeFacts DEF TypeOK
  <2>2. Head(reg[p]) \in Slots
    BY <1>1, <2>1
  <2> QED
    BY <2>2 DEF JobWait
<1>3. UNCHANGED <<env, seq_next, stack, pub, kick, shutdown, worker>>
  BY DEF JobWait
<1>4. TypeOK /\ job[s].seq \in Nat /\ job[s].seq > 0 /\ Entry(s)
  <2>1. TypeOK /\ job[s].seq \in Nat /\ Tabled(s)
    BY SafeFacts, JobTypes DEF Table
  <2>2. job[s].seq # 0
    BY <1>2, <2>1 DEF Tabled
  <2> QED
    BY <2>1, <2>2, SafeFacts
<1>5. /\ job' \in [Slots -> Jobs] /\ Elsewhere(s) /\ SameRows(s) /\ SameCounts(s)
      /\ ~job'[s].used /\ job'[s].seq = job[s].seq /\ job'[s].kind = job[s].kind
      /\ job'[s].nrows = job[s].nrows /\ job'[s].ncols = job[s].ncols
  BY <1>2, <1>4, WroteUnused
<1>6. stack' \in Seq(Workers) /\ Stacked' /\ \A v \in Workers : InStack(v)' => InStack(v)
  <2>1. \A v \in Workers : pc[v] = "sleep" => pc'[v] = "sleep"
    BY <1>3 DEF worker
  <2> QED
    BY <1>3, <2>1, StackStep
<1>7. TypeOK'
  <2>1. job' \in [Slots -> Jobs] /\ stack' \in Seq(Workers)
    BY <1>5, <1>6
  <2> QED
    BY <1>1, <1>3, <1>4, <2>1 DEF TypeOK, worker
<1>8. \A v \in Workers : Bystander(v)
  BY <1>3 DEF Bystander, worker
<1>9. ASSUME NEW v \in Workers PROVE ~Busy(v, s)
  <2>1. Owns(v, s) = {}
    BY <1>2, OwnsBelow
  <2>2. ~(pc[v] = "unit" /\ at[v] = s)
    BY <1>2, SafeFacts DEF Place, InLoop
  <2> QED
    BY <2>1, <2>2 DEF Busy, Owns, HeldJobs
<1>10. ASSUME NEW v \in Workers PROVE Place(v)'
  <2>1. \A t \in Slots : Busy(v, t) => GoesOn(t)
    <3> SUFFICES ASSUME NEW t \in Slots, Busy(v, t) PROVE GoesOn(t)
      OBVIOUS
    <3>1. job'[t] = job[t] /\ job[t].next_row \in Nat
      BY <1>4, <1>5, <1>9, JobTypes DEF Elsewhere
    <3>2. job[t].next_row >= job[t].next_row
      BY <3>1
    <3> QED
      BY <3>1, <3>2 DEF GoesOn
  <2>2. RowsKept(v)
    <3>1. \A h \in held[v] : WaitKept(v, h)
      <4> SUFFICES ASSUME NEW h \in held[v] PROVE WaitKept(v, h)
        OBVIOUS
      <4>1. h.at \in Slots /\ h.at # s
        BY <1>9, HeldFacts DEF Busy, HeldJobs
      <4>2. job'[h.at] = job[h.at]
        BY <1>5, <4>1 DEF Elsewhere
      <4> QED
        BY <4>2, WaitSame
    <3>2. pc[v] \in Active => job'[at[v]] = job[at[v]]
      <4>1. pc[v] \in Active => at[v] \in Slots /\ at[v] # s
        BY <1>9, SafeFacts DEF Place, InRow, Busy
      <4> QED
        BY <1>5, <4>1 DEF Elsewhere
    <3> QED
      BY <3>1, <3>2 DEF RowsKept
  <2>3. pc[v] \in {"next", "bottom"} => (job'[at[v]].seq = run_seq[v] => job'[at[v]].kind = 1)
    <3>1. pc[v] \in {"next", "bottom"} => InLoop(v) /\ at[v] \in Slots
      BY SafeFacts DEF Place, InLoop
    <3>2. \A t \in Slots : job'[t].seq = job[t].seq /\ job'[t].kind = job[t].kind
      BY <1>5 DEF Elsewhere
    <3> QED
      BY <3>1, <3>2 DEF InLoop
  <2>4. seq_next' \in Nat /\ seq_next' >= seq_next /\ env' = env
    BY <1>3, <1>4 DEF TypeOK
  <2> QED
    BY <1>4, <1>5, <1>6, <1>8, <2>1, <2>2, <2>3, <2>4, SafeFacts, PlaceKept
<1>11. \A v \in Workers, t \in Slots : Owns(v, t)' = Owns(v, t)
  BY <1>8, OwnsKept
<1>12. \A t \in Slots : InUnit(t)' = InUnit(t)
  BY <1>3 DEF InUnit, worker
<1>13. \A t \in Slots : InHand(t)' = InHand(t)
  <2>1. \A t \in Slots : job'[t].next_row = job[t].next_row
    BY <1>5 DEF Elsewhere, SameCounts
  <2> QED
    BY <1>11, <2>1 DEF InHand
<1>14. ASSUME NEW t \in Slots PROVE Tabled(t)'
  <2>1. Tabled(t) /\ seq_next' = seq_next /\ env' = env
    BY <1>3, SafeFacts DEF Table
  <2>2. CASE t = s
    <3>1. /\ job'[s].nrows = job[s].nrows /\ job'[s].next_row = job[s].next_row
          /\ job'[s].rows_done = job[s].rows_done /\ job'[s].done = job[s].done
          /\ job'[s].kind = job[s].kind /\ job'[s].progress = job[s].progress
          /\ job'[s].parked_need = job[s].parked_need /\ job'[s].parked_owner = job[s].parked_owner
      BY <1>5 DEF SameCounts, SameRows
    <3>2. Entry(s)'
      BY <1>2, <1>4, <1>12, <1>13, <2>1, <3>1 DEF Entry
    <3>3. job'[s].seq = job[s].seq /\ job[s].seq # 0
      BY <1>4, <1>5
    <3> QED
      BY <2>1, <2>2, <3>2, <3>3 DEF Tabled
  <2>3. CASE t # s
    <3>1. job'[t] = job[t]
      BY <1>5, <2>3 DEF Elsewhere
    <3>2. Entry(t) => Entry(t)'
      BY <1>12, <1>13, <2>1, <3>1 DEF Entry
    <3> QED
      BY <2>1, <3>1, <3>2 DEF Tabled
  <2> QED
    BY <2>2, <2>3
<1>15. NotLost'
  <2>1. \A t \in Slots : /\ job'[t].seq = job[t].seq /\ job'[t].kind = job[t].kind
                         /\ job'[t].next_row = job[t].next_row /\ job'[t].progress = job[t].progress
                         /\ job'[t].ncols = job[t].ncols
    BY <1>5 DEF Elsewhere, SameCounts, SameRows
  <2> SUFFICES ASSUME NEW t \in Slots, job'[t].seq > 0, job'[t].kind = 0,
                      NEW r \in 0 .. job'[t].next_row - 1,
                      job'[t].progress[r] < job'[t].ncols
               PROVE  \E w \in Workers : r \in Owns(w, t)'
    BY DEF NotLost
  <2>2. \E w \in Workers : r \in Owns(w, t)
    BY <2>1, SafeFacts DEF NotLost
  <2> QED
    BY <1>11, <2>2
<1>16. Alone'
  BY <1>11, SafeFacts DEF Alone
<1> QED
  BY <1>1, <1>6, <1>7, <1>10, <1>14, <1>15, <1>16 DEF Safe, Places, Table

-----------------------------------------------------------------------------
(* Every reachable state is safe.                                           *)

LEMMA BlankJob == Blank \in Jobs
<1>1. \A S : << >> \in Array(0, S)
  <2>1. 0 .. 0 - 1 = {}
    OBVIOUS
  <2>2. \A S : << >> \in [{} -> S]
    OBVIOUS
  <2> QED
    BY <2>1, <2>2 DEF Array
<1>2. \A S : << >> \in Arrays(S)
  BY <1>1 DEF Arrays
<1>3. 1 \in 1 .. INT_MAX - 1
  BY IntMax
<1> QED
  BY <1>2, <1>3 DEF Blank, Jobs

LEMMA InitSafe == ASSUME Init PROVE Safe
<1>1. TypeOK
  <2>1. job \in [Slots -> Jobs]
    BY BlankJob DEF Init
  <2>2. /\ pc \in [Workers -> Labels] /\ at \in [Workers -> Slots \cup {NoJob}]
        /\ held \in [Workers -> SUBSET Parked] /\ stack \in Seq(Workers)
        /\ reg \in [Submitters -> Seq(Slots)]
    BY DEF Init, Labels
  <2>3. /\ row \in [Workers -> Nat] /\ col \in [Workers -> Nat]
        /\ run_seq \in [Workers -> Nat] /\ cur_seq \in [Workers -> Nat]
        /\ spc \in [Submitters -> {"register", "slotwait", "join", "out"}]
        /\ call \in [Submitters -> Nat] /\ spec \in [Submitters -> Nat]
    BY DEF Init
  <2>4. env \in Envs /\ seq_next \in Nat /\ pub \in Nat /\ kick \in BOOLEAN /\ shutdown \in BOOLEAN
    BY DEF Init
  <2> QED
    BY <2>1, <2>2, <2>3, <2>4 DEF TypeOK, Labels
<1>2. ASSUME NEW p \in Submitters PROVE Calling(p)
  <2>1. env.plan[p] \in Seq(Seq(JobSpecs) \ {<< >>}) \ {<< >>}
    BY PoolAssumption DEF Init
  <2>2. 1 \in DOMAIN env.plan[p] /\ env.plan[p][1] \in Seq(JobSpecs) \ {<< >>}
    BY <2>1
  <2>3. Len(env.plan[p][1]) \in Nat /\ 1 <= Len(env.plan[p][1])
    BY <2>2
  <2>4. call[p] = 1 /\ spec[p] = 1 /\ spc[p] = "register"
    BY DEF Init
  <2>5. Specs(p) = env.plan[p][1]
    BY <2>4 DEF Specs
  <2>6. 1 \in 1 .. Len(env.plan[p][1]) + 1
    BY <2>3
  <2> QED
    BY <2>2, <2>3, <2>4, <2>5, <2>6 DEF Calling
<1>3. Stacked
  BY DEF Init, Stacked
<1>4. \A s \in Slots : job[s].seq = 0 /\ ~job[s].used /\ ~job[s].done
  BY DEF Init, Blank
<1>5. Table
  BY <1>4 DEF Table, Tabled, Init
<1>6. \A w \in Workers : pc[w] = "top" /\ held[w] = {} /\ run_seq[w] = 0 /\ seq_next = 0
  BY DEF Init
<1>7. Places
  BY <1>6 DEF Places, Place, Active
<1>8. Alone
  BY <1>6 DEF Alone, Owns, Active
<1>9. NotLost
  BY <1>4 DEF NotLost
<1> QED
  BY <1>1, <1>2, <1>3, <1>5, <1>7, <1>8, <1>9 DEF Safe

LEMMA StutterSafe == ASSUME Safe, UNCHANGED vars PROVE Safe'
<1>1. TypeOK'
  BY SafeFacts DEF TypeOK, vars, worker, sub
<1>2. Stacked' /\ \A v \in Workers : InStack(v)' => InStack(v)
  BY SafeFacts DEF Stacked, InStack, vars, worker
<1>3. job' = job /\ env' = env /\ seq_next' = seq_next /\ worker' = worker
      /\ spc' = spc /\ call' = call /\ spec' = spec /\ reg' = reg
  BY DEF vars, sub
<1>4. \A p \in Submitters : Calling(p)'
  BY <1>3, CallingKept
<1> QED
  BY <1>1, <1>2, <1>3, <1>4, QuietPool

LEMMA SafeStep == ASSUME Safe, [Next]_vars PROVE Safe'
<1>1. ASSUME NEW w \in Workers, Worker(w) PROVE Safe'
  BY <1>1, ResumeSafe, ClaimSafe, IdleSafe, WakeSafe, LookSafe, StallSafe, RewaitSafe,
     EndCellSafe, NotifySafe, PokeSafe, HintWakeSafe, StartWakeSafe, RowEndSafe, UnitSafe,
     NextUnitSafe, UnitEndSafe DEF Worker
<1>2. ASSUME NEW p \in Submitters, Submitter(p) PROVE Safe'
  BY <1>2, RegisterSafe, TableFullSafe, JobWaitSafe DEF Submitter
<1>3. CASE Publish
  BY <1>3, PublishSafe
<1>4. CASE Kick
  BY <1>4, KickSafe
<1>5. CASE Destroy
  BY <1>5, DestroySafe
<1>6. CASE Joined
  BY <1>6, StutterSafe DEF Joined
<1>7. CASE UNCHANGED vars
  BY <1>7, StutterSafe
<1> QED
  BY <1>1, <1>2, <1>3, <1>4, <1>5, <1>6, <1>7 DEF Next

\* The pool's table, its stack and the places of its workers stay consistent.
THEOREM PoolSafe == Spec => []Safe
<1>1. Init => Safe
  BY InitSafe
<1>2. Safe /\ [Next]_vars => Safe'
  BY SafeStep
<1> QED
  BY <1>1, <1>2, PTL DEF Spec

\* Property SlotLive: the slot of a row or unit in hand, and of every parked
\* row, is that of the live job it was claimed from, whatever was registered,
\* finished or reused meanwhile.
THEOREM SlotIsLive == Spec => []SlotLive
<1>1. Safe => SlotLive
  <2> SUFFICES ASSUME Safe PROVE SlotLive
    OBVIOUS
  <2>1. ASSUME NEW w \in Workers, pc[w] \in Active \cup {"unit"}
        PROVE  job[at[w]].used /\ ~job[at[w]].done /\ job[at[w]].seq = run_seq[w]
    BY <2>1, SafeFacts DEF Place, InRow, InLoop
  <2>2. ASSUME NEW w \in Workers, NEW h \in held[w]
        PROVE  job[h.at].used /\ ~job[h.at].done
    BY HeldFacts DEF Holds
  <2> QED
    BY <2>1, <2>2 DEF SlotLive
<1> QED
  BY <1>1, PoolSafe, PTL

\* Property RowsOwned: a claimed row that is not finished is in the hands of
\* exactly one worker, a worker has at most one row of a job, and it runs with
\* the thread-locals of the job its row is of.
THEOREM RowsAreOwned == Spec => []RowsOwned
<1>1. Safe => RowsOwned
  <2> SUFFICES ASSUME Safe PROVE RowsOwned
    OBVIOUS
  <2>1. ASSUME NEW s \in Slots, job[s].used, job[s].kind = 0, NEW r \in 0 .. job[s].next_row - 1,
               job[s].progress[r] < job[s].ncols
        PROVE  \E w \in Workers : r \in Owns(w, s)
    BY <2>1, SafeFacts DEF NotLost
  <2>2. \A s \in Slots, v, w \in Workers : v # w => Owns(v, s) \cap Owns(w, s) = {}
    BY SafeFacts DEF Alone
  <2>3. ASSUME NEW w \in Workers, NEW s \in Slots PROVE Cardinality(Owns(w, s)) <= 1
    <3>1. \A x, y \in Owns(w, s) : x = y
      <4>1. \A h, g \in held[w] : h.at = g.at => h = g
        BY SafeFacts DEF Place
      <4>2. pc[w] \in Active => \A h \in held[w] : h.at # at[w]
        BY HeldElsewhere
      <4> QED
        BY <4>1, <4>2 DEF Owns
    <3>2. CASE Owns(w, s) = {}
      BY <3>2, FS_EmptySet
    <3>3. CASE Owns(w, s) # {}
      <4>1. PICK x : Owns(w, s) = {x}
        BY <3>1, <3>3
      <4>2. Cardinality(Owns(w, s)) = 1
        BY <4>1, FS_Singleton
      <4> QED
        BY <4>2
    <3> QED
      BY <3>2, <3>3
  <2>4. \A w \in Workers : pc[w] \in Active => cur_seq[w] = job[at[w]].seq
    BY SafeFacts DEF Place, InRow
  <2> QED
    BY <2>1, <2>2, <2>3, <2>4 DEF RowsOwned
<1> QED
  BY <1>1, PoolSafe, PTL

-----------------------------------------------------------------------------
(* Wake-ups.                                                                *)

\* Somebody on the stack is an idler.
LEMMA Idlers ==
  ASSUME Safe, NEW v \in Workers, pc[v] = "sleep"
  PROVE  idlers > 0 /\ idlers # 0
<1> DEFINE Z == {w \in Workers : pc[w] = "sleep"}
<1>1. IsFiniteSet(Z) /\ v \in Z
  <2>1. IsFiniteSet(Workers) /\ Z \subseteq Workers
    BY PoolAssumption
  <2> QED
    BY <2>1, FS_Subset
<1> HIDE DEF Z
<1>2. Cardinality(Z) \in Nat /\ Cardinality(Z) # 0
  <2>1. Cardinality(Z) \in Nat
    BY <1>1, FS_CardinalityType
  <2>2. Cardinality(Z) = 0 <=> Z = {}
    BY <1>1, FS_EmptySet
  <2> QED
    BY <1>1, <2>1, <2>2
<1> QED
  BY <1>2 DEF Z, idlers

LEMMA TopOfStack ==
  ASSUME Safe, stack # << >>
  PROVE  \E v \in Workers : v = stack[Len(stack)] /\ pc[v] = "sleep" /\ InStack(v)
<1>1. stack \in Seq(Workers) /\ Len(stack) \in Nat /\ Len(stack) > 0
  BY SafeFacts DEF TypeOK
<1>2. Len(stack) \in 1 .. Len(stack)
  BY <1>1
<1>3. stack[Len(stack)] \in Workers
  BY <1>1, <1>2
<1>4. pc[stack[Len(stack)]] = "sleep"
  BY <1>2, SafeFacts DEF Stacked
<1> QED
  BY <1>2, <1>3, <1>4 DEF InStack

\* Without parking no worker holds a row, and no hint is due.
LEMMA NoHint ==
  ASSUME Safe, ~env.park, NEW w \in Workers, pc[w] \in Active \ Before
  PROVE  ~HintDue(w)
<1>1. PICK s \in Slots, r \in Nat, c \in Nat :
        s = at[w] /\ r = row[w] /\ c = col[w] /\ InRow(w) /\ Entry(s) /\ job[s].seq > 0
  <2>1. InRow(w)
    BY SafeFacts DEF Place
  <2>2. at[w] \in Slots /\ row[w] \in Nat /\ col[w] \in Nat /\ job[at[w]].used
    BY <2>1, SafeFacts DEF InRow, TypeOK
  <2> QED
    BY <2>1, <2>2, SafeFacts
<1>2. c < job[s].ncols /\ job[s].ncols \in Nat /\ job[s].ncols < INT_MAX /\ job[s].nrows \in Nat
  BY <1>1, SafeFacts, JobTypes DEF InRow
<1>3. r + 1 < job[s].nrows => job[s].parked_need[r + 1] = INT_MAX
  BY <1>1, <1>2 DEF Entry
<1>4. INT_MAX \in Nat
  BY IntMax
<1>5. ~(r + 1 < job[s].nrows /\ job[s].parked_need[r + 1] <= c + 1)
  BY ONLY <1>1, <1>2, <1>3, <1>4
<1> QED
  BY <1>1, <1>5 DEF HintDue

\* A worker keeps what it has announced.
LEMMA ComingKept ==
  ASSUME Safe, Coming, kick' = kick, stack' = stack,
         \A s \in Slots : job'[s].ncols = job[s].ncols,
         \A v \in Workers :
            \/ pc[v] \notin {"top", "start", "sleep", "notify", "poke"}
            \/ pc[v] = "poke" /\ col[v] + 1 # StartNeed(at[v])
            \/ /\ at'[v] = at[v] /\ col'[v] = col[v]
               /\ pc'[v] = pc[v] \/ (pc[v] = "notify" /\ pc'[v] = "poke")
  PROVE  Coming'
<1>1. CASE kick
  BY <1>1 DEF Coming, Herald
<1>2. CASE \E v \in Workers : Herald(v)
  <2>1. PICK v \in Workers : Herald(v)
    BY <1>2
  <2>2. pc'[v] \in {"top", "start", "sleep", "notify", "poke"}
    BY <2>1 DEF Herald
  <2>3. CASE pc[v] \in {"notify", "poke"}
    <3>1. at[v] \in Slots /\ at'[v] = at[v] /\ col'[v] = col[v] /\ pc'[v] \in {"notify", "poke"}
      BY <2>1, <2>3, SafeFacts DEF Herald, Place, InRow, Active
    <3>2. StartNeed(at[v])' = StartNeed(at[v])
      BY <3>1 DEF StartNeed
    <3>3. col'[v] + 1 = StartNeed(at[v])'
      BY <2>1, <2>3, <3>1, <3>2 DEF Herald
    <3> QED
      BY <3>1, <3>3 DEF Coming, Herald
  <2>4. CASE pc[v] \notin {"notify", "poke"}
    <3>1. pc'[v] = pc[v] /\ InStack(v)' = InStack(v)
      BY <2>1, <2>4 DEF Herald, InStack
    <3> QED
      BY <2>1, <2>4, <3>1 DEF Herald, Coming
  <2> QED
    BY <2>3, <2>4
<1> QED
  BY <1>1, <1>2 DEF Coming, Herald

LEMMA ReadyBefore ==
  ASSUME NEW s \in Slots, pub' = pub, job'[s].next_row = job[s].next_row, SameJob(s),
         job'[s].done = job[s].done, job'[s].progress = job[s].progress, Ready(s)'
  PROVE  Ready(s)
BY DEF Ready, ReadyIn, GateOpen, StartNeed, SameJob

\* Nothing became ready, and nobody was popped or pushed.
LEMMA AnnouncedKept ==
  ASSUME Safe, Announced, env' = env, kick' = kick, stack' = stack,
         \A s \in Slots : job'[s].ncols = job[s].ncols,
         \A s \in Slots : Ready(s)' => Ready(s),
         \A v \in Workers :
            \/ pc[v] \notin {"top", "start", "sleep", "notify", "poke"}
            \/ pc[v] = "poke" /\ col[v] + 1 # StartNeed(at[v])
            \/ /\ at'[v] = at[v] /\ col'[v] = col[v]
               /\ pc'[v] = pc[v] \/ (pc[v] = "notify" /\ pc'[v] = "poke")
  PROVE  Announced'
<1> SUFFICES ASSUME ~env'.park, Wanted' PROVE Coming'
  BY DEF Announced
<1>1. Wanted
  BY DEF Wanted
<1>2. Coming
  BY <1>1 DEF Announced
<1> QED
  BY <1>2, ComingKept

\* Whoever was popped is on its way to look, and who empties the stack leaves
\* nobody to wake.
LEMMA PopAnnounces ==
  ASSUME Safe, stack' \in {Popped(stack), << >>},
         \A v \in Workers : pc[v] = "sleep" => pc'[v] = "sleep"
  PROVE  Announced'
<1>1. CASE stack' = << >>
  BY <1>1 DEF Announced, Wanted
<1>2. CASE stack' # << >>
  <2>1. stack \in Seq(Workers) /\ stack # << >> /\ stack' = Popped(stack)
    BY <1>2, SafeFacts, PoppedStack DEF TypeOK
  <2>2. PICK v \in Workers : v = stack[Len(stack)] /\ pc[v] = "sleep"
    BY <2>1, TopOfStack
  <2>3. Len(stack) \in Nat /\ Len(stack) > 0
    BY <2>1
  <2>4. \A i \in 1 .. Len(stack') : stack'[i] # v
    <3>1. \A i \in 1 .. Len(stack') : i \in 1 .. Len(stack) - 1 /\ stack'[i] = stack[i]
      BY <2>1, PoppedStack
    <3>2. \A i, j \in 1 .. Len(stack) : stack[i] = stack[j] => i = j
      BY SafeFacts DEF Stacked
    <3>3. \A i \in 1 .. Len(stack) - 1 : stack[i] # v
      BY <2>2, <2>3, <3>2
    <3> QED
      BY <3>1, <3>3
  <2>5. pc'[v] = "sleep" /\ ~InStack(v)'
    BY <2>2, <2>4 DEF InStack
  <2> QED
    BY <2>5 DEF Announced, Coming, Herald
<1> QED
  BY <1>1, <1>2

\* So is a worker at the top of its loop.
LEMMA TopAnnounces ==
  ASSUME NEW w \in Workers, pc'[w] = "top" PROVE Announced'
BY DEF Announced, Coming, Herald

\* The end of a cell writes the progress of its row.
EndedCell(w, s, r, c) ==
    /\ s = at[w] /\ r = row[w] /\ c = col[w]
    /\ job[s].kind = 0 /\ r < job[s].next_row /\ job[s].progress[r] = c
    /\ r \in 0 .. job[s].nrows - 1
    /\ job[s].progress \in Array(job[s].nrows, Nat)
    /\ Elsewhere(s) /\ SameJob(s) /\ SameCounts(s)
    /\ job'[s].progress = [job[s].progress EXCEPT ![r] = c + 1]
LEMMA CellEnds ==
  ASSUME Safe, NEW w \in Workers, EndCell(w)
  PROVE  \E s \in Slots, r \in Nat, c \in Nat : EndedCell(w, s, r, c)
<1>1. PICK s \in Slots, r \in Nat, c \in Nat :
        s = at[w] /\ r = row[w] /\ c = col[w] /\ InRow(w) /\ Entry(s)
  <2>1. InRow(w)
    BY SafeFacts DEF Place, EndCell, Active
  <2>2. at[w] \in Slots /\ row[w] \in Nat /\ col[w] \in Nat /\ job[at[w]].used
    BY <2>1, SafeFacts DEF InRow, TypeOK
  <2> QED
    BY <2>1, <2>2, SafeFacts
<1>2. TypeOK /\ pc[w] = "cell" /\ job' = [job EXCEPT ![s].progress[r] = c + 1]
  BY <1>1, SafeFacts DEF EndCell
<1>3. /\ job[s].kind = 0 /\ r < job[s].next_row /\ job[s].progress[r] = c
      /\ job[s].next_row \in Nat /\ job[s].nrows \in Nat /\ job[s].next_row <= job[s].nrows
      /\ job[s].progress \in Array(job[s].nrows, Nat)
  BY <1>1, <1>2, JobTypes DEF InRow, Before, Entry
<1>4. r \in 0 .. job[s].nrows - 1 /\ c + 1 \in Nat
  BY <1>1, <1>3
<1>5. /\ Elsewhere(s) /\ SameJob(s) /\ SameCounts(s)
      /\ job'[s].progress = [job[s].progress EXCEPT ![r] = c + 1]
  <2>1. TypeOK /\ job[s].progress \in Array(job[s].nrows, Nat)
        /\ job' = [job EXCEPT ![s].progress[r] = c + 1]
    BY <1>2, <1>3
  <2> QED
    BY ONLY <1>4, <2>1, WroteProgress, Zenon
<1>6. EndedCell(w, s, r, c)
  BY ONLY <1>1, <1>3, <1>4, <1>5, Zenon DEF EndedCell
<1> QED
  BY <1>6

\* A cell makes the row below claimable when it ends the columns of a start.
LEMMA EndCellAnnounced == ASSUME Safe, Announced, NEW w \in Workers, EndCell(w) PROVE Announced'
<1>1. PICK s \in Slots, r \in Nat, c \in Nat : EndedCell(w, s, r, c)
  BY CellEnds
<1>2. /\ TypeOK /\ pc[w] = "cell" /\ pc'[w] = "notify" /\ \A v \in Workers \ {w} : pc'[v] = pc[v]
      /\ UNCHANGED <<env, kick, stack, pub, at, col>>
  BY SafeFacts DEF EndCell, Goto, TypeOK
<1>3. /\ s = at[w] /\ c = col[w] /\ job[s].kind = 0 /\ r < job[s].next_row /\ job[s].progress[r] = c
      /\ job[s].next_row \in Nat /\ job[s].nrows \in Nat /\ job[s].next_row <= job[s].nrows
      /\ job[s].progress \in Array(job[s].nrows, Nat) /\ job[s].ncols \in Nat
  <2>1. job[s].seq > 0 => job[s].next_row <= job[s].nrows
    BY SafeFacts DEF Entry
  <2>2. job[s].seq > 0
    <3>1. InRow(w)
      BY <1>2, SafeFacts DEF Place, Active
    <3> QED
      BY <1>1, <3>1, SafeFacts DEF InRow, EndedCell
  <2> QED
    BY <1>1, <1>2, <2>1, <2>2, JobTypes DEF EndedCell
<1>4. /\ Elsewhere(s) /\ SameJob(s) /\ SameCounts(s)
      /\ job'[s].progress = [job[s].progress EXCEPT ![r] = c + 1]
  BY <1>1 DEF EndedCell
<1>5. CASE \A t \in Slots : Ready(t)' => Ready(t)
  <2>1. \A t \in Slots : job'[t].ncols = job[t].ncols
    BY <1>4 DEF SameJob, Elsewhere
  <2> QED
    BY <1>2, <1>5, <2>1, AnnouncedKept
<1>6. ASSUME NEW t \in Slots, Ready(t)', ~Ready(t) PROVE Announced'
  <2>1. t = s
    BY <1>2, <1>4, <1>6 DEF Elsewhere, Ready, ReadyIn, GateOpen, StartNeed
  <2>2. StartNeed(s)' = StartNeed(s) /\ StartNeed(s) \in Nat
    BY <1>3, <1>4 DEF StartNeed, SameJob
  <2>3. PICK n \in Nat : n = job[s].next_row /\ n > 0 /\ job'[s].progress[n - 1] >= StartNeed(s)
                         /\ ~(job[s].progress[n - 1] >= StartNeed(s))
    BY <1>2, <1>3, <1>4, <1>6, <2>1, <2>2 DEF Ready, ReadyIn, GateOpen, SameJob, SameCounts
  <2>4. n - 1 \in 0 .. job[s].nrows - 1
    BY <1>3, <2>3
  <2>5. /\ job[s].progress[n - 1] \in Nat
        /\ job'[s].progress[n - 1] = IF n - 1 = r THEN c + 1 ELSE job[s].progress[n - 1]
    BY <1>3, <1>4, <2>4 DEF Array
  <2>6. n - 1 = r /\ c + 1 = StartNeed(s)
    BY <1>1, <1>3, <2>2, <2>3, <2>5
  <2>7. pc'[w] = "notify" /\ col'[w] + 1 = StartNeed(at[w])'
    BY <1>2, <1>3, <2>2, <2>6
  <2> QED
    BY <2>7 DEF Announced, Coming, Herald
<1> QED
  BY <1>5, <1>6

LEMMA NextUnitAnnounced ==
  ASSUME Safe, Announced, NEW w \in Workers, NextUnit(w) PROVE Announced'
<1>1. PICK s \in Slots : s = at[w] /\ InLoop(w) /\ pc[w] = "next"
  BY SafeFacts DEF NextUnit, Place, InLoop
<1>2. /\ TypeOK /\ UNCHANGED <<env, kick, stack, pub, at, col>>
      /\ \A v \in Workers \ {w} : pc'[v] = pc[v]
  BY <1>1, SafeFacts DEF NextUnit, Goto, TypeOK
<1>3. CASE job' = job
  <2>1. \A t \in Slots : Ready(t)' => Ready(t)
    BY <1>2, <1>3 DEF Ready, ReadyIn, GateOpen, StartNeed
  <2> QED
    BY <1>1, <1>2, <1>3, <2>1, AnnouncedKept
<1>4. CASE job' # job
  <2>1. /\ job' = [job EXCEPT ![s].next_row = @ + 1] /\ job[s].kind = 1
        /\ job[s].next_row < job[s].nrows
    BY <1>1, <1>4 DEF NextUnit, InLoop
  <2>2. Elsewhere(s) /\ SameJob(s) /\ SameRows(s) /\ job'[s].next_row = job[s].next_row + 1
        /\ job'[s].done = job[s].done
    BY <1>2, <2>1, WroteNextRow
  <2>3. \A t \in Slots : Ready(t)' => Ready(t)
    BY <1>2, <2>1, <2>2 DEF Ready, ReadyIn, GateOpen, StartNeed, SameJob, SameRows, Elsewhere
  <2>4. \A t \in Slots : job'[t].ncols = job[t].ncols
    BY <2>2 DEF SameJob, Elsewhere
  <2> QED
    BY <1>1, <1>2, <2>3, <2>4, AnnouncedKept
<1> QED
  BY <1>3, <1>4

LEMMA WorkerAnnounced == ASSUME Safe, Announced, NEW w \in Workers, Worker(w) PROVE Announced'
<1>0. TypeOK /\ env' = env
  <2>1. env' = env
    BY DEF Worker, Resume, Claim, Idle, Wake, Look, Stall, Rewait, EndCell, Notify, Poke,
           HintWake, StartWake, RowEnd, Unit, NextUnit, UnitEnd
  <2> QED
    BY <2>1, SafeFacts
<1> SUFFICES ASSUME ~env.park PROVE Announced'
  BY <1>0 DEF Announced
<1>1. held[w] = {}
  BY SafeFacts DEF Place
<1>2. CASE Resume(w)
  BY <1>1, <1>2 DEF Resume, Resumable
<1>3. CASE Claim(w)
  <2>1. PICK s \in Slots : /\ job' = [job EXCEPT ![s].next_row = @ + 1]
                           /\ stack' = Cascaded(job', stack)
                           /\ pc' = [pc EXCEPT ![w] = IF job[s].kind = 0 THEN "run" ELSE "unit"]
    <3>1. PickFrom(Fresh(w, NoJob), w) \in Slots
      <4>1. Fresh(w, NoJob) \in SUBSET Slots /\ Fresh(w, NoJob) # {}
        BY <1>3 DEF Fresh, Claim
      <4> QED
        BY <1>0, <4>1, PickIn
    <3> QED
      BY <1>3, <3>1 DEF Claim, Goto
  <2>2. UNCHANGED <<env, pub>> /\ pc[w] = "top"
    BY <1>3 DEF Claim
  <2>3. \A v \in Workers : pc[v] = "sleep" => pc'[v] = "sleep"
    BY <1>0, <2>1, <2>2 DEF TypeOK
  <2>4. Cascaded(job', stack) \in {stack, Popped(stack)}
    BY CascadedStack
  <2>5. CASE stack' = Popped(stack)
    BY <2>3, <2>5, PopAnnounces
  <2>6. CASE stack = << >>
    <3>1. stack' = << >>
      BY <2>1, <2>4, <2>6 DEF Popped
    <3> QED
      BY <3>1 DEF Announced, Wanted
  <2>7. CASE stack # << >> /\ stack' # Popped(stack)
    <3>1. idlers > 0
      BY <2>7, TopOfStack, Idlers
    <3>2. ~\E t \in Slots : ReadyIn(job', t)
      BY <2>1, <2>7, <3>1 DEF Cascaded
    <3>3. /\ job'[s].gated = job[s].gated /\ job'[s].ncols = job[s].ncols
          /\ \A t \in Slots \ {s} : job'[t] = job[t]
      BY <1>0, <2>1, WroteNextRow DEF SameJob, Elsewhere
    <3>4. \A t \in Slots : Ready(t)' <=> ReadyIn(job', t)
      BY <2>2, <3>3 DEF Ready, ReadyIn, GateOpen, StartNeed
    <3> QED
      BY <3>2, <3>4 DEF Announced, Wanted
  <2> QED
    BY <2>5, <2>6, <2>7
<1>4. CASE Idle(w)
  <2>1. \A s \in Slots : ~Ready(s)
    BY <1>1, <1>4, PoolAssumption DEF Idle, Fresh, HeldJobs
  <2>2. \A s \in Slots : ~Ready(s)'
    BY <1>4, <2>1 DEF Idle, Ready, ReadyIn, GateOpen, StartNeed
  <2> QED
    BY <2>2 DEF Announced, Wanted
<1>5. CASE Wake(w)
  <2>1. pc'[w] = "top"
    BY <1>0, <1>5 DEF Wake, Goto, TypeOK
  <2> QED
    BY <2>1, TopAnnounces
<1>6. CASE Look(w) \/ Stall(w) \/ Rewait(w)
  <2>1. /\ job' = job /\ UNCHANGED <<kick, stack, pub, at, col>>
        /\ pc[w] \in {"run", "stall", "woken"} /\ \A v \in Workers \ {w} : pc'[v] = pc[v]
    BY <1>0, <1>6 DEF Look, Stall, Rewait, Goto, TypeOK
  <2>2. \A s \in Slots : Ready(s)' => Ready(s)
    BY <2>1 DEF Ready, ReadyIn, GateOpen, StartNeed
  <2> QED
    BY <1>0, <2>1, <2>2, AnnouncedKept
<1>7. CASE EndCell(w)
  BY <1>7, EndCellAnnounced
<1>8. CASE Notify(w)
  <2>1. /\ job' = job /\ UNCHANGED <<kick, stack, pub, at, col>>
        /\ \A v \in Workers : \/ pc[v] = "notify" /\ pc'[v] = "poke"
                              \/ pc[v] = "wait" \/ pc'[v] = pc[v]
    BY <1>8 DEF Notify
  <2>2. \A s \in Slots : Ready(s)' => Ready(s)
    BY <2>1 DEF Ready, ReadyIn, GateOpen, StartNeed
  <2> QED
    BY <1>0, <2>1, <2>2, AnnouncedKept
<1>9. CASE Poke(w)
  <2>1. /\ job' = job /\ UNCHANGED <<kick, stack, pub, at>> /\ pc[w] = "poke"
        /\ \A v \in Workers \ {w} : pc'[v] = pc[v] /\ col'[v] = col[v]
    BY <1>0, <1>9 DEF Poke, Goto, NextColumn, TypeOK
  <2>2. ~HintDue(w)
    BY <2>1, NoHint DEF Active, Before
  <2>3. CASE stack = << >>
    BY <2>1, <2>3 DEF Announced, Wanted
  <2>4. CASE stack # << >> /\ col[w] + 1 = StartNeed(at[w])
    <3>1. idlers # 0
      BY <2>4, TopOfStack, Idlers
    <3>2. pc'[w] = "start"
      BY <1>0, <1>9, <2>2, <2>4, <3>1 DEF Poke, Goto, TypeOK
    <3> QED
      BY <3>2 DEF Announced, Coming, Herald
  <2>5. CASE col[w] + 1 # StartNeed(at[w])
    <3>1. \A s \in Slots : Ready(s)' => Ready(s)
      BY <2>1 DEF Ready, ReadyIn, GateOpen, StartNeed
    <3> QED
      BY <1>0, <2>1, <2>5, <3>1, AnnouncedKept
  <2> QED
    BY <2>3, <2>4, <2>5
<1>10. CASE HintWake(w)
  <2>1. pc[w] = "hint" /\ ~HintDue(w)
    BY <1>10, NoHint DEF HintWake, Active, Before
  <2>2. /\ job' = job /\ UNCHANGED <<kick, stack, pub, at>>
        /\ \A v \in Workers \ {w} : pc'[v] = pc[v] /\ col'[v] = col[v]
    BY <1>0, <1>10, <2>1 DEF HintWake, Goto, NextColumn, TypeOK
  <2>3. \A s \in Slots : Ready(s)' => Ready(s)
    BY <2>2 DEF Ready, ReadyIn, GateOpen, StartNeed
  <2> QED
    BY <1>0, <2>1, <2>2, <2>3, AnnouncedKept
<1>11. CASE StartWake(w)
  <2>1. \A v \in Workers : pc[v] = "sleep" => pc'[v] = "sleep"
    BY <1>0, <1>11 DEF StartWake, NextColumn, Goto, TypeOK
  <2> QED
    BY <1>11, <2>1, PopAnnounces DEF StartWake
<1>12. CASE RowEnd(w) \/ UnitEnd(w)
  <2>1. pc'[w] = "top"
    BY <1>0, <1>12 DEF RowEnd, UnitEnd, Goto, TypeOK
  <2> QED
    BY <2>1, TopAnnounces
<1>13. CASE Unit(w)
  <2>1. at[w] \in Slots
    BY <1>13, SafeFacts DEF Unit, Place, InLoop
  <2>2. /\ Elsewhere(at[w]) /\ SameJob(at[w]) /\ SameRows(at[w])
        /\ job'[at[w]].next_row = job[at[w]].next_row /\ job'[at[w]].done = job[at[w]].done
    BY <1>0, <1>13, <2>1, WroteRowsDone DEF Unit
  <2>3. /\ UNCHANGED <<kick, stack, pub, at, col>> /\ pc[w] = "unit"
        /\ \A v \in Workers \ {w} : pc'[v] = pc[v]
    BY <1>0, <1>13 DEF Unit, Goto, TypeOK
  <2>4. \A s \in Slots : Ready(s)' => Ready(s)
    BY <2>1, <2>2, <2>3 DEF Ready, ReadyIn, GateOpen, StartNeed, SameJob, SameRows, Elsewhere
  <2>5. \A s \in Slots : job'[s].ncols = job[s].ncols
    BY <2>1, <2>2 DEF SameJob, Elsewhere
  <2> QED
    BY <1>0, <2>3, <2>4, <2>5, AnnouncedKept
<1>14. CASE NextUnit(w)
  BY <1>14, NextUnitAnnounced
<1> QED
  BY <1>2, <1>3, <1>4, <1>5, <1>6, <1>7, <1>8, <1>9, <1>10, <1>11, <1>12, <1>13, <1>14 DEF Worker

LEMMA AnnouncedStep == ASSUME Safe, Announced, [Next]_vars PROVE Announced'
<1>0. TypeOK
  BY SafeFacts
<1>1. ASSUME NEW w \in Workers, Worker(w) PROVE Announced'
  BY <1>1, WorkerAnnounced
<1>2. ASSUME NEW p \in Submitters, Register(p) PROVE Announced'
  <2>1. stack' \in {Popped(stack), << >>} /\ pc' = pc
    BY <1>2 DEF Register, worker
  <2> QED
    BY <2>1, PopAnnounces
<1>3. ASSUME NEW p \in Submitters, JobWait(p) PROVE Announced'
  <2>1. PICK s \in Slots : job' = [job EXCEPT ![s].used = FALSE]
    <3>1. reg[p] \in Seq(Slots) /\ reg[p] # << >>
      BY <1>0, <1>3, JoinCalling DEF TypeOK
    <3>2. Head(reg[p]) \in Slots
      BY <3>1
    <3> QED
      BY <1>3, <3>2 DEF JobWait
  <2>2. /\ Elsewhere(s) /\ ~job'[s].used /\ job'[s].ncols = job[s].ncols
    BY <1>0, <2>1, WroteUnused
  <2>3. UNCHANGED <<env, kick, stack, pub, pc, at, col>>
    BY <1>3 DEF JobWait, worker
  <2>4. \A t \in Slots : Ready(t)' => Ready(t)
    BY <2>2, <2>3 DEF Ready, ReadyIn, GateOpen, StartNeed, Elsewhere
  <2>5. \A t \in Slots : job'[t].ncols = job[t].ncols
    BY <2>2 DEF Elsewhere
  <2> QED
    BY <2>3, <2>4, <2>5, AnnouncedKept
<1>4. CASE Publish
  BY <1>4 DEF Publish, Announced, Coming, Herald
<1>5. CASE Kick \/ Destroy
  BY <1>5 DEF Kick, Destroy, Announced, Wanted
<1>6. CASE (\E p \in Submitters : TableFull(p)) \/ Joined \/ UNCHANGED vars
  <2>1. UNCHANGED <<env, job, kick, stack, pub, pc, at, col>>
    BY <1>6 DEF TableFull, Joined, vars, worker
  <2>2. \A t \in Slots : Ready(t)' => Ready(t)
    BY <2>1 DEF Ready, ReadyIn, GateOpen, StartNeed
  <2> QED
    BY <2>1, <2>2, AnnouncedKept
<1> QED
  BY <1>1, <1>2, <1>3, <1>4, <1>5, <1>6 DEF Next, Submitter

\* A sleeper that may resume a row and was not hinted: its row is still the one
\* the row above would hint.
LEMMA Unhinted ==
  ASSUME Safe, NEW v \in Workers, InStack(v), NEW h \in held[v]
  PROVE  job[h.at].parked_need[h.row] = h.need /\ job[h.at].parked_owner[h.row] = v
BY HeldFacts DEF Holds

\* A worker that is about to look at the row below, and what it finds there.
LEMMA Poker ==
  ASSUME Safe, NEW u \in Workers, pc[u] \in {"notify", "poke", "hint"},
         NEW v \in Workers, pc[v] = "sleep", InStack(v), NEW h \in Resumable(v),
         at[u] = h.at, row[u] = h.row - 1
  PROVE  HintDue(u) /\ idlers > 0 /\ job[at[u]].parked_owner[row[u] + 1] = v
<1>1. h \in held[v] /\ job[h.at].progress[h.row - 1] >= h.need
  BY DEF Resumable
<1>2. /\ job[h.at].parked_need[h.row] = h.need /\ job[h.at].parked_owner[h.row] = v
      /\ h.row \in Nat /\ h.row - 1 + 1 = h.row /\ h.row < job[h.at].nrows
  <2>1. h.row \in Nat /\ job[h.at].nrows \in Nat /\ h.row \in 0 .. job[h.at].nrows - 1
    BY <1>1, HeldFacts
  <2> QED
    BY <1>1, <2>1, Unhinted
<1>3. InRow(u) /\ pc[u] \notin Before
  BY SafeFacts DEF Place, Active, Before
<1>4. job[h.at].progress[h.row - 1] = col[u] + 1
  BY <1>3 DEF InRow
<1>5. row[u] + 1 = h.row
  BY <1>2
<1>6. HintDue(u)
  BY <1>1, <1>2, <1>4, <1>5 DEF HintDue
<1> QED
  BY <1>2, <1>5, <1>6, Idlers


\* Only the worker itself goes to sleep, and only Idle pushes.
LEMMA SleptBefore ==
  ASSUME Safe, [Next]_vars, NEW v \in Workers, pc'[v] = "sleep", InStack(v)'
  PROVE  Idle(v) \/ (pc[v] = "sleep" /\ InStack(v) /\ held'[v] = held[v])
<1>0. TypeOK /\ stack \in Seq(Workers) /\ \A i, j \in 1 .. Len(stack) : stack[i] = stack[j] => i = j
  BY SafeFacts DEF TypeOK, Stacked
<1>1. \A w \in Workers : InStack(w) => pc[w] = "sleep"
  BY ActiveAwake
<1>2. stack' \in {stack, Popped(stack), << >>} => InStack(v)
  <2>1. CASE stack' = stack
    BY <2>1 DEF InStack
  <2>2. CASE stack' = Popped(stack)
    <3>1. PICK i \in 1 .. Len(stack') : stack'[i] = v
      BY DEF InStack
    <3>2. i \in 1 .. Len(stack) - 1 /\ stack[i] = v
      BY <1>0, <2>2, <3>1, PoppedStack
    <3>3. i \in 1 .. Len(stack)
      BY <1>0, <3>2
    <3> QED
      BY <3>2, <3>3 DEF InStack
  <2>3. CASE stack' = << >>
    BY <2>3 DEF InStack
  <2> QED
    BY <2>1, <2>2, <2>3
<1>3. ASSUME NEW w \in Workers, Idle(w), w # v PROVE pc[v] = "sleep" /\ InStack(v) /\ held'[v] = held[v]
  <2>1. held' = held /\ pc'[v] = pc[v]
    BY <1>0, <1>3 DEF Idle, Goto, TypeOK
  <2>2. CASE stack' = stack
    BY <2>1, <2>2, <1>2, <1>1
  <2>3. CASE stack' = Append(stack, w)
    <3>1. PICK i \in 1 .. Len(stack') : stack'[i] = v
      BY DEF InStack
    <3>2. i \in 1 .. Len(stack) /\ stack[i] = v
      BY <1>0, <1>3, <2>3, <3>1
    <3> QED
      BY <1>1, <2>1, <3>2 DEF InStack
  <2> QED
    BY <1>3, <2>2, <2>3 DEF Idle
<1>4. ASSUME NEW w \in Workers, HintWake(w) PROVE pc[v] = "sleep" /\ InStack(v) /\ held'[v] = held[v]
  <2>1. held' = held
    BY <1>4 DEF HintWake
  <2>2. stack' = stack \/ \E x : stack' = StackRemove(stack, x)
    BY <1>4 DEF HintWake
  <2>3. InStack(v)
    <3>1. CASE stack' = stack
      BY <3>1, <1>2
    <3>2. ASSUME NEW x, stack' = StackRemove(stack, x) PROVE InStack(v)
      <4>1. PICK i \in 1 .. Len(stack') : stack'[i] = v
        BY DEF InStack
      <4> QED
        BY <1>0, <3>2, <4>1, RemovedStack DEF InStack
    <3> QED
      BY <2>2, <3>1, <3>2
  <2> QED
    BY <1>1, <2>1, <2>3
<1>5. ASSUME NEW w \in Workers, Resume(w) \/ Claim(w) \/ Stall(w)
      PROVE  pc[v] = "sleep" /\ InStack(v) /\ held'[v] = held[v]
  <2>1. stack' \in {stack, Popped(stack)}
    BY <1>5, CascadedStack DEF Resume, Claim, Stall
  <2>2. InStack(v) /\ pc[v] = "sleep"
    BY <1>1, <1>2, <2>1
  <2>3. pc[w] \in {"top", "stall"} /\ w # v
    BY <1>5, <2>2 DEF Resume, Claim, Stall
  <2>4. held'[v] = held[v]
    BY <1>0, <1>5, <2>3 DEF Resume, Claim, Stall, TypeOK
  <2> QED
    BY <2>2, <2>4
<1>6. ASSUME NEW w \in Workers,
             \/ Wake(w) \/ Look(w) \/ Rewait(w) \/ EndCell(w) \/ Notify(w) \/ Poke(w)
             \/ StartWake(w) \/ RowEnd(w) \/ Unit(w) \/ NextUnit(w) \/ UnitEnd(w)
      PROVE  pc[v] = "sleep" /\ InStack(v) /\ held'[v] = held[v]
  <2>1. held' = held /\ stack' \in {stack, Popped(stack)}
    BY <1>6 DEF Wake, Look, Rewait, EndCell, Notify, Poke, StartWake, RowEnd, Unit, NextUnit, UnitEnd
  <2> QED
    BY <1>1, <1>2, <2>1
<1>7. ASSUME \/ \E p \in Submitters : Submitter(p)
             \/ Publish \/ Kick \/ Destroy \/ Joined \/ UNCHANGED vars
      PROVE  pc[v] = "sleep" /\ InStack(v) /\ held'[v] = held[v]
  <2>1. held' = held /\ stack' \in {stack, Popped(stack), << >>}
    BY <1>7 DEF Submitter, Register, TableFull, JobWait, Publish, Kick, Destroy, Joined, vars, worker
  <2> QED
    BY <1>1, <1>2, <2>1
<1> QED
  BY <1>3, <1>4, <1>5, <1>6, <1>7 DEF Next, Worker

\* The progress of a live job moves at the end of a cell only.
LEMMA ProgressSteps ==
  ASSUME Safe, [Next]_vars, NEW s \in Slots, job[s].used, ~job[s].done
  PROVE  \/ job'[s].progress = job[s].progress
         \/ \E w \in Workers :
              /\ EndCell(w) /\ at[w] = s
              /\ \A r \in 0 .. job[s].nrows - 1 :
                   r # row[w] => job'[s].progress[r] = job[s].progress[r]
<1>0. TypeOK /\ Entry(s)
  BY SafeFacts
<1>1. ASSUME NEW w \in Workers, Resume(w) PROVE job'[s].progress = job[s].progress
  <2>1. PICK x \in Slots, h \in held[w] :
          h.at = x /\ job' = [job EXCEPT ![x].parked_need[h.row] = INT_MAX]
    <3> DEFINE S == {h.at : h \in Resumable(w)}
               x == Oldest(S)
               h == CHOOSE g \in Resumable(w) : g.at = x
    <3>1. S \in SUBSET Slots /\ S # {}
      <4>1. \A g \in Resumable(w) : g.at \in Slots
        BY HeldFacts DEF Resumable
      <4> QED
        BY <1>1, <4>1 DEF Resume
    <3>2. x \in S
      BY <1>0, <3>1, OldestIn
    <3>3. h \in Resumable(w) /\ h.at = x
      BY <3>2
    <3> QED
      BY <1>1, <3>1, <3>2, <3>3 DEF Resume, Resumable
  <2>2. /\ job[x].parked_need \in Array(job[x].nrows, Nat) /\ h.row \in 0 .. job[x].nrows - 1
        /\ INT_MAX \in Nat
    BY <2>1, HeldFacts, IntMax DEF Entry
  <2>3. Elsewhere(x) /\ job'[x].progress = job[x].progress
    BY ONLY <1>0, <2>1, <2>2, WroteNeed
  <2> QED
    BY <2>3 DEF Elsewhere
<1>2. ASSUME NEW w \in Workers, Claim(w) PROVE job'[s].progress = job[s].progress
  <2>1. PICK x \in Slots : job' = [job EXCEPT ![x].next_row = @ + 1]
    <3>1. Fresh(w, NoJob) \in SUBSET Slots /\ Fresh(w, NoJob) # {}
      BY <1>2 DEF Fresh, Claim
    <3>2. PickFrom(Fresh(w, NoJob), w) \in Slots
      BY <1>0, <3>1, PickIn
    <3> QED
      BY <1>2, <3>2 DEF Claim
  <2> QED
    BY <1>0, <2>1, WroteNextRow DEF Elsewhere, SameRows
<1>3. ASSUME NEW w \in Workers, Stall(w) PROVE job'[s].progress = job[s].progress
  <2>1. CASE job' = job
    BY <2>1
  <2>2. CASE job' # job
    <3>1. PICK x \in Slots, r \in Nat, n \in Nat :
            /\ x = at[w] /\ r = row[w] /\ n = Need(x, col[w]) /\ Entry(x) /\ r < job[x].next_row
            /\ job[x].nrows \in Nat /\ job[x].next_row \in Nat
      <4>1. InRow(w) /\ at[w] \in Slots /\ row[w] \in Nat /\ col[w] \in Nat
        BY <1>0, <1>3, SafeFacts DEF Stall, Place, Active, InRow, TypeOK
      <4>2. Need(at[w], col[w]) \in Nat
        BY <1>0, <4>1, JobTypes DEF Need
      <4>3. Entry(at[w]) /\ row[w] < job[at[w]].next_row
        BY <4>1, SafeFacts DEF InRow
      <4> QED
        BY <1>0, <4>1, <4>2, <4>3, JobTypes
    <3>2. job' = [job EXCEPT ![x].parked_owner[r] = w, ![x].parked_need[r] = n]
      BY <1>3, <2>2, <3>1 DEF Stall
    <3>3. /\ job[x].parked_need \in Array(job[x].nrows, Nat) /\ r \in 0 .. job[x].nrows - 1
          /\ job[x].parked_owner \in Array(job[x].nrows, Workers \cup {NoJob})
      BY <3>1 DEF Entry
    <3>4. Elsewhere(x) /\ job'[x].progress = job[x].progress
      BY ONLY <1>0, <3>2, <3>3, WrotePark, Zenon
    <3> QED
      BY <3>4 DEF Elsewhere
  <2> QED
    BY <2>1, <2>2
<1>4. ASSUME NEW w \in Workers, HintWake(w) PROVE job'[s].progress = job[s].progress
  <2>1. CASE job' = job
    BY <2>1
  <2>2. CASE job' # job
    <3>1. PICK x \in Slots, r \in Nat :
            /\ x = at[w] /\ r = row[w] + 1 /\ Entry(x) /\ r < job[x].nrows /\ job[x].nrows \in Nat
      <4>1. HintDue(w)
        BY <1>4, <2>2 DEF HintWake
      <4>2. InRow(w) /\ at[w] \in Slots /\ row[w] \in Nat
        BY <1>0, <1>4, SafeFacts DEF HintWake, Place, Active, InRow, TypeOK
      <4>3. Entry(at[w]) /\ row[w] + 1 < job[at[w]].nrows /\ row[w] + 1 \in Nat
        BY <4>1, <4>2, SafeFacts DEF InRow, HintDue
      <4> QED
        BY <1>0, <4>2, <4>3, JobTypes
    <3>2. job' = [job EXCEPT ![x].parked_need[r] = INT_MAX]
      BY <1>4, <2>2, <3>1 DEF HintWake
    <3>3. /\ job[x].parked_need \in Array(job[x].nrows, Nat) /\ r \in 0 .. job[x].nrows - 1
          /\ INT_MAX \in Nat
      BY <3>1, IntMax DEF Entry
    <3>4. Elsewhere(x) /\ job'[x].progress = job[x].progress
      BY ONLY <1>0, <3>2, <3>3, WroteNeed, Zenon
    <3> QED
      BY <3>4 DEF Elsewhere
  <2> QED
    BY <2>1, <2>2
<1>5. ASSUME NEW w \in Workers, EndCell(w), at[w] # s PROVE job'[s].progress = job[s].progress
  <2>1. job' = [job EXCEPT ![at[w]].progress[row[w]] = col[w] + 1]
    BY <1>5 DEF EndCell
  <2>2. job \in [Slots -> Jobs]
    BY <1>0 DEF TypeOK
  <2>3. job'[s] = job[s]
    BY ONLY <1>5, <2>1, <2>2
  <2> QED
    BY <2>3
<1>6. ASSUME NEW w \in Workers, EndCell(w), at[w] = s
      PROVE  \A r \in 0 .. job[s].nrows - 1 :
                r # row[w] => job'[s].progress[r] = job[s].progress[r]
  <2>1. PICK x \in Nat, c \in Nat : EndedCell(w, s, x, c)
    <3>1. PICK y \in Slots, x \in Nat, c \in Nat : EndedCell(w, y, x, c)
      BY <1>6, CellEnds
    <3>2. y = s
      BY <1>6, <3>1 DEF EndedCell
    <3> QED
      BY <3>1, <3>2
  <2>2. /\ x = row[w] /\ job[s].progress \in Array(job[s].nrows, Nat)
        /\ job'[s].progress = [job[s].progress EXCEPT ![x] = c + 1]
    BY <2>1 DEF EndedCell
  <2>3. \A r \in 0 .. job[s].nrows - 1 : r # x => job'[s].progress[r] = job[s].progress[r]
    BY ONLY <2>2 DEF Array
  <2> QED
    BY <2>2, <2>3
<1>7. ASSUME NEW w \in Workers, RowEnd(w) PROVE job'[s].progress = job[s].progress
  <2>1. at[w] \in Slots
    BY <1>7, SafeFacts DEF RowEnd, Place, Active, InRow
  <2> QED
    BY <1>0, <1>7, <2>1, WroteRowEnd DEF RowEnd, Elsewhere, SameRows
<1>8. ASSUME NEW w \in Workers, Unit(w) \/ NextUnit(w) \/ UnitEnd(w)
      PROVE  job'[s].progress = job[s].progress
  <2>1. PICK x \in Slots : x = at[w]
    BY <1>8, SafeFacts DEF Unit, NextUnit, UnitEnd, Place, InLoop
  <2>2. \/ job' = job
        \/ job' = [job EXCEPT ![x].rows_done = @ + 1]
        \/ job' = [job EXCEPT ![x].next_row = @ + 1]
        \/ job' = [job EXCEPT ![x].done = TRUE]
    BY <1>8, <2>1 DEF Unit, NextUnit, UnitEnd
  <2>3. job' = job \/ (Elsewhere(x) /\ SameRows(x))
    BY <1>0, <2>2, WroteRowsDone, WroteNextRow, WroteDone
  <2> QED
    BY <2>3 DEF Elsewhere, SameRows
<1>9. ASSUME NEW p \in Submitters, Register(p) PROVE job'[s].progress = job[s].progress
  <2>1. PICK x \in Slots, y \in JobSpecs : ~job[x].used /\ job' = [job EXCEPT ![x] = Registered(y)]
    <3>1. (CHOOSE y \in FreeSlots : TRUE) \in FreeSlots
      BY <1>9 DEF Register
    <3>2. Specs(p)[spec[p]] \in JobSpecs
      BY <1>9, SafeFacts, PlanType DEF Register
    <3> QED
      BY <1>9, <3>1, <3>2 DEF Register, FreeSlots
  <2>2. Elsewhere(x)
    BY <1>0, <2>1, WroteRegistered
  <2> QED
    BY <2>1, <2>2 DEF Elsewhere
<1>10. ASSUME NEW p \in Submitters, JobWait(p) PROVE job'[s].progress = job[s].progress
  <2>1. PICK x \in Slots : job' = [job EXCEPT ![x].used = FALSE]
    <3>1. reg[p] \in Seq(Slots) /\ reg[p] # << >>
      BY <1>0, <1>10, JoinCalling DEF TypeOK
    <3>2. Head(reg[p]) \in Slots
      BY <3>1
    <3> QED
      BY <1>10, <3>2 DEF JobWait
  <2> QED
    BY <1>0, <2>1, WroteUnused DEF Elsewhere, SameRows
<1>11. ASSUME NEW w \in Workers,
              Idle(w) \/ Wake(w) \/ Look(w) \/ Rewait(w) \/ Notify(w) \/ Poke(w) \/ StartWake(w)
       PROVE  job' = job
  BY <1>11 DEF Idle, Wake, Look, Rewait, Notify, Poke, StartWake
<1>12. ASSUME \/ \E p \in Submitters : TableFull(p)
              \/ Publish \/ Kick \/ Destroy \/ Joined \/ UNCHANGED vars
       PROVE  job' = job
  BY <1>12 DEF TableFull, Publish, Kick, Destroy, Joined, vars
<1> QED
  BY <1>1, <1>2, <1>3, <1>4, <1>5, <1>6, <1>7, <1>8, <1>9, <1>10, <1>11, <1>12
     DEF Next, Worker, Submitter

\* The worker that is about to look at the row below stays so until it looks.
LEMMA PokerSteps ==
  ASSUME Safe, [Next]_vars, NEW u \in Workers, pc[u] \in {"notify", "poke", "hint"}
  PROVE  \/ Poke(u) \/ HintWake(u)
         \/ at'[u] = at[u] /\ row'[u] = row[u] /\ pc'[u] \in {"notify", "poke", "hint"}
<1>0. TypeOK
  BY SafeFacts
<1>1. ASSUME NEW w \in Workers, Worker(w), w # u
      PROVE  at'[u] = at[u] /\ row'[u] = row[u] /\ pc'[u] = pc[u]
  <2>1. CASE Resume(w) \/ Claim(w) \/ Idle(w)
    BY <1>0, <1>1, <2>1 DEF Resume, Claim, Idle, Goto, TypeOK
  <2>2. CASE Wake(w) \/ Look(w) \/ Stall(w) \/ Rewait(w) \/ EndCell(w)
    BY <1>0, <1>1, <2>2 DEF Wake, Look, Stall, Rewait, EndCell, Goto, TypeOK
  <2>3. CASE Notify(w)
    BY <1>0, <1>1, <2>3 DEF Notify
  <2>4. CASE Poke(w) \/ HintWake(w) \/ StartWake(w)
    BY <1>0, <1>1, <2>4 DEF Poke, HintWake, StartWake, NextColumn, Goto, TypeOK
  <2>5. CASE RowEnd(w) \/ Unit(w) \/ NextUnit(w) \/ UnitEnd(w)
    BY <1>0, <1>1, <2>5 DEF RowEnd, Unit, NextUnit, UnitEnd, Goto, TypeOK
  <2> QED
    BY <1>1, <2>1, <2>2, <2>3, <2>4, <2>5 DEF Worker
<1>2. ASSUME Worker(u)
      PROVE  \/ Poke(u) \/ HintWake(u)
             \/ at'[u] = at[u] /\ row'[u] = row[u] /\ pc'[u] = "poke"
  <2>1. Notify(u) \/ Poke(u) \/ HintWake(u)
    BY <1>2 DEF Worker, Resume, Claim, Idle, Wake, Look, Stall, Rewait, EndCell, StartWake,
                RowEnd, Unit, NextUnit, UnitEnd
  <2> QED
    BY <2>1 DEF Notify
<1>3. ASSUME \/ \E p \in Submitters : Submitter(p)
             \/ Publish \/ Kick \/ Destroy \/ Joined \/ UNCHANGED vars
      PROVE  at' = at /\ row' = row /\ pc' = pc
  BY <1>3 DEF Submitter, Register, TableFull, JobWait, Publish, Kick, Destroy, Joined, vars, worker
<1> QED
  BY <1>1, <1>2, <1>3 DEF Next

LEMMA ParkedRowPokedStep == ASSUME Safe, ParkedRowPoked, [Next]_vars PROVE ParkedRowPoked'
<1> SUFFICES ASSUME NEW v \in Workers, pc'[v] = "sleep", InStack(v)', NEW h \in Resumable(v)'
             PROVE  \E u \in Workers : /\ at'[u] = h.at /\ row'[u] = h.row - 1
                                       /\ pc'[u] \in {"notify", "poke", "hint"}
  BY DEF ParkedRowPoked
<1>0. TypeOK /\ h \in held'[v] /\ job'[h.at].progress[h.row - 1] >= h.need
  BY SafeFacts DEF Resumable
<1>1. CASE Idle(v)
  <2>1. Resumable(v)' = Resumable(v) /\ Resumable(v) = {}
    BY <1>1 DEF Idle, Resumable
  <2> QED
    BY <2>1
<1>2. CASE ~Idle(v)
  <2>1. pc[v] = "sleep" /\ InStack(v) /\ h \in held[v]
    BY <1>0, <1>2, SleptBefore
  <2>2. /\ h.at \in Slots /\ job[h.at].used /\ ~job[h.at].done
        /\ h.row - 1 \in 0 .. job[h.at].nrows - 1
    BY <2>1, HeldFacts DEF Holds
  <2>3. CASE job'[h.at].progress[h.row - 1] = job[h.at].progress[h.row - 1]
    <3>1. h \in Resumable(v)
      BY <1>0, <2>1, <2>3 DEF Resumable
    <3>2. PICK u \in Workers : /\ at[u] = h.at /\ row[u] = h.row - 1
                               /\ pc[u] \in {"notify", "poke", "hint"}
      BY <2>1, <3>1 DEF ParkedRowPoked
    <3>3. HintDue(u) /\ idlers > 0 /\ idlers # 0 /\ job[at[u]].parked_owner[row[u] + 1] = v
      BY <2>1, <3>1, <3>2, Poker, Idlers
    <3>4. CASE Poke(u)
      <4>1. at'[u] = at[u] /\ row'[u] = row[u] /\ pc'[u] = "hint"
        BY <1>0, <3>3, <3>4 DEF Poke, Goto, TypeOK
      <4> QED
        BY <3>2, <4>1
    <3>5. CASE HintWake(u)
      <4>1. stack' = StackRemove(stack, v)
        BY <3>3, <3>5 DEF HintWake
      <4>2. \A i \in 1 .. Len(stack') : stack'[i] # v
        BY <1>0, <4>1, RemovedStack, SafeFacts DEF TypeOK, Stacked
      <4> QED
        BY <4>2 DEF InStack
    <3> QED
      BY <3>2, <3>4, <3>5, PokerSteps
  <2>4. CASE job'[h.at].progress[h.row - 1] # job[h.at].progress[h.row - 1]
    <3>1. PICK u \in Workers : EndCell(u) /\ at[u] = h.at /\ h.row - 1 = row[u]
      BY <2>2, <2>4, ProgressSteps
    <3>2. at'[u] = at[u] /\ row'[u] = row[u] /\ pc'[u] = "notify"
      BY <1>0, <3>1 DEF EndCell, Goto, TypeOK
    <3> QED
      BY <3>1, <3>2
  <2> QED
    BY <2>3, <2>4
<1> QED
  BY <1>1, <1>2

\* Property WakesInFlight: no wake-up is missing.  Without parking, as the pool
\* ships, a sleeper nobody has popped that could claim something has somebody on
\* the way to wake it or to look itself; a parked row that may go on, whose owner
\* sleeps, is about to be hinted by the worker of the row above.
THEOREM NoWakeMissing == Spec => []WakesInFlight
<1>1. Init => IInv
  <2> SUFFICES ASSUME Init PROVE Announced /\ ParkedRowPoked
    BY InitSafe DEF IInv
  <2>1. stack = << >> /\ \A w \in Workers : pc[w] = "top"
    BY DEF Init
  <2> QED
    BY <2>1 DEF Announced, Wanted, ParkedRowPoked
<1>2. IInv /\ [Next]_vars => IInv'
  BY SafeStep, AnnouncedStep, ParkedRowPokedStep DEF IInv
<1>3. IInv => WakesInFlight
  <2> SUFFICES ASSUME Safe, Announced, ~env.park PROVE WakeInFlight
    BY DEF WakesInFlight, IInv
  <2> SUFFICES ASSUME NEW w \in Workers, InStack(w), Fresh(w, NoJob) # {} PROVE Coming
    BY DEF WakeInFlight, Coming, Herald
  <2>1. stack # << >>
    BY DEF InStack
  <2>2. \E s \in Slots : Ready(s)
    BY DEF Fresh
  <2> QED
    BY <2>1, <2>2 DEF Announced, Wanted
<1> QED
  BY <1>1, <1>2, <1>3, PTL DEF Spec
=============================================================================
