---------------------------- MODULE JobSlotProofs ----------------------------
(***************************************************************************)
(* A job slot runs each unit of each job once and is not given up before   *)
(* they have all run, for any number of slots, workers, submitters and     *)
(* jobs, with the lock-free claim on or off -- as long as the slot is not  *)
(* reused, straight after a parallel-for, by a job with more units.  That  *)
(* is the exact condition: run slot_grow shows a unit run twice without    *)
(* it.                                                                     *)
(***************************************************************************)
EXTENDS JobSlot, FiniteSetTheorems, TLAPS

-----------------------------------------------------------------------------
(* The inductive invariant.                                                 *)

\* A slot whose registration has not stored claimw yet, or not rows_done.
Opening(s) == \E p \in Submitters : spc[p] = "claimw" /\ sat[p] = s
Registering(s) == \E p \in Submitters : spc[p] \in {"claimw", "rows_done"} /\ sat[p] = s

\* The lock-free claim; a worker that owes its slot a count; one that was
\* handed a unit and is still in the loop.
Fast == {"load", "test", "cas"}
Holding(w) == pc[w] \in {"run", "count"} \/ (pc[w] = "bottom" /\ mine[w].kind = "wavefront")
Engaged(w) == pc[w] \notin {"idle", "top"}
Holders(s) == {w \in Workers : Holding(w) /\ at[w] = s}

\* The units of the slot's job that are claimed.  Until its registration has
\* stored the claim word, that is still the last job's.
Claimed(s) ==
    IF shape[s].kind = "pfor"
      THEN IF claimw[s].seq = seq[s] THEN claimw[s].row ELSE 0
      ELSE next_row[s]

Words == [seq : 0 .. MaxJobs, row : Nat]

TypeOK ==
    /\ used \in [Slots -> BOOLEAN] /\ done \in [Slots -> BOOLEAN]
    /\ seq_next \in 0 .. MaxJobs
    /\ seq \in [Slots -> 0 .. MaxJobs]
    /\ shape \in [Slots -> Shapes \cup {NoJob}]
    /\ next_row \in [Slots -> Nat]
    /\ claimw \in [Slots -> Words]
    /\ rows_done \in [Slots -> Nat]
    /\ pc \in [Workers -> {"idle", "top", "run", "count", "load", "test", "cas", "bottom"}]
    /\ at \in [Workers -> Slots] /\ unit \in [Workers -> Nat]
    /\ inc \in [Workers -> 0 .. MaxJobs]
    /\ mine \in [Workers -> Shapes \cup {NoJob}]
    /\ word \in [Workers -> Words]
    /\ spc \in [Submitters -> {"out", "claimw", "rows_done", "wait"}]
    /\ sat \in [Submitters -> Slots]
    /\ ran \in [Seqs -> [Units -> Nat]]

Mutex ==
    /\ mtx \in Workers \cup Submitters \cup {Free}
    /\ \A w \in Workers : pc[w] = "top" <=> mtx = w
    /\ \A p \in Submitters : spc[p] \in {"claimw", "rows_done"} <=> mtx = p

\* The table: every job has its own number, a call its own slot, and a slot
\* that is being registered has nobody in it.
Entry(s) ==
    /\ seq[s] <= seq_next
    /\ seq[s] = 0 => shape[s] = NoJob /\ ~used[s] /\ ~done[s]
    /\ seq[s] > 0 => shape[s] \in Shapes /\ (~used[s] => done[s])
    /\ claimw[s].seq <= seq[s]
    /\ claimw[s].seq = seq[s] <=> ~Opening(s)
    /\ Registering(s) => Holders(s) = {} /\ Claimed(s) = 0 /\ ~done[s]
Table ==
    /\ \A s \in Slots : Entry(s)
    /\ \A s, t \in Slots : seq[s] = seq[t] /\ seq[s] > 0 => s = t
    /\ \A p \in Submitters : spc[p] # "out" => used[sat[p]] /\ seq[sat[p]] > 0
    /\ \A p, q \in Submitters : p # q /\ spc[p] # "out" /\ spc[q] # "out" => sat[p] # sat[q]

\* A worker and the slot it came to: it is still in the incarnation it claimed,
\* or the slot has moved on and the worker owes it nothing.  In the window in
\* which the claim word is the last job's and the shape the next one's, the
\* word is past the end of either.
Place(w) ==
    /\ Engaged(w) => inc[w] \in Seqs /\ inc[w] <= seq[at[w]] /\ mine[w] \in Shapes
    /\ Engaged(w) /\ inc[w] = seq[at[w]] => mine[w] = shape[at[w]] /\ ~Registering(at[w])
    /\ Holding(w) => seq[at[w]] = inc[w] /\ ~done[at[w]]
    /\ pc[w] = "run" => unit[w] < Claimed(at[w]) /\ ran[inc[w]][unit[w]] = 0
    /\ pc[w] = "count" => mine[w].kind = "pfor"
    /\ pc[w] \in Fast => FastClaim /\ mine[w].kind = "pfor"
    /\ pc[w] \in Fast /\ claimw[at[w]].seq = inc[w] /\ seq[at[w]] # inc[w] =>
         claimw[at[w]].row >= mine[w].nrows /\ shape[at[w]].nrows <= mine[w].nrows
    /\ pc[w] \in {"test", "cas"} => word[w].seq = inc[w]
    /\ pc[w] = "cas" => word[w].row < mine[w].nrows \/ claimw[at[w]].seq # inc[w]
Places == \A w \in Workers : Place(w)

\* No two workers run one unit.
Alone ==
    \A v, w \in Workers :
        v # w /\ pc[v] = "run" /\ pc[w] = "run" /\ inc[v] = inc[w] => unit[v] # unit[w]

\* What is claimed is counted or owed; what is claimed has run once or is in
\* hand, and what is not has not run.
Account(s) ==
    /\ Claimed(s) <= shape[s].nrows
    /\ ~Registering(s) => rows_done[s] + Cardinality(Holders(s)) = Claimed(s)
    /\ done[s] => rows_done[s] = shape[s].nrows
    /\ \A u \in Units :
         /\ u >= Claimed(s) => ran[seq[s]][u] = 0
         /\ u < Claimed(s) =>
              \/ ran[seq[s]][u] = 1
              \/ ran[seq[s]][u] = 0
                   /\ \E w \in Workers : pc[w] = "run" /\ inc[w] = seq[s] /\ unit[w] = u
Ledger ==
    /\ \A s \in Slots : seq[s] > 0 => Account(s)
    /\ \A q \in Seqs : q > seq_next => \A u \in Units : ran[q][u] = 0

IInv == TypeOK /\ Mutex /\ Table /\ Places /\ Alone /\ Ledger

-----------------------------------------------------------------------------
(* Facts.                                                                   *)

\* Every unit of every shape has its place in ran.
LEMMA UnitsBound ==
    /\ MaxUnits \in Nat
    /\ \A x \in Shapes : x.nrows \in Nat \ {0} /\ x.nrows <= MaxUnits
    /\ \A x \in Shapes : x.kind \in {"pfor", "wavefront"}
<1>1. \A x \in Shapes : x.nrows \in Nat \ {0} /\ x.kind \in {"pfor", "wavefront"}
  BY JobSlotAssumption
<1>2. \E n \in {x.nrows : x \in Shapes} : \A x \in Shapes : x.nrows <= n
  BY JobSlotAssumption
<1>3. MaxUnits \in {x.nrows : x \in Shapes} /\ \A x \in Shapes : x.nrows <= MaxUnits
  BY <1>2 DEF MaxUnits
<1> QED
  BY <1>1, <1>3

\* Counting the holders of a slot.
LEMMA CountHolders ==
  ASSUME NEW S, S \subseteq Workers
  PROVE  /\ IsFiniteSet(S) /\ Cardinality(S) \in Nat
         /\ Cardinality(S) = 0 <=> S = {}
         /\ \A w \in Workers \ S : Cardinality(S \cup {w}) = Cardinality(S) + 1
         /\ \A w \in S : Cardinality(S \ {w}) = Cardinality(S) - 1
<1>1. IsFiniteSet(S)
  BY JobSlotAssumption, FS_Subset
<1>2. Cardinality(S) \in Nat /\ (Cardinality(S) = 0 <=> S = {})
  BY <1>1, FS_CardinalityType, FS_EmptySet
<1>3. \A w \in Workers \ S : Cardinality(S \cup {w}) = Cardinality(S) + 1
  BY <1>1, FS_AddElement
<1>4. \A w \in S : Cardinality(S \ {w}) = Cardinality(S) - 1
  BY <1>1, FS_RemoveElement
<1> QED
  BY <1>1, <1>2, <1>3, <1>4

\* A slot with a worker that owes it a count is not full yet, nor with two.
LEMMA Owed ==
  ASSUME IInv, NEW w \in Workers, Holding(w)
  PROVE  /\ rows_done[at[w]] + 1 <= Claimed(at[w]) /\ ~Registering(at[w])
         /\ rows_done[at[w]] + 1 <= shape[at[w]].nrows
         /\ \A v \in Workers : v # w /\ Holding(v) /\ at[v] = at[w] =>
              rows_done[at[w]] + 2 <= shape[at[w]].nrows
<1> DEFINE s == at[w]
           H == Holders(s)
<1>1. H \subseteq Workers /\ w \in H /\ s \in Slots
  BY DEF Holders, IInv, TypeOK
<1>2. seq[s] > 0 /\ seq[s] = inc[w] /\ ~Registering(s) /\ shape[s] \in Shapes
  BY <1>1 DEF IInv, Places, Place, Holding, Engaged, Seqs, Table, Entry
<1>3. rows_done[s] + Cardinality(H) = Claimed(s) /\ Claimed(s) <= shape[s].nrows
  BY <1>1, <1>2 DEF IInv, Ledger, Account
<1>4. rows_done[s] \in Nat /\ shape[s].nrows \in Nat
  BY <1>1, <1>2, UnitsBound DEF IInv, TypeOK
<1>5. Cardinality(H) \in Nat \ {0}
  BY <1>1, CountHolders
<1>6. ASSUME NEW v \in Workers, v # w, Holding(v), at[v] = s
      PROVE  Cardinality(H) >= 2
  <2>1. v \in H \ {w} /\ H \ {w} \subseteq Workers
    BY <1>1, <1>6 DEF Holders
  <2>2. Cardinality(H \ {w}) \in Nat \ {0}
    BY <2>1, CountHolders
  <2>3. Cardinality(H \ {w}) = Cardinality(H) - 1
    BY <1>1, CountHolders
  <2> QED
    BY <1>5, <2>2, <2>3
<1> HIDE DEF s, H
<1>7. /\ rows_done[s] + 1 <= Claimed(s) /\ rows_done[s] + 1 <= shape[s].nrows
  BY <1>3, <1>4, <1>5
<1>8. \A v \in Workers : v # w /\ Holding(v) /\ at[v] = s => rows_done[s] + 2 <= shape[s].nrows
  BY <1>3, <1>4, <1>6, <1>5
<1> QED
  BY <1>2, <1>7, <1>8 DEF s

\* Initially no slot has been used.
LEMMA InitIInv == Init => IInv
<1> SUFFICES ASSUME Init PROVE IInv
  OBVIOUS
<1>1. \A w \in Workers : ~Holding(w) /\ pc[w] = "idle"
  BY DEF Init, Holding
<1>2. TypeOK
  <2>1. (CHOOSE s \in Slots : TRUE) \in Slots
    BY JobSlotAssumption
  <2>2. [seq |-> 0, row |-> 0] \in Words
    BY JobSlotAssumption DEF Words
  <2> QED
    BY <2>1, <2>2, JobSlotAssumption DEF Init, TypeOK
<1>3. Mutex
  BY JobSlotAssumption DEF Init, Mutex
<1>4. Table
  <2>1. \A s \in Slots : ~Opening(s) /\ ~Registering(s)
    BY DEF Init, Opening, Registering
  <2> QED
    BY <2>1 DEF Init, Table, Entry
<1>5. Places
  BY <1>1 DEF Places, Place, Engaged, Holding, Fast
<1>6. Alone
  BY <1>1 DEF Alone
<1>7. Ledger
  BY DEF Init, Ledger
<1> QED
  BY <1>2, <1>3, <1>4, <1>5, <1>6, <1>7 DEF IInv

-----------------------------------------------------------------------------
(* The submitter.                                                           *)

\* Workers that stay where they are.
LEMMA SameWorkers ==
  ASSUME UNCHANGED worker
  PROVE  /\ \A w \in Workers : Holding(w)' = Holding(w) /\ Engaged(w)' = Engaged(w)
         /\ \A s \in Slots : Holders(s)' = Holders(s)
         /\ Alone' = Alone
  BY DEF worker, Holding, Engaged, Holders, Alone

\* With the mutex free nobody is registering, and all claim words are current.
LEMMA NobodyRegisters ==
  ASSUME IInv, mtx = Free \/ mtx \in Workers
  PROVE  \A s \in Slots : ~Opening(s) /\ ~Registering(s) /\ claimw[s].seq = seq[s]
<1>1. \A p \in Submitters : spc[p] \notin {"claimw", "rows_done"}
  BY JobSlotAssumption DEF IInv, Mutex
<1> QED
  BY <1>1 DEF IInv, Table, Entry, Opening, Registering

\* A slot that is not in use has nobody who owes it anything; if its job was a
\* parallel-for, the claim word stands at its end.
LEMMA FreeSlot ==
  ASSUME IInv, mtx = Free, NEW s \in Slots, ~used[s]
  PROVE  /\ Holders(s) = {}
         /\ seq[s] > 0 => Claimed(s) = shape[s].nrows /\ shape[s] \in Shapes
<1>1. ~Registering(s) /\ ~Opening(s)
  BY NobodyRegisters
<1>2. Holders(s) = {}
  <2> SUFFICES ASSUME NEW w \in Workers, Holding(w), at[w] = s PROVE FALSE
    BY DEF Holders
  <2>1. seq[s] = inc[w] /\ ~done[s] /\ inc[w] > 0
    BY DEF IInv, Places, Place, Holding, Engaged, Seqs
  <2> QED
    BY <2>1 DEF IInv, Table, Entry
<1>3. ASSUME seq[s] > 0 PROVE Claimed(s) = shape[s].nrows /\ shape[s] \in Shapes
  <2>1. done[s] /\ shape[s] \in Shapes
    BY <1>3 DEF IInv, Table, Entry
  <2>2. rows_done[s] + Cardinality(Holders(s)) = Claimed(s) /\ rows_done[s] = shape[s].nrows
    BY <1>1, <1>3, <2>1 DEF IInv, Ledger, Account
  <2>3. Cardinality(Holders(s)) = 0
    BY <1>2, FS_EmptySet
  <2>4. shape[s].nrows \in Nat
    BY <2>1, UnitsBound
  <2> QED
    BY <2>1, <2>2, <2>3, <2>4
<1> QED
  BY <1>2, <1>3

LEMMA RegisterInv == ASSUME IInv, NeverGrows, NEW p \in Submitters, Register(p) PROVE IInv'
<1> USE DEF IInv, TypeOK
<1>1. PICK s \in Slots, x \in Shapes :
        /\ spc[p] = "out" /\ mtx = Free /\ ~used[s] /\ seq_next < MaxJobs
        /\ mtx' = p /\ seq_next' = seq_next + 1
        /\ used' = [used EXCEPT ![s] = TRUE] /\ done' = [done EXCEPT ![s] = FALSE]
        /\ seq' = [seq EXCEPT ![s] = seq_next + 1] /\ shape' = [shape EXCEPT ![s] = x]
        /\ next_row' = [next_row EXCEPT ![s] = 0]
        /\ spc' = [spc EXCEPT ![p] = "claimw"] /\ sat' = [sat EXCEPT ![p] = s]
        /\ UNCHANGED <<claimw, rows_done, worker, ran>>
  BY DEF Register
<1>2. UNCHANGED <<pc, at, unit, inc, mine, word>>
  BY <1>1 DEF worker
<1>3. /\ \A t \in Slots : t # s => /\ used'[t] = used[t] /\ done'[t] = done[t] /\ seq'[t] = seq[t]
                                   /\ shape'[t] = shape[t] /\ next_row'[t] = next_row[t]
      /\ used'[s] /\ ~done'[s] /\ seq'[s] = seq_next + 1 /\ shape'[s] = x /\ next_row'[s] = 0
      /\ \A t \in Slots : seq[t] <= seq_next /\ seq[t] \in Nat
      /\ seq_next \in Nat /\ seq_next + 1 \in Seqs
  BY <1>1, JobSlotAssumption DEF Table, Entry, Seqs
<1>4. \A t \in Slots : ~Opening(t) /\ ~Registering(t) /\ claimw[t].seq = seq[t]
  BY <1>1, NobodyRegisters
<1>5. \A q \in Submitters : spc[q] \in {"out", "wait"}
  BY <1>1, JobSlotAssumption DEF Mutex
<1>6. \A t \in Slots : (Opening(t)' <=> t = s) /\ (Registering(t)' <=> t = s)
  BY <1>1, <1>5 DEF Opening, Registering
<1>7. Holders(s) = {} /\ (seq[s] > 0 => Claimed(s) = shape[s].nrows /\ shape[s] \in Shapes)
  BY <1>1, FreeSlot
<1>8. /\ \A t \in Slots : Holders(t)' = Holders(t)
      /\ \A w \in Workers : Holding(w)' = Holding(w) /\ Engaged(w)' = Engaged(w)
      /\ Alone'
  BY <1>1, SameWorkers
<1>9. /\ Claimed(s)' = 0
      /\ \A t \in Slots : t # s => Claimed(t)' = Claimed(t)
  BY <1>1, <1>3, <1>4 DEF Claimed
<1>10. TypeOK'
  BY <1>1, <1>2, JobSlotAssumption
<1>11. Mutex'
  BY <1>1, <1>2, <1>5, JobSlotAssumption DEF Mutex
<1>12. Table'
  <2>1. \A t \in Slots : Entry(t)'
    <3>1. Entry(s)'
      BY <1>1, <1>3, <1>4, <1>6, <1>7, <1>8, <1>9 DEF Entry
    <3>2. \A t \in Slots : t # s => Entry(t)'
      BY <1>1, <1>3, <1>4, <1>6, <1>8, <1>9 DEF Table, Entry
    <3> QED
      BY <3>1, <3>2
  <2>2. \A t, u \in Slots : seq'[t] = seq'[u] /\ seq'[t] > 0 => t = u
    BY <1>3 DEF Table
  <2>3. \A q \in Submitters : spc'[q] # "out" => used'[sat'[q]] /\ seq'[sat'[q]] > 0
    BY <1>1, <1>3 DEF Table
  <2>4. \A q \in Submitters : spc[q] # "out" => sat[q] # s
    BY <1>1 DEF Table
  <2>5. \A q, r \in Submitters : q # r /\ spc'[q] # "out" /\ spc'[r] # "out" => sat'[q] # sat'[r]
    BY <1>1, <2>4 DEF Table
  <2> QED
    BY <2>1, <2>2, <2>3, <2>5 DEF Table
<1>13. Places'
  <2> SUFFICES ASSUME NEW w \in Workers PROVE Place(w)'
    BY DEF Places
  <2>1. CASE at[w] # s
    <3>1. at[w] \in Slots /\ at'[w] = at[w]
      BY <1>2
    <3> QED
      BY <1>1, <1>2, <1>3, <1>4, <1>6, <1>8, <1>9, <2>1, <3>1 DEF Places, Place
  <2>2. CASE at[w] = s
    <3>1. ~Holding(w)
      BY <1>7, <2>2 DEF Holders
    <3>2. pc[w] \in Fast => FastClaim /\ mine[w].kind = "pfor"
      BY DEF Places, Place
    <3>3. Engaged(w) => inc[w] \in Seqs /\ inc[w] <= seq[s] /\ mine[w] \in Shapes
      BY <2>2 DEF Places, Place
    <3>4. Engaged(w) => inc[w] < seq'[s]
      BY <1>3, <3>3 DEF Seqs
    <3>5. pc[w] \in Fast /\ claimw[s].seq = inc[w] =>
            claimw[s].row >= mine[w].nrows /\ shape'[s].nrows <= mine[w].nrows
      <4> SUFFICES ASSUME pc[w] \in Fast, claimw[s].seq = inc[w]
                   PROVE  claimw[s].row >= mine[w].nrows /\ shape'[s].nrows <= mine[w].nrows
        OBVIOUS
      <4>1. Engaged(w) /\ inc[w] = seq[s] /\ seq[s] > 0 /\ seq'[s] # seq[s]
        BY <1>3, <1>4, <3>3, <3>4 DEF Engaged, Fast, Seqs
      <4>2. mine[w] = shape[s] /\ shape[s].kind = "pfor" /\ shape[s] \in Shapes
        BY <1>7, <2>2, <3>2, <4>1 DEF Places, Place
      <4>3. claimw[s].row = shape[s].nrows /\ shape[s].nrows \in Nat
        BY <1>4, <1>7, <4>1, <4>2, UnitsBound DEF Claimed
      <4>4. shape'[s].nrows <= shape[s].nrows
        BY <3>2, <4>1, <4>2 DEF NeverGrows
      <4> QED
        BY <4>2, <4>3, <4>4
    <3>6. /\ pc[w] \notin {"run", "count"}
          /\ pc[w] \in {"test", "cas"} => word[w].seq = inc[w]
          /\ pc[w] = "cas" => word[w].row < mine[w].nrows \/ claimw[at[w]].seq # inc[w]
      BY <3>1 DEF Places, Place, Holding
    <3> QED
      BY <1>1, <1>2, <1>8, <2>2, <3>1, <3>2, <3>3, <3>4, <3>5, <3>6 DEF Place, Seqs
  <2> QED
    BY <2>1, <2>2
<1>14. Ledger'
  <2>1. \A q \in Seqs : q > seq_next => \A u \in Units : ran[q][u] = 0
    BY DEF Ledger
  <2>2. \A u \in Units : ran'[seq'[s]][u] = 0
    BY <1>1, <1>3, <2>1
  <2>3. Account(s)'
    BY <1>1, <1>3, <1>6, <1>9, <2>2, UnitsBound DEF Account, Units
  <2>4. ASSUME NEW t \in Slots, t # s, seq'[t] > 0 PROVE Account(t)'
    BY <1>1, <1>2, <1>3, <1>4, <1>6, <1>8, <1>9, <2>4 DEF Ledger, Account
  <2>5. \A q \in Seqs : q > seq_next' => \A u \in Units : ran'[q][u] = 0
    BY <1>1, <1>3, <2>1 DEF Seqs
  <2> QED
    BY <2>3, <2>4, <2>5 DEF Ledger
<1> QED
  BY <1>8, <1>10, <1>11, <1>12, <1>13, <1>14

\* A worker that stays where it is keeps its place when its slot only moves on:
\* more units claimed, nobody new registering, not done while it owes a count.
LEMMA SamePlace ==
  ASSUME IInv, NEW w \in Workers,
         pc'[w] = pc[w], at'[w] = at[w], unit'[w] = unit[w], inc'[w] = inc[w],
         mine'[w] = mine[w], word'[w] = word[w],
         seq'[at[w]] = seq[at[w]], shape'[at[w]] = shape[at[w]],
         inc[w] = seq[at[w]] => (Registering(at[w])' => Registering(at[w])),
         Holding(w) => (done'[at[w]] => done[at[w]]),
         pc[w] = "run" => Claimed(at[w])' >= Claimed(at[w])
                            /\ Claimed(at[w])' \in Nat /\ Claimed(at[w]) \in Nat
                            /\ ran'[inc[w]][unit[w]] = ran[inc[w]][unit[w]],
         \/ claimw'[at[w]].seq = claimw[at[w]].seq /\ claimw'[at[w]].row \in Nat
              /\ claimw'[at[w]].row >= claimw[at[w]].row
         \/ claimw'[at[w]].seq = seq[at[w]]
              /\ (Engaged(w) => inc[w] # seq[at[w]])
  PROVE  Place(w)'
<1> USE DEF IInv, TypeOK, Words
<1>1. /\ Holding(w)' = Holding(w) /\ Engaged(w)' = Engaged(w)
      /\ pc[w] \in Fast => Engaged(w)
  BY DEF Holding, Engaged, Fast
<1>2. Place(w)
  BY DEF Places
<1>3. pc[w] = "run" => unit'[w] < Claimed(at[w])' /\ ran'[inc[w]][unit[w]] = 0
  BY <1>2 DEF Place
<1>4. pc[w] \in Fast /\ claimw'[at[w]].seq = inc[w] /\ seq[at[w]] # inc[w] =>
        claimw'[at[w]].row >= mine[w].nrows /\ shape[at[w]].nrows <= mine[w].nrows
  <2> SUFFICES ASSUME pc[w] \in Fast, claimw'[at[w]].seq = inc[w], seq[at[w]] # inc[w]
               PROVE  claimw'[at[w]].row >= mine[w].nrows /\ shape[at[w]].nrows <= mine[w].nrows
    OBVIOUS
  <2>1. /\ claimw[at[w]].row >= mine[w].nrows /\ shape[at[w]].nrows <= mine[w].nrows
        /\ claimw'[at[w]].row >= claimw[at[w]].row
    BY <1>2 DEF Place
  <2>2. mine[w].nrows \in Nat /\ claimw[at[w]].row \in Nat /\ claimw'[at[w]].row \in Nat
    BY <1>1, <1>2, UnitsBound DEF Place
  <2> QED
    BY <2>1, <2>2
<1>5. pc[w] = "cas" => word[w].row < mine[w].nrows \/ claimw'[at[w]].seq # inc[w]
  BY <1>1, <1>2 DEF Place, Fast
<1> QED
  BY <1>1, <1>2, <1>3, <1>4, <1>5 DEF Place

\* The stores to claimw and rows_done: nobody is in the slot yet.
LEMMA RegisterClaimwInv == ASSUME IInv, NEW p \in Submitters, RegisterClaimw(p) PROVE IInv'
<1>1. PICK s \in Slots :
      /\ s = sat[p] /\ spc[p] = "claimw" /\ mtx = p
      /\ claimw' = [claimw EXCEPT ![s] = [seq |-> seq[s], row |-> 0]]
      /\ spc' = [spc EXCEPT ![p] = "rows_done"]
      /\ UNCHANGED <<used, done, seq, shape, next_row, rows_done, mtx, seq_next, worker, sat, ran>>
  <2>1. sat[p] \in Slots
    BY DEF IInv, TypeOK
  <2> QED
    BY <2>1 DEF RegisterClaimw, IInv, Mutex
<1>2. UNCHANGED <<pc, at, unit, inc, mine, word>>
  BY <1>1 DEF worker
<1>3. \A q \in Submitters : q # p => spc[q] \notin {"claimw", "rows_done"}
  BY <1>1 DEF IInv, Mutex
<1>4. /\ \A t \in Slots : /\ Opening(t) <=> t = s
                          /\ Registering(t) <=> t = s
                          /\ ~Opening(t)'
                          /\ Registering(t)' <=> t = s
  BY <1>1, <1>3 DEF Opening, Registering, IInv, TypeOK
<1>5. /\ Holders(s) = {} /\ Claimed(s) = 0 /\ ~done[s] /\ seq[s] > 0 /\ seq[s] \in Nat
      /\ claimw[s].seq # seq[s] /\ next_row[s] \in Nat
  BY <1>1, <1>4 DEF IInv, Table, Entry, TypeOK
<1>6. /\ \A t \in Slots : Holders(t)' = Holders(t)
      /\ \A w \in Workers : Holding(w)' = Holding(w) /\ Engaged(w)' = Engaged(w)
      /\ Alone'
  BY <1>1, SameWorkers DEF IInv
<1>7. /\ claimw'[s] = [seq |-> seq[s], row |-> 0]
      /\ \A t \in Slots : t # s => claimw'[t] = claimw[t]
  BY <1>1 DEF IInv, TypeOK
<1>8. Claimed(s)' = 0 /\ \A t \in Slots : t # s => Claimed(t)' = Claimed(t)
  <2>1. claimw'[s].row = 0 /\ shape'[s] = shape[s] /\ next_row'[s] = next_row[s]
    BY <1>1, <1>7
  <2>2. shape[s].kind # "pfor" => next_row[s] = 0
    BY <1>5 DEF Claimed
  <2>3. Claimed(s)' = 0
    BY <2>1, <2>2 DEF Claimed
  <2>4. \A t \in Slots : t # s => Claimed(t)' = Claimed(t)
    BY <1>1, <1>7 DEF Claimed
  <2> QED
    BY <2>3, <2>4
<1>9. TypeOK'
  <2>1. [seq |-> seq[s], row |-> 0] \in Words
    BY <1>1 DEF IInv, TypeOK, Words
  <2> QED
    BY <1>1, <1>2, <2>1 DEF IInv, TypeOK
<1>10. Mutex'
  BY <1>1, <1>2 DEF IInv, TypeOK, Mutex
<1>11. Table'
  <2>1. \A t \in Slots : Entry(t)'
    <3>1. Entry(s)'
      BY <1>1, <1>4, <1>5, <1>6, <1>7, <1>8 DEF IInv, Table, Entry
    <3>2. \A t \in Slots : t # s => Entry(t)'
      BY <1>1, <1>4, <1>6, <1>7, <1>8 DEF IInv, Table, Entry
    <3> QED
      BY <3>1, <3>2
  <2>2. \A q \in Submitters : spc'[q] # "out" <=> spc[q] # "out"
    BY <1>1 DEF IInv, TypeOK
  <2> QED
    BY <1>1, <2>1, <2>2 DEF IInv, Table
<1>12. Places'
  <2> SUFFICES ASSUME NEW w \in Workers PROVE Place(w)'
    BY DEF Places
  <2>1. at[w] \in Slots /\ Claimed(at[w]) \in Nat /\ claimw[at[w]].row \in Nat
    BY DEF IInv, TypeOK, Words, Claimed
  <2>2. CASE at[w] # s
    BY <1>1, <1>2, <1>4, <1>7, <1>8, <2>1, <2>2, SamePlace
  <2>3. CASE at[w] = s
    <3>1. ~Holding(w)
      BY <1>5, <2>3 DEF Holders
    <3>2. Engaged(w) => inc[w] # seq[s]
      <4>1. Registering(s) /\ Place(w)
        BY <1>1, <1>4 DEF IInv, Places
      <4> QED
        BY <2>3, <4>1 DEF Place
    <3>3. pc[w] # "run"
      BY <3>1 DEF Holding
    <3>4. claimw'[at[w]].seq = seq[at[w]]
      BY <1>7, <2>3
    <3> QED
      BY <1>1, <1>2, <1>4, <2>3, <3>1, <3>2, <3>3, <3>4, SamePlace
  <2> QED
    BY <2>2, <2>3
<1>13. Ledger'
  <2>1. ASSUME NEW t \in Slots, seq[t] > 0 PROVE Account(t)'
    <3>1. Claimed(t)' = Claimed(t)
      <4>1. CASE t = s
        BY <1>5, <1>8, <4>1
      <4>2. CASE t # s
        BY <1>8, <4>2
      <4> QED
        BY <4>1, <4>2
    <3> QED
      BY <1>1, <1>2, <1>4, <1>6, <2>1, <3>1 DEF IInv, Ledger, Account
  <2> QED
    BY <1>1, <2>1 DEF IInv, Ledger
<1> QED
  BY <1>6, <1>9, <1>10, <1>11, <1>12, <1>13 DEF IInv

LEMMA RegisterRowsDoneInv == ASSUME IInv, NEW p \in Submitters, RegisterRowsDone(p) PROVE IInv'
<1>1. PICK s \in Slots :
      /\ s = sat[p] /\ spc[p] = "rows_done" /\ mtx = p
      /\ rows_done' = [rows_done EXCEPT ![s] = 0]
      /\ spc' = [spc EXCEPT ![p] = "wait"] /\ mtx' = Free
      /\ UNCHANGED <<used, done, seq, shape, next_row, claimw, seq_next, worker, sat, ran>>
  <2>1. sat[p] \in Slots
    BY DEF IInv, TypeOK
  <2> QED
    BY <2>1 DEF RegisterRowsDone, IInv, Mutex
<1>2. UNCHANGED <<pc, at, unit, inc, mine, word>>
  BY <1>1 DEF worker
<1>3. \A q \in Submitters : q # p => spc[q] \notin {"claimw", "rows_done"}
  BY <1>1 DEF IInv, Mutex
<1>4. /\ \A t \in Slots : /\ ~Opening(t) /\ ~Opening(t)'
                          /\ Registering(t) <=> t = s
                          /\ ~Registering(t)'
  BY <1>1, <1>3 DEF Opening, Registering, IInv, TypeOK
<1>5. Holders(s) = {} /\ Claimed(s) = 0 /\ ~done[s]
  BY <1>1, <1>4 DEF IInv, Table, Entry
<1>6. /\ \A t \in Slots : Holders(t)' = Holders(t)
      /\ \A w \in Workers : Holding(w)' = Holding(w) /\ Engaged(w)' = Engaged(w)
      /\ Alone'
  BY <1>1, SameWorkers DEF IInv
<1>7. \A t \in Slots : Claimed(t)' = Claimed(t)
  BY <1>1 DEF Claimed
<1>8. TypeOK'
  BY <1>1, <1>2 DEF IInv, TypeOK
<1>9. Mutex'
  BY <1>1, <1>2, <1>3, JobSlotAssumption DEF IInv, TypeOK, Mutex
<1>10. Table'
  <2>1. \A t \in Slots : Entry(t)'
    BY <1>1, <1>4, <1>6, <1>7 DEF IInv, Table, Entry
  <2>2. \A q \in Submitters : spc'[q] # "out" <=> spc[q] # "out"
    BY <1>1 DEF IInv, TypeOK
  <2> QED
    BY <1>1, <2>1, <2>2 DEF IInv, Table
<1>11. Places'
  <2> SUFFICES ASSUME NEW w \in Workers PROVE Place(w)'
    BY DEF Places
  <2>1. at[w] \in Slots /\ Claimed(at[w]) \in Nat /\ claimw[at[w]].row \in Nat
    BY DEF IInv, TypeOK, Words, Claimed
  <2> QED
    BY <1>1, <1>2, <1>4, <1>7, <2>1, SamePlace
<1>12. Ledger'
  <2>1. rows_done'[s] = 0 /\ \A t \in Slots : t # s => rows_done'[t] = rows_done[t]
    BY <1>1 DEF IInv, TypeOK
  <2>2. Cardinality({}) = 0
    BY FS_EmptySet
  <2>3. ASSUME seq[s] > 0 PROVE Account(s)'
    <3>1. Account(s)
      BY <1>1, <2>3 DEF IInv, Ledger
    <3>2. Holders(s)' = {} /\ Claimed(s)' = 0 /\ ~done'[s]
      BY <1>1, <1>5, <1>6, <1>7
    <3>3. rows_done'[s] + Cardinality(Holders(s)') = Claimed(s)'
      BY <2>1, <2>2, <3>2
    <3>4. UNCHANGED <<shape, ran, seq, pc, inc, unit>>
      BY <1>1, <1>2
    <3> QED
      BY <1>1, <1>7, <3>1, <3>2, <3>3, <3>4 DEF Account
  <2>4. ASSUME NEW t \in Slots, t # s, seq[t] > 0 PROVE Account(t)'
    BY <1>1, <1>2, <1>4, <1>6, <1>7, <2>1, <2>4 DEF IInv, Ledger, Account
  <2> QED
    BY <1>1, <2>3, <2>4 DEF IInv, Ledger
<1> QED
  BY <1>6, <1>8, <1>9, <1>10, <1>11, <1>12 DEF IInv

LEMMA JobWaitInv == ASSUME IInv, NEW p \in Submitters, JobWait(p) PROVE IInv'
<1>1. PICK s \in Slots :
      /\ s = sat[p] /\ spc[p] = "wait" /\ mtx = Free /\ done[s]
      /\ used' = [used EXCEPT ![s] = FALSE]
      /\ spc' = [spc EXCEPT ![p] = "out"]
      /\ UNCHANGED <<done, seq, shape, next_row, claimw, rows_done, mtx, seq_next, worker, sat, ran>>
  <2>1. sat[p] \in Slots
    BY DEF IInv, TypeOK
  <2> QED
    BY <2>1 DEF JobWait, IInv
<1>2. UNCHANGED <<pc, at, unit, inc, mine, word>>
  BY <1>1 DEF worker
<1>3. \A q \in Submitters : spc[q] \notin {"claimw", "rows_done"}
  BY <1>1, JobSlotAssumption DEF IInv, Mutex
<1>4. \A t \in Slots : ~Opening(t) /\ ~Opening(t)' /\ ~Registering(t) /\ ~Registering(t)'
  BY <1>1, <1>3 DEF Opening, Registering, IInv, TypeOK
<1>5. \A q \in Submitters : q # p /\ spc[q] # "out" => sat[q] # s
  BY <1>1 DEF IInv, Table
<1>6. /\ \A t \in Slots : Holders(t)' = Holders(t)
      /\ \A w \in Workers : Holding(w)' = Holding(w) /\ Engaged(w)' = Engaged(w)
      /\ Alone'
  BY <1>1, SameWorkers DEF IInv
<1>7. \A t \in Slots : Claimed(t)' = Claimed(t)
  BY <1>1 DEF Claimed
<1>8. TypeOK'
  BY <1>1, <1>2 DEF IInv, TypeOK
<1>9. Mutex'
  BY <1>1, <1>2, <1>3, JobSlotAssumption DEF IInv, TypeOK, Mutex
<1>10. Table'
  <2>1. \A t \in Slots : Entry(t)'
    BY <1>1, <1>4, <1>6, <1>7 DEF IInv, TypeOK, Table, Entry
  <2>2. \A q \in Submitters : spc'[q] # "out" => spc[q] # "out" /\ q # p /\ used'[sat[q]] = used[sat[q]]
    BY <1>1, <1>5 DEF IInv, TypeOK
  <2> QED
    BY <1>1, <2>1, <2>2 DEF IInv, Table
<1>11. Places'
  <2> SUFFICES ASSUME NEW w \in Workers PROVE Place(w)'
    BY DEF Places
  <2>1. at[w] \in Slots /\ Claimed(at[w]) \in Nat /\ claimw[at[w]].row \in Nat
    BY DEF IInv, TypeOK, Words, Claimed
  <2> QED
    BY <1>1, <1>2, <1>4, <1>7, <2>1, SamePlace
<1>12. Ledger'
  <2>1. ASSUME NEW t \in Slots, seq[t] > 0 PROVE Account(t)'
    BY <1>1, <1>2, <1>4, <1>6, <1>7, <2>1 DEF IInv, Ledger, Account
  <2> QED
    BY <1>1, <2>1 DEF IInv, Ledger
<1> QED
  BY <1>6, <1>8, <1>9, <1>10, <1>11, <1>12 DEF IInv

-----------------------------------------------------------------------------
(* The worker.                                                              *)

\* A step of a worker without a unit that leaves the slots alone.
LEMMA MoveWorker ==
  ASSUME IInv, NEW w \in Workers,
         NEW l \in {"idle", "top", "load", "test", "cas", "bottom"},
         pc' = [pc EXCEPT ![w] = l], ~Holding(w), ~Holding(w)',
         NEW x \in Words, word' = [word EXCEPT ![w] = x],
         UNCHANGED <<slot, seq_next, at, unit, inc, mine, spc, sat, ran>>,
         Mutex', Place(w)'
  PROVE  IInv'
<1>1. UNCHANGED <<used, done, seq, shape, next_row, claimw, rows_done>>
  BY DEF slot
<1>2. /\ pc'[w] = l /\ pc[w] # "run"
      /\ \A v \in Workers : v # w => pc'[v] = pc[v] /\ word'[v] = word[v]
  BY DEF IInv, TypeOK, Holding
<1>3. \A v \in Workers : Holding(v)' = Holding(v)
  BY <1>2 DEF Holding
<1>4. \A s \in Slots : /\ Holders(s)' = Holders(s) /\ Claimed(s)' = Claimed(s)
                       /\ Opening(s)' = Opening(s) /\ Registering(s)' = Registering(s)
  BY <1>1, <1>3 DEF Holders, Claimed, Opening, Registering
<1>5. TypeOK'
  BY <1>1 DEF IInv, TypeOK
<1>6. Table'
  BY <1>1, <1>4 DEF IInv, Table, Entry
<1>7. Places'
  <2> SUFFICES ASSUME NEW v \in Workers, v # w PROVE Place(v)'
    BY DEF Places
  <2>1. at[v] \in Slots /\ Claimed(at[v]) \in Nat /\ claimw[at[v]].row \in Nat
    BY DEF IInv, TypeOK, Words, Claimed
  <2> QED
    BY <1>1, <1>2, <1>4, <2>1, SamePlace
<1>8. Alone'
  BY <1>2 DEF IInv, Alone
<1>9. Ledger'
  <2>1. ASSUME NEW s \in Slots, seq[s] > 0 PROVE Account(s)'
    <3>1. \A v \in Workers : pc[v] = "run" => pc'[v] = "run"
      BY <1>2
    <3> QED
      BY <1>1, <1>4, <2>1, <3>1 DEF IInv, Ledger, Account
  <2> QED
    BY <1>1, <2>1 DEF IInv, Ledger
<1> QED
  BY <1>5, <1>6, <1>7, <1>8, <1>9 DEF IInv

LEMMA EnterLeaveInv ==
  ASSUME IInv, NEW w \in Workers, Enter(w) \/ Leave(w)
  PROVE  IInv'
<1>1. PICK l \in {"idle", "top"} :
        /\ pc' = [pc EXCEPT ![w] = l] /\ pc[w] \in {"idle", "top"}
        /\ (l = "top" /\ mtx = Free /\ mtx' = w) \/ (l = "idle" /\ mtx = w /\ mtx' = Free)
        /\ UNCHANGED <<slot, seq_next, at, unit, inc, mine, word, spc, sat, ran>>
  BY DEF Enter, Leave, Goto, IInv, Mutex
<1>2. pc'[w] = l /\ \A v \in Workers : v # w => pc'[v] = pc[v]
  BY <1>1 DEF IInv, TypeOK
<1>3. Mutex'
  BY <1>1, <1>2, JobSlotAssumption DEF IInv, Mutex
<1>4. ~Holding(w) /\ ~Holding(w)' /\ ~Engaged(w)' /\ pc'[w] \notin Fast
  BY <1>1, <1>2 DEF Holding, Engaged, Fast
<1>5. Place(w)'
  BY <1>2, <1>4 DEF Place
<1>6. word' = [word EXCEPT ![w] = word[w]] /\ word[w] \in Words
  BY <1>1 DEF IInv, TypeOK
<1> QED
  BY <1>1, <1>3, <1>4, <1>5, <1>6, MoveWorker

\* The loads of the lock-free claim.
LEMMA LoadWordInv == ASSUME IInv, NEW w \in Workers, LoadWord(w) PROVE IInv'
<1>1. PICK l \in {"test", "bottom"} :
        /\ pc[w] = "load" /\ pc' = [pc EXCEPT ![w] = l]
        /\ l = "test" => claimw[at[w]].seq = inc[w]
        /\ word' = [word EXCEPT ![w] = claimw[at[w]]]
        /\ UNCHANGED <<slot, mtx, seq_next, at, unit, inc, mine, spc, sat, ran>>
  BY DEF LoadWord, Goto, SeqMoved
<1>2. /\ pc'[w] = l /\ word'[w] = claimw[at[w]] /\ claimw[at[w]] \in Words
      /\ \A v \in Workers : v # w => pc'[v] = pc[v]
  BY <1>1 DEF IInv, TypeOK
<1>3. UNCHANGED <<used, done, seq, shape, next_row, claimw, rows_done>>
  BY <1>1 DEF slot
<1>4. Mutex'
  BY <1>1, <1>2 DEF IInv, Mutex
<1>5. Place(w) /\ mine[w].kind = "pfor"
  BY <1>1 DEF IInv, Places, Place, Fast
<1>6. ~Holding(w) /\ ~Holding(w)' /\ Engaged(w) /\ Engaged(w)'
  BY <1>1, <1>2, <1>5 DEF Holding, Engaged
<1>7. \A s \in Slots : Registering(s)' = Registering(s)
  BY <1>1 DEF Registering
<1>8. Place(w)'
  BY <1>1, <1>2, <1>3, <1>5, <1>6, <1>7 DEF Place, Fast, IInv, TypeOK
<1> QED
  BY <1>1, <1>2, <1>4, <1>6, <1>8, MoveWorker

LEMMA TestRowInv == ASSUME IInv, NEW w \in Workers, TestRow(w) PROVE IInv'
<1>1. PICK l \in {"cas", "bottom"} :
        /\ pc[w] = "test" /\ pc' = [pc EXCEPT ![w] = l]
        /\ l = "cas" => ~(word[w].row >= shape[at[w]].nrows)
        /\ UNCHANGED <<slot, mtx, seq_next, at, unit, inc, mine, word, spc, sat, ran>>
  BY DEF TestRow, Goto, Exhausted
<1>2. /\ pc'[w] = l /\ word' = [word EXCEPT ![w] = word[w]] /\ word[w] \in Words
      /\ \A v \in Workers : v # w => pc'[v] = pc[v]
  BY <1>1 DEF IInv, TypeOK
<1>3. UNCHANGED <<used, done, seq, shape, next_row, claimw, rows_done>>
  BY <1>1 DEF slot
<1>4. Mutex'
  BY <1>1, <1>2 DEF IInv, Mutex
<1>5. Place(w) /\ mine[w].kind = "pfor" /\ mine[w] \in Shapes /\ FastClaim
  BY <1>1 DEF IInv, Places, Place, Fast, Engaged
<1>6. ~Holding(w) /\ ~Holding(w)' /\ Engaged(w) /\ Engaged(w)'
  BY <1>1, <1>2, <1>5 DEF Holding, Engaged
<1>7. \A s \in Slots : Registering(s)' = Registering(s)
  BY <1>1 DEF Registering
<1>8. l = "cas" => word[w].row < mine[w].nrows \/ claimw[at[w]].seq # inc[w]
  <2> SUFFICES ASSUME l = "cas", claimw[at[w]].seq = inc[w] PROVE word[w].row < mine[w].nrows
    OBVIOUS
  <2>1. shape[at[w]].nrows <= mine[w].nrows
    <3>1. CASE seq[at[w]] = inc[w]
      <4>1. shape[at[w]] = mine[w]
        BY <1>5, <1>6, <3>1 DEF Place
      <4> QED
        BY <1>5, <4>1, UnitsBound
    <3>2. CASE seq[at[w]] # inc[w]
      BY <1>1, <1>5, <3>2 DEF Place, Fast
    <3> QED
      BY <3>1, <3>2
  <2>2. shape[at[w]] \in Shapes
    <3>1. at[w] \in Slots /\ seq[at[w]] > 0
      BY <1>5, <1>6 DEF IInv, TypeOK, Place, Seqs
    <3> QED
      BY <3>1 DEF IInv, Table, Entry
  <2>3. word[w].row \in Nat /\ shape[at[w]].nrows \in Nat /\ mine[w].nrows \in Nat
    BY <1>2, <1>5, <2>2, UnitsBound DEF Words
  <2> QED
    BY <1>1, <2>1, <2>3
<1>9. Place(w)'
  <2>1. CASE l = "cas"
    <3>1. pc'[w] = "cas" /\ at[w] \in Slots
      BY <1>2, <2>1 DEF IInv, TypeOK
    <3> QED
      BY <1>1, <1>3, <1>5, <1>6, <1>7, <1>8, <3>1 DEF Place, Fast
  <2>2. CASE l = "bottom"
    <3>1. pc'[w] = "bottom" /\ at[w] \in Slots
      BY <1>2, <2>2 DEF IInv, TypeOK
    <3> QED
      BY <1>1, <1>3, <1>5, <1>6, <1>7, <3>1 DEF Place, Fast
  <2> QED
    BY <2>1, <2>2
<1> QED
  BY <1>1, <1>2, <1>4, <1>6, <1>9, MoveWorker

LEMMA NextNat == \A i, j \in Nat : i >= j /\ i < j + 1 => i = j
  OBVIOUS

\* Taking the next unit of a job that has one, with or without the mutex.
LEMMA TakeUnit ==
  ASSUME IInv, NEW w \in Workers, NEW s \in Slots, ~Holding(w),
         pc' = [pc EXCEPT ![w] = "run"], at' = [at EXCEPT ![w] = s],
         inc' = [inc EXCEPT ![w] = seq[s]], mine' = [mine EXCEPT ![w] = shape[s]],
         unit' = [unit EXCEPT ![w] = Claimed(s)],
         seq[s] > 0, ~done[s], ~Registering(s), Claimed(s) < shape[s].nrows,
         IF shape[s].kind = "pfor"
           THEN claimw' = [claimw EXCEPT ![s].row = @ + 1] /\ UNCHANGED next_row
           ELSE next_row' = [next_row EXCEPT ![s] = @ + 1] /\ UNCHANGED claimw,
         UNCHANGED <<used, done, seq, shape, rows_done, seq_next, word, spc, sat, ran>>,
         Mutex'
  PROVE  IInv'
<1> USE DEF IInv, TypeOK
<1>1. /\ pc'[w] = "run" /\ at'[w] = s /\ inc'[w] = seq[s] /\ mine'[w] = shape[s]
      /\ unit'[w] = Claimed(s) /\ pc[w] # "run"
      /\ \A v \in Workers : v # w => /\ pc'[v] = pc[v] /\ at'[v] = at[v] /\ inc'[v] = inc[v]
                                     /\ mine'[v] = mine[v] /\ unit'[v] = unit[v]
  BY DEF Holding
<1>2. /\ seq[s] \in Seqs /\ shape[s] \in Shapes /\ claimw[s].seq = seq[s]
      /\ claimw[s].row \in Nat /\ next_row[s] \in Nat /\ Claimed(s) \in Nat
  <2>1. ~Opening(s)
    BY DEF Opening, Registering
  <2> QED
    BY <2>1 DEF Table, Entry, Seqs, Words, Claimed
<1>3. /\ \A t \in Slots : /\ claimw'[t].seq = claimw[t].seq
                          /\ claimw'[t].row \in Nat /\ claimw[t].row \in Nat
                          /\ claimw'[t].row >= claimw[t].row
                          /\ Opening(t)' = Opening(t) /\ Registering(t)' = Registering(t)
      /\ claimw' \in [Slots -> Words] /\ next_row' \in [Slots -> Nat]
  <2>1. \A t \in Slots : Opening(t)' = Opening(t) /\ Registering(t)' = Registering(t)
    BY DEF Opening, Registering
  <2>2. \A t \in Slots : claimw[t].row \in Nat /\ claimw[t] \in Words
    BY DEF Words
  <2>3. CASE shape[s].kind = "pfor"
    <3>1. claimw' = [claimw EXCEPT ![s] = [seq |-> claimw[s].seq, row |-> claimw[s].row + 1]]
      BY <1>2, <2>2, <2>3 DEF Words
    <3>2. [seq |-> claimw[s].seq, row |-> claimw[s].row + 1] \in Words
      BY <2>2 DEF Words
    <3>3. claimw' \in [Slots -> Words] /\ UNCHANGED next_row
      BY <2>3, <3>1, <3>2
    <3>4. claimw'[s].seq = claimw[s].seq /\ claimw'[s].row = claimw[s].row + 1
      BY <3>1
    <3>5. \A t \in Slots : t # s => claimw'[t] = claimw[t]
      BY <3>1
    <3> QED
      BY <2>1, <2>2, <3>3, <3>4, <3>5
  <2>4. CASE shape[s].kind # "pfor"
    <3>1. UNCHANGED claimw /\ next_row' \in [Slots -> Nat]
      BY <1>2, <2>4
    <3> QED
      BY <2>1, <2>2, <3>1
  <2> QED
    BY <2>3, <2>4
<1>4. /\ Claimed(s)' = Claimed(s) + 1
      /\ \A t \in Slots : t # s => Claimed(t)' = Claimed(t)
  <2>1. CASE shape[s].kind = "pfor"
    BY <1>2, <2>1 DEF Words, Claimed
  <2>2. CASE shape[s].kind # "pfor"
    BY <1>2, <2>2 DEF Claimed
  <2> QED
    BY <2>1, <2>2
<1>5. \A t \in Slots : Claimed(t)' \in Nat /\ Claimed(t) \in Nat /\ Claimed(t)' >= Claimed(t)
  BY <1>3, <1>4 DEF Claimed, Words
<1>6. /\ \A v \in Workers : v # w => Holding(v)' = Holding(v)
      /\ Holding(w)' /\ Engaged(w)'
  BY <1>1 DEF Holding, Engaged
<1>7. /\ Holders(s)' = Holders(s) \cup {w} /\ w \notin Holders(s) /\ Holders(s) \subseteq Workers
      /\ \A t \in Slots : t # s => Holders(t)' = Holders(t)
  BY <1>1, <1>6 DEF Holders
<1>8. TypeOK'
  BY <1>2, <1>3, <1>1
<1>9. Table'
  <2>1. Entry(s)'
    BY <1>3 DEF Table, Entry
  <2>2. \A t \in Slots : t # s => Entry(t)'
    BY <1>3, <1>4, <1>7 DEF Table, Entry
  <2> QED
    BY <2>1, <2>2 DEF Table
<1>10. Claimed(s) \in Units /\ ran[seq[s]][Claimed(s)] = 0
  <2>1. Claimed(s) \in Units
    BY <1>2, UnitsBound DEF Units
  <2> QED
    BY <1>2, <2>1 DEF Ledger, Account
<1>11. Places'
  <2>1. Place(w)'
    BY <1>1, <1>2, <1>3, <1>4, <1>6, <1>10 DEF Place, Seqs, Fast
  <2>2. ASSUME NEW v \in Workers, v # w PROVE Place(v)'
    <3>1. at[v] \in Slots
      OBVIOUS
    <3> QED
      BY <1>1, <1>3, <1>5, <2>2, <3>1, SamePlace
  <2> QED
    BY <2>1, <2>2 DEF Places
<1>12. Alone'
  <2>1. ASSUME NEW v \in Workers, v # w, pc[v] = "run", inc[v] = seq[s] PROVE unit[v] # Claimed(s)
    <3>1. seq[at[v]] = inc[v] /\ unit[v] < Claimed(at[v])
      BY <2>1 DEF Places, Place, Holding
    <3>2. at[v] = s
      BY <1>2, <2>1, <3>1 DEF Table, Seqs
    <3> QED
      BY <1>2, <3>1, <3>2
  <2> QED
    BY <1>1, <2>1 DEF Alone
<1>13. Ledger'
  <2>1. Account(s)'
    <3>1. Account(s)
      BY <1>2 DEF Ledger
    <3>2. Cardinality(Holders(s)') = Cardinality(Holders(s)) + 1 /\ Cardinality(Holders(s)) \in Nat
      BY <1>7, CountHolders
    <3>3. rows_done[s] + Cardinality(Holders(s)) = Claimed(s) /\ rows_done[s] \in Nat
      BY <3>1 DEF Account
    <3>4. rows_done'[s] + Cardinality(Holders(s)') = Claimed(s)'
      BY <1>2, <1>4, <3>2, <3>3
    <3>5. Claimed(s)' <= shape[s].nrows
      BY <1>2, <1>4, UnitsBound
    <3>6. ASSUME NEW u \in Units
          PROVE  /\ u >= Claimed(s)' => ran[seq[s]][u] = 0
                 /\ u < Claimed(s)' =>
                      \/ ran[seq[s]][u] = 1
                      \/ ran[seq[s]][u] = 0
                           /\ \E v \in Workers : pc'[v] = "run" /\ inc'[v] = seq[s] /\ unit'[v] = u
      <4>1. u \in Nat
        BY UnitsBound DEF Units
      <4>2. u >= Claimed(s)' => ran[seq[s]][u] = 0
        BY <1>2, <1>4, <3>1, <4>1 DEF Account
      <4>3. CASE u >= Claimed(s)
        <5>1. u < Claimed(s)' => u = Claimed(s)
          BY <1>2, <1>4, <4>1, <4>3, NextNat
        <5> QED
          BY <1>1, <1>10, <4>2, <5>1
      <4>4. CASE u < Claimed(s)
        <5>1. CASE ran[seq[s]][u] = 1
          BY <4>2, <5>1
        <5>2. CASE ran[seq[s]][u] # 1
          <6>1. ran[seq[s]][u] = 0
            BY <3>1, <4>4, <5>2 DEF Account
          <6>2. PICK v \in Workers : pc[v] = "run" /\ inc[v] = seq[s] /\ unit[v] = u
            BY <3>1, <4>4, <5>2 DEF Account
          <6>3. pc'[v] = "run" /\ inc'[v] = seq[s] /\ unit'[v] = u
            BY <1>1, <6>2
          <6> QED
            BY <4>2, <6>1, <6>3
        <5> QED
          BY <5>1, <5>2
      <4> QED
        BY <1>2, <4>1, <4>3, <4>4
    <3> QED
      BY <3>4, <3>5, <3>6 DEF Account
  <2>2. ASSUME NEW t \in Slots, t # s, seq[t] > 0 PROVE Account(t)'
    <3>1. Account(t)
      BY <2>2 DEF Ledger
    <3>2. \A v \in Workers : pc[v] = "run" => pc'[v] = "run" /\ inc'[v] = inc[v] /\ unit'[v] = unit[v]
      BY <1>1
    <3> QED
      BY <1>3, <1>4, <1>7, <2>2, <3>1, <3>2 DEF Account
  <2> QED
    BY <2>1, <2>2 DEF Ledger
<1> QED
  BY <1>8, <1>9, <1>11, <1>12, <1>13

\* The fresh claim under the mutex.
LEMMA ClaimInv == ASSUME IInv, NEW w \in Workers, Claim(w) PROVE IInv'
<1>1. PICK s \in Slots :
        /\ pc[w] = "top" /\ Ready(s)
        /\ at' = [at EXCEPT ![w] = s] /\ inc' = [inc EXCEPT ![w] = seq[s]]
        /\ mine' = [mine EXCEPT ![w] = shape[s]]
        /\ IF shape[s].kind = "pfor"
             THEN /\ unit' = [unit EXCEPT ![w] = claimw[s].row]
                  /\ claimw' = [claimw EXCEPT ![s].row = @ + 1]
                  /\ UNCHANGED next_row
             ELSE /\ unit' = [unit EXCEPT ![w] = next_row[s]]
                  /\ next_row' = [next_row EXCEPT ![s] = @ + 1]
                  /\ UNCHANGED claimw
        /\ mtx' = Free /\ pc' = [pc EXCEPT ![w] = "run"]
        /\ UNCHANGED <<used, done, seq, shape, rows_done, seq_next, word, spc, sat, ran>>
  BY DEF Claim, Goto
<1>2. mtx = w /\ ~Holding(w)
  BY <1>1 DEF IInv, Mutex, Holding
<1>3. ~Registering(s) /\ claimw[s].seq = seq[s]
  BY <1>2, NobodyRegisters
<1>4. seq[s] > 0 /\ ~done[s]
  BY <1>1 DEF Ready, IInv, TypeOK, Table, Entry
<1>5. Claimed(s) < shape[s].nrows /\ unit' = [unit EXCEPT ![w] = Claimed(s)]
  BY <1>1, <1>3 DEF Ready, Claimed
<1>6. Mutex'
  BY <1>1, <1>2, JobSlotAssumption DEF IInv, TypeOK, Mutex
<1>7. IF shape[s].kind = "pfor"
        THEN claimw' = [claimw EXCEPT ![s].row = @ + 1] /\ UNCHANGED next_row
        ELSE next_row' = [next_row EXCEPT ![s] = @ + 1] /\ UNCHANGED claimw
  BY <1>1
<1> QED
  BY <1>1, <1>2, <1>3, <1>4, <1>5, <1>6, <1>7, TakeUnit

\* The CAS.  It only succeeds on the word of the incarnation the worker is in,
\* with a unit left: in the window of a registration the word is past both ends.
LEMMA CasWordInv == ASSUME IInv, NEW w \in Workers, CasWord(w) PROVE IInv'
<1> DEFINE s == at[w]
<1>1. /\ pc[w] = "cas" /\ s \in Slots /\ mine[w] \in Shapes /\ mine[w].kind = "pfor"
      /\ word[w].seq = inc[w] /\ inc[w] \in Seqs /\ Place(w) /\ ~Holding(w)
      /\ word[w].row \in Nat /\ mine[w].nrows \in Nat /\ FastClaim
      /\ word[w].row < mine[w].nrows \/ claimw[at[w]].seq # inc[w]
  <2>1. pc[w] = "cas" /\ Place(w) /\ at[w] \in Slots /\ word[w] \in Words
    BY DEF CasWord, IInv, TypeOK, Places
  <2>2. mine[w] \in Shapes
    BY <2>1 DEF Place, Engaged
  <2>3. mine[w].nrows \in Nat
    BY <2>2, UnitsBound
  <2> QED
    BY <2>1, <2>2, <2>3 DEF Place, Engaged, Fast, Holding, Words
<1>2. CASE claimw[s] = word[w]
  <2>1. /\ claimw' = [claimw EXCEPT ![s].row = @ + 1]
        /\ unit' = [unit EXCEPT ![w] = word[w].row] /\ pc' = [pc EXCEPT ![w] = "run"]
        /\ UNCHANGED <<used, done, seq, shape, next_row, rows_done, mtx, seq_next, at, inc,
                       mine, word, spc, sat, ran>>
    BY <1>2 DEF CasWord, Goto
  <2>2. word[w].row < mine[w].nrows
    BY <1>1, <1>2
  <2>3. seq[s] = inc[w]
    <3> SUFFICES ASSUME seq[s] # inc[w] PROVE FALSE
      OBVIOUS
    <3>1. claimw[s].row >= mine[w].nrows
      BY <1>1, <1>2 DEF Place, Fast
    <3> QED
      BY <1>1, <1>2, <2>2, <3>1
  <2>4. shape[s] = mine[w] /\ ~Registering(s) /\ seq[s] > 0
    BY <1>1, <2>3 DEF Place, Engaged, Seqs
  <2>5. Claimed(s) = word[w].row
    BY <1>1, <1>2, <2>3, <2>4 DEF Claimed
  <2>6. ~done[s]
    <3>1. /\ rows_done[s] + Cardinality(Holders(s)) = Claimed(s)
          /\ done[s] => rows_done[s] = shape[s].nrows
      BY <1>1, <2>4 DEF IInv, Ledger, Account
    <3>2. Cardinality(Holders(s)) \in Nat
      BY CountHolders DEF Holders
    <3> QED
      BY <1>1, <2>2, <2>4, <2>5, <3>1, <3>2
  <2>7. /\ at' = [at EXCEPT ![w] = s] /\ inc' = [inc EXCEPT ![w] = seq[s]]
        /\ mine' = [mine EXCEPT ![w] = shape[s]] /\ unit' = [unit EXCEPT ![w] = Claimed(s)]
    BY <2>1, <2>3, <2>4, <2>5 DEF IInv, TypeOK
  <2>8. Mutex'
    BY <1>1, <2>1 DEF IInv, TypeOK, Mutex
  <2>9. Claimed(s) < shape[s].nrows /\ shape[s].kind = "pfor"
    BY <1>1, <2>2, <2>4, <2>5
  <2> HIDE DEF s
  <2> QED
    BY <1>1, <2>1, <2>4, <2>6, <2>7, <2>8, <2>9, TakeUnit DEF s
<1>3. CASE claimw[s] # word[w]
  <2>1. /\ pc' = [pc EXCEPT ![w] = "load"]
        /\ UNCHANGED <<slot, seq_next, at, unit, inc, mine, word, spc, sat, ran, mtx>>
    BY <1>3 DEF CasWord, Goto, slot
  <2>2. /\ pc'[w] = "load" /\ word' = [word EXCEPT ![w] = word[w]] /\ word[w] \in Words
        /\ \A v \in Workers : v # w => pc'[v] = pc[v]
    BY <2>1 DEF IInv, TypeOK
  <2>3. Mutex'
    BY <1>1, <2>1, <2>2 DEF IInv, Mutex
  <2>4. ~Holding(w)' /\ Engaged(w) /\ Engaged(w)'
    BY <1>1, <2>2 DEF Holding, Engaged
  <2>5. Place(w)'
    <3>1. \A t \in Slots : Registering(t)' = Registering(t)
      BY <2>1 DEF Registering
    <3> QED
      BY <1>1, <2>1, <2>2, <2>4, <3>1 DEF Place, Fast, slot
  <2> QED
    BY <1>1, <2>1, <2>2, <2>3, <2>4, <2>5, MoveWorker
<1> QED
  BY <1>2, <1>3

\* The unit runs: it is the worker's own, and now it has run once.
LEMMA RunInv == ASSUME IInv, NEW w \in Workers, Run(w) PROVE IInv'
<1>1. PICK s \in Slots, q \in Seqs, u \in Units :
        /\ s = at[w] /\ q = inc[w] /\ q = seq[s] /\ u = unit[w] /\ seq[s] > 0
        /\ u < Claimed(s) /\ ran[q][u] = 0 /\ mine[w] = shape[s] /\ mine[w] \in Shapes
        /\ ~Registering(s) /\ ~done[s]
  <2>1. Place(w) /\ pc[w] = "run" /\ at[w] \in Slots /\ unit[w] \in Nat
    BY DEF IInv, Places, TypeOK, Run
  <2>2. inc[w] \in Seqs /\ inc[w] = seq[at[w]] /\ mine[w] = shape[at[w]] /\ mine[w] \in Shapes
    BY <2>1 DEF Place, Engaged, Holding
  <2>3. seq[at[w]] > 0
    BY <2>2 DEF Seqs
  <2>4. Claimed(at[w]) <= shape[at[w]].nrows /\ Claimed(at[w]) \in Nat
    BY <2>1, <2>3 DEF IInv, Ledger, Account, Claimed, TypeOK, Words
  <2>5. unit[w] \in Units
    BY <2>1, <2>2, <2>4, UnitsBound DEF Place, Units
  <2> QED
    BY <2>1, <2>2, <2>3, <2>5 DEF Place, Engaged, Holding
<1>2. PICK l \in {"count", "bottom"} :
        /\ pc[w] = "run" /\ pc' = [pc EXCEPT ![w] = l]
        /\ l = "count" <=> mine[w].kind = "pfor"
        /\ ran' = [ran EXCEPT ![q][u] = @ + 1]
        /\ UNCHANGED <<slot, mtx, seq_next, at, unit, inc, mine, word, spc, sat>>
  BY <1>1 DEF Run, Goto
<1>3. UNCHANGED <<used, done, seq, shape, next_row, claimw, rows_done>>
  BY <1>2 DEF slot
<1>4. /\ pc'[w] = l /\ \A v \in Workers : v # w => pc'[v] = pc[v]
      /\ mine[w].kind \in {"pfor", "wavefront"}
  BY <1>1, <1>2, UnitsBound DEF IInv, TypeOK
<1>5. \A v \in Workers : (Holding(v)' <=> Holding(v)) /\ (Engaged(v)' <=> Engaged(v))
  BY <1>2, <1>4 DEF Holding, Engaged
<1>6. \A t \in Slots : /\ Holders(t)' = Holders(t) /\ Claimed(t)' = Claimed(t)
                       /\ Opening(t)' = Opening(t) /\ Registering(t)' = Registering(t)
  BY <1>2, <1>3, <1>5 DEF Holders, Claimed, Opening, Registering
<1>7. /\ ran'[q][u] = 1 /\ ran' \in [Seqs -> [Units -> Nat]]
      /\ \A r \in Seqs, x \in Units : r # q \/ x # u => ran'[r][x] = ran[r][x]
  BY <1>1, <1>2 DEF IInv, TypeOK
<1>8. TypeOK'
  BY <1>2, <1>3, <1>7 DEF IInv, TypeOK
<1>9. Mutex'
  BY <1>2, <1>4 DEF IInv, Mutex
<1>10. Table'
  BY <1>2, <1>3, <1>6 DEF IInv, Table, Entry
<1>11. \A v \in Workers : v # w /\ pc[v] = "run" => ran'[inc[v]][unit[v]] = ran[inc[v]][unit[v]]
  <2> SUFFICES ASSUME NEW v \in Workers, v # w, pc[v] = "run"
               PROVE  ran'[inc[v]][unit[v]] = ran[inc[v]][unit[v]]
    OBVIOUS
  <2>1. inc[v] # q \/ unit[v] # u
    BY <1>1, <1>2 DEF IInv, Alone
  <2>2. inc[v] \in Seqs /\ Place(v)
    BY DEF IInv, Places, Place, Engaged
  <2>3. unit[v] \in Units
    <3>1. seq[at[v]] = inc[v] /\ inc[v] > 0 /\ mine[v] = shape[at[v]] /\ mine[v] \in Shapes
          /\ unit[v] < Claimed(at[v]) /\ at[v] \in Slots /\ unit[v] \in Nat
      BY <2>2 DEF Place, Engaged, Holding, Seqs, IInv, TypeOK
    <3>2. Claimed(at[v]) <= shape[at[v]].nrows /\ Claimed(at[v]) \in Nat
      BY <3>1 DEF IInv, Ledger, Account, Claimed, TypeOK, Words
    <3> QED
      BY <3>1, <3>2, UnitsBound DEF Units
  <2> QED
    BY <1>7, <2>1, <2>2, <2>3
<1>12. Places'
  <2>1. Place(w)'
    <3>1. Place(w)
      BY DEF IInv, Places
    <3> QED
      BY <1>1, <1>2, <1>3, <1>4, <1>5, <1>6, <3>1 DEF Place, Fast, Holding, Engaged
  <2>2. ASSUME NEW v \in Workers, v # w PROVE Place(v)'
    <3>1. at[v] \in Slots /\ Claimed(at[v]) \in Nat /\ claimw[at[v]].row \in Nat
      BY DEF IInv, TypeOK, Words, Claimed
    <3> QED
      BY <1>2, <1>3, <1>4, <1>6, <1>11, <2>2, <3>1, SamePlace
  <2> QED
    BY <2>1, <2>2 DEF Places
<1>13. Alone'
  BY <1>2, <1>4 DEF IInv, Alone
<1>14. Ledger'
  <2>1. ASSUME NEW t \in Slots, seq[t] > 0 PROVE Account(t)'
    <3>1. Account(t)
      BY <2>1 DEF IInv, Ledger
    <3>2. seq[t] \in Seqs
      BY <2>1 DEF IInv, TypeOK, Seqs
    <3>3. t # s => seq[t] # q
      BY <1>1, <2>1 DEF IInv, Table
    <3>4. ASSUME NEW x \in Units
          PROVE  /\ x >= Claimed(t) => ran'[seq[t]][x] = 0
                 /\ x < Claimed(t) =>
                      \/ ran'[seq[t]][x] = 1
                      \/ ran'[seq[t]][x] = 0
                           /\ \E v \in Workers : pc'[v] = "run" /\ inc[v] = seq[t] /\ unit[v] = x
      <4>1. CASE seq[t] = q /\ x = u
        <5>1. t = s /\ x < Claimed(t) /\ ~(x >= Claimed(t))
          <6>1. x \in Nat /\ Claimed(s) \in Nat
            BY UnitsBound DEF Units, IInv, TypeOK, Claimed, Words
          <6> QED
            BY <1>1, <3>3, <4>1, <6>1
        <5> QED
          BY <1>7, <4>1, <5>1
      <4>2. CASE seq[t] # q \/ x # u
        <5>1. ran'[seq[t]][x] = ran[seq[t]][x]
          BY <1>7, <3>2, <4>2
        <5>2. \A v \in Workers : pc[v] = "run" /\ inc[v] = seq[t] /\ unit[v] = x => pc'[v] = "run"
          BY <1>1, <1>4, <4>2
        <5> QED
          BY <3>1, <5>1, <5>2 DEF Account
      <4> QED
        BY <4>1, <4>2
    <3> QED
      BY <1>2, <1>3, <1>6, <3>1, <3>4 DEF Account
  <2>2. \A r \in Seqs : r > seq_next => \A x \in Units : ran'[r][x] = 0
    <3>1. q <= seq_next
      BY <1>1 DEF IInv, Table, Entry
    <3>2. \A r \in Seqs : r > seq_next => r # q
      BY <3>1 DEF IInv, TypeOK, Seqs
    <3> QED
      BY <1>7, <3>2 DEF IInv, Ledger
  <2> QED
    BY <1>2, <1>3, <2>1, <2>2 DEF Ledger
<1> QED
  BY <1>8, <1>9, <1>10, <1>12, <1>13, <1>14 DEF IInv

\* A worker leaves the slot, or looks at its count on the way out: what is
\* claimed stays counted or owed, and the job is only marked done when all of
\* it is counted and nobody owes it anything.
LEMMA LeaveSlot ==
  ASSUME IInv, NEW w \in Workers, NEW s \in Slots, s = at[w],
         NEW l \in {"load", "bottom", "top"}, pc' = [pc EXCEPT ![w] = l],
         pc[w] \notin {"idle", "top", "run"}, ~Holding(w)', ~Registering(s),
         NEW n \in Nat, rows_done' = [rows_done EXCEPT ![s] = n],
         n + Cardinality(Holders(s)') = Claimed(s),
         NEW d \in BOOLEAN, done' = [done EXCEPT ![s] = d],
         done[s] => d, d => n = shape[s].nrows /\ Holders(s)' = {},
         UNCHANGED <<used, seq, shape, next_row, claimw, seq_next, at, unit, inc, mine,
                     word, spc, sat, ran>>,
         Mutex', l = "load" => FastClaim /\ mine[w].kind = "pfor" /\ inc[w] = seq[s]
  PROVE  IInv'
<1> USE DEF IInv, TypeOK
<1>1. /\ pc'[w] = l /\ \A v \in Workers : v # w => pc'[v] = pc[v]
      /\ rows_done'[s] = n /\ done'[s] = d
      /\ \A t \in Slots : t # s => rows_done'[t] = rows_done[t] /\ done'[t] = done[t]
  OBVIOUS
<1>2. /\ \A v \in Workers : v # w => Holding(v)' = Holding(v)
      /\ \A t \in Slots : /\ Claimed(t)' = Claimed(t) /\ Opening(t)' = Opening(t)
                          /\ Registering(t)' = Registering(t)
  BY <1>1 DEF Holding, Claimed, Opening, Registering
<1>3. \A t \in Slots : t # s => Holders(t)' = Holders(t)
  BY <1>1, <1>2 DEF Holders
<1>4. Engaged(w) /\ Place(w) /\ seq[s] > 0
  BY DEF Engaged, Places, Place, Seqs
<1>5. TypeOK'
  OBVIOUS
<1>6. Table'
  <2>1. Entry(s)'
    BY <1>1, <1>2, <1>4 DEF Table, Entry
  <2>2. \A t \in Slots : t # s => Entry(t)'
    BY <1>1, <1>2, <1>3 DEF Table, Entry
  <2> QED
    BY <2>1, <2>2 DEF Table
<1>7. Places'
  <2>1. Place(w)'
    <3>1. pc'[w] \in {"test", "cas", "run", "count"} <=> FALSE
      BY <1>1
    <3>2. pc'[w] \in Fast => /\ l = "load" /\ FastClaim /\ mine[w].kind = "pfor"
                             /\ inc[w] = seq[s]
      BY <1>1 DEF Fast
    <3> QED
      BY <1>1, <1>2, <1>4, <3>1, <3>2 DEF Place, Engaged
  <2>2. ASSUME NEW v \in Workers, v # w PROVE Place(v)'
    <3>1. at[v] \in Slots /\ Claimed(at[v]) \in Nat /\ claimw[at[v]].row \in Nat
      BY DEF Words, Claimed
    <3>2. Holding(v) => (done'[at[v]] => done[at[v]])
      BY <1>1, <1>2, <2>2 DEF Holders
    <3> QED
      BY <1>1, <1>2, <2>2, <3>1, <3>2, SamePlace
  <2> QED
    BY <2>1, <2>2 DEF Places
<1>8. Alone'
  BY <1>1 DEF Alone
<1>9. Ledger'
  <2>1. \A v \in Workers : pc[v] = "run" => pc'[v] = "run"
    BY <1>1
  <2>2. Account(s)'
    <3>1. Account(s)
      BY <1>4 DEF Ledger
    <3> QED
      BY <1>1, <1>2, <2>1, <3>1 DEF Account
  <2>3. ASSUME NEW t \in Slots, t # s, seq[t] > 0 PROVE Account(t)'
    <3>1. Account(t)
      BY <2>3 DEF Ledger
    <3> QED
      BY <1>1, <1>2, <1>3, <2>1, <2>3, <3>1 DEF Account
  <2> QED
    BY <2>2, <2>3 DEF Ledger
<1> QED
  BY <1>5, <1>6, <1>7, <1>8, <1>9

\* The holders of a slot without the one that leaves it.
LEMMA OneLess ==
  ASSUME IInv, NEW w \in Workers, Holding(w), ~Holding(w)', NEW l, pc' = [pc EXCEPT ![w] = l],
         UNCHANGED <<at, mine>>
  PROVE  /\ Holders(at[w])' = Holders(at[w]) \ {w}
         /\ rows_done[at[w]] + 1 + Cardinality(Holders(at[w])') = Claimed(at[w])
         /\ Cardinality(Holders(at[w])') \in Nat
         /\ rows_done[at[w]] + 1 = shape[at[w]].nrows => Holders(at[w])' = {}
<1>1. PICK s \in Slots : s = at[w]
  BY DEF IInv, TypeOK
<1>2. \A v \in Workers : v # w => Holding(v)' = Holding(v)
  BY DEF IInv, TypeOK, Holding
<1>3. Holders(s)' = Holders(s) \ {w} /\ w \in Holders(s) /\ Holders(s) \subseteq Workers
  BY <1>1, <1>2 DEF Holders
<1>4. /\ Cardinality(Holders(s)') = Cardinality(Holders(s)) - 1
      /\ Cardinality(Holders(s)) \in Nat /\ Cardinality(Holders(s)') \in Nat
  <2>1. Holders(s) \ {w} \subseteq Workers
    BY <1>3
  <2> QED
    BY <1>3, <2>1, CountHolders
<1>5. seq[s] > 0 /\ ~Registering(s) /\ rows_done[s] \in Nat
  <2>1. Place(w) /\ Engaged(w) /\ s \in Slots
    BY <1>1 DEF IInv, TypeOK, Places, Holding, Engaged
  <2>2. seq[s] = inc[w] /\ inc[w] \in Seqs /\ ~Registering(s)
    BY <1>1, <2>1 DEF Place
  <2> QED
    BY <2>1, <2>2 DEF Seqs, IInv, TypeOK
<1>6. rows_done[s] + Cardinality(Holders(s)) = Claimed(s)
  BY <1>5 DEF IInv, Ledger, Account
<1>7. rows_done[s] + 1 + Cardinality(Holders(s)') = Claimed(s)
  BY <1>4, <1>5, <1>6
<1>8. rows_done[s] + 1 = shape[s].nrows => Holders(s)' = {}
  <2> SUFFICES ASSUME rows_done[s] + 1 = shape[s].nrows, NEW v \in Holders(s)' PROVE FALSE
    OBVIOUS
  <2>1. v \in Workers /\ v # w /\ Holding(v) /\ at[v] = s
    BY <1>3 DEF Holders
  <2>2. rows_done[s] + 2 <= shape[s].nrows
    BY <1>1, <2>1, Owed
  <2> QED
    BY <1>5, <2>2
<1> QED
  BY <1>1, <1>3, <1>4, <1>7, <1>8

LEMMA CountInv == ASSUME IInv, NEW w \in Workers, Count(w) PROVE IInv'
<1>1. PICK l \in {"load", "bottom"}, s \in Slots :
        /\ pc[w] = "count" /\ s = at[w] /\ pc' = [pc EXCEPT ![w] = l]
        /\ l = "load" => FastClaim
        /\ rows_done' = [rows_done EXCEPT ![s] = rows_done[s] + 1]
        /\ UNCHANGED <<used, done, seq, shape, next_row, claimw, mtx, seq_next, at, unit, inc,
                       mine, word, spc, sat, ran>>
  BY DEF Count, Goto, IInv, TypeOK
<1>2. Place(w) /\ Holding(w) /\ pc'[w] = l
  BY <1>1 DEF IInv, TypeOK, Places, Holding
<1>3. /\ mine[w].kind = "pfor" /\ inc[w] = seq[s] /\ ~done[s] /\ ~Registering(s)
      /\ ~Holding(w)'
  BY <1>1, <1>2 DEF Place, Holding, Engaged
<1>4. rows_done[s] + 1 \in Nat /\ done' = [done EXCEPT ![s] = FALSE]
  BY <1>1, <1>3 DEF IInv, TypeOK
<1>5. rows_done[s] + 1 + Cardinality(Holders(s)') = Claimed(s)
  BY <1>1, <1>2, <1>3, OneLess
<1>6. Mutex'
  BY <1>1, <1>2 DEF IInv, TypeOK, Mutex
<1> QED
  BY <1>1, <1>3, <1>4, <1>5, <1>6, LeaveSlot

LEMMA BottomInv == ASSUME IInv, NEW w \in Workers, Bottom(w) PROVE IInv'
<1>1. PICK s \in Slots, d \in BOOLEAN, n \in Nat :
        /\ pc[w] = "bottom" /\ mtx = Free /\ s = at[w] /\ pc' = [pc EXCEPT ![w] = "top"]
        /\ mtx' = w
        /\ n = IF WasPfor(w) THEN rows_done[s] ELSE rows_done[s] + 1
        /\ d <=> \/ done[s]
                 \/ WasPfor(w) /\ SameJob(w) /\ AllCounted(w)
                 \/ ~WasPfor(w) /\ rows_done[s] + 1 = shape[s].nrows
        /\ rows_done' = [rows_done EXCEPT ![s] = n] /\ done' = [done EXCEPT ![s] = d]
        /\ UNCHANGED <<used, seq, shape, next_row, claimw, seq_next, at, unit, inc, mine, word,
                       spc, sat, ran>>
  <2>1. at[w] \in Slots /\ rows_done[at[w]] \in Nat /\ done[at[w]] \in BOOLEAN
        /\ rows_done[at[w]] + 1 \in Nat /\ rows_done = [rows_done EXCEPT ![at[w]] = @]
    BY DEF IInv, TypeOK
  <2>2. CASE WasPfor(w)
    BY <2>1, <2>2 DEF Bottom, Goto
  <2>3. CASE ~WasPfor(w)
    BY <2>1, <2>3 DEF Bottom, Goto
  <2> QED
    BY <2>2, <2>3
<1>2. Place(w) /\ ~Registering(s) /\ ~Holding(w)' /\ pc'[w] = "top"
      /\ \A v \in Workers : v # w => Holding(v)' = Holding(v)
  BY <1>1, NobodyRegisters DEF IInv, TypeOK, Places, Holding
<1>3. Mutex'
  BY <1>1, <1>2, JobSlotAssumption DEF IInv, TypeOK, Mutex
<1>4. /\ inc[w] \in Seqs /\ inc[w] <= seq[s] /\ mine[w] \in Shapes /\ seq[s] > 0
      /\ mine[w].kind \in {"pfor", "wavefront"} /\ rows_done[s] \in Nat
  BY <1>1, <1>2, UnitsBound DEF Place, Engaged, Seqs, IInv, TypeOK
<1>5. CASE WasPfor(w)
  <2>1. ~Holding(w)
    BY <1>1, <1>5 DEF Holding, WasPfor
  <2>2. Holders(s)' = Holders(s)
    BY <1>1, <1>2, <2>1 DEF Holders
  <2>3. n + Cardinality(Holders(s)') = Claimed(s)
    BY <1>1, <1>2, <1>4, <1>5, <2>2 DEF IInv, Ledger, Account
  <2>4. d => n = shape[s].nrows
    BY <1>1, <1>4, <1>5 DEF AllCounted, IInv, Ledger, Account
  <2>5. d => Holders(s)' = {}
    <3> SUFFICES ASSUME d, NEW v \in Workers, Holding(v), at[v] = s PROVE FALSE
      BY <2>2 DEF Holders
    <3>1. rows_done[s] + 1 <= shape[s].nrows
      BY Owed
    <3> QED
      BY <1>1, <1>4, <1>5, <2>4, <3>1
  <2> QED
    BY <1>1, <1>2, <1>3, <2>3, <2>4, <2>5, LeaveSlot
<1>6. CASE ~WasPfor(w)
  <2>1. Holding(w)
    BY <1>1, <1>4, <1>6 DEF Holding, WasPfor
  <2>2. ~done[s]
    BY <1>1, <1>2, <2>1 DEF Place
  <2>3. n + Cardinality(Holders(s)') = Claimed(s)
    BY <1>1, <1>2, <1>6, <2>1, OneLess
  <2>4. d => n = shape[s].nrows /\ Holders(s)' = {}
    BY <1>1, <1>2, <1>6, <2>1, <2>2, OneLess
  <2> QED
    BY <1>1, <1>2, <1>3, <2>2, <2>3, <2>4, LeaveSlot
<1> QED
  BY <1>5, <1>6

-----------------------------------------------------------------------------
(* Every step.                                                              *)

\* Without a step that makes a job of a parallel-for's slot longer, every step
\* of every thread keeps the invariant.
LEMMA NextIInv == ASSUME IInv, [Next]_vars, [NeverGrows]_vars PROVE IInv'
<1>1. CASE UNCHANGED vars
  <2>1. UNCHANGED <<used, done, seq, shape, next_row, claimw, rows_done, mtx, seq_next, pc, at,
                    unit, inc, mine, word, spc, sat, ran>>
    BY <1>1 DEF vars, slot, worker
  <2>2. \A s \in Slots : /\ Holders(s)' = Holders(s) /\ Claimed(s)' = Claimed(s)
                         /\ Opening(s)' = Opening(s) /\ Registering(s)' = Registering(s)
    BY <2>1 DEF Holders, Holding, Claimed, Opening, Registering
  <2>3. \A w \in Workers : Place(w)' = Place(w)
    BY <2>1, <2>2 DEF Place, Holding, Engaged, IInv, TypeOK
  <2>4. Table' = Table /\ Ledger' = Ledger
    BY <2>1, <2>2 DEF Table, Entry, Ledger, Account
  <2>5. TypeOK' /\ Mutex' /\ Alone'
    BY <2>1 DEF IInv, TypeOK, Mutex, Alone
  <2> QED
    BY <2>3, <2>4, <2>5 DEF IInv, Places
<1>2. ASSUME NEW p \in Submitters, Register(p) PROVE IInv'
  <2>1. seq_next' # seq_next
    BY <1>2 DEF Register, IInv, TypeOK
  <2> QED
    BY <1>2, <2>1, RegisterInv DEF vars
<1>3. ASSUME NEW p \in Submitters, Submitter(p) PROVE IInv'
  BY <1>3, RegisterClaimwInv, RegisterRowsDoneInv, JobWaitInv DEF Submitter
<1>4. ASSUME NEW w \in Workers, Worker(w) PROVE IInv'
  BY <1>4, EnterLeaveInv, ClaimInv, RunInv, CountInv, LoadWordInv, TestRowInv, CasWordInv,
     BottomInv DEF Worker
<1> QED
  BY <1>1, <1>2, <1>3, <1>4 DEF Next, Quiet

\* The invariant says what the properties do.
LEMMA IInvIsEnough == IInv => RunsOwnUnit /\ HeldUntilComplete
<1> SUFFICES ASSUME IInv PROVE RunsOwnUnit /\ HeldUntilComplete
  OBVIOUS
<1>1. ASSUME NEW w \in Workers, pc[w] = "run"
      PROVE  unit[w] < mine[w].nrows /\ ran[inc[w]][unit[w]] = 0
  <2>1. Place(w) /\ at[w] \in Slots /\ unit[w] \in Nat
    BY DEF IInv, Places, TypeOK
  <2>2. /\ inc[w] = seq[at[w]] /\ seq[at[w]] > 0 /\ mine[w] = shape[at[w]] /\ mine[w] \in Shapes
        /\ unit[w] < Claimed(at[w]) /\ ran[inc[w]][unit[w]] = 0
    BY <1>1, <2>1 DEF Place, Engaged, Holding, Seqs
  <2>3. Claimed(at[w]) <= mine[w].nrows /\ Claimed(at[w]) \in Nat /\ mine[w].nrows \in Nat
    BY <2>1, <2>2, UnitsBound DEF IInv, Ledger, Account, Claimed, TypeOK, Words
  <2> QED
    BY <2>1, <2>2, <2>3
<1>2. RunsOwnUnit
  BY <1>1 DEF RunsOwnUnit, IInv, Alone
<1>3. SlotHeld
  <2> SUFFICES ASSUME NEW w \in Workers, Holding(w)
               PROVE  used[at[w]] /\ ~done[at[w]] /\ seq[at[w]] = inc[w]
    BY DEF SlotHeld, Holding
  <2>1. Place(w) /\ Engaged(w) /\ at[w] \in Slots
    BY DEF IInv, TypeOK, Places, Holding, Engaged
  <2>2. ~done[at[w]] /\ seq[at[w]] = inc[w] /\ inc[w] > 0
    BY <2>1 DEF Place, Seqs
  <2> QED
    BY <2>1, <2>2 DEF IInv, Table, Entry
<1>4. ASSUME NEW s \in Slots, done[s], NEW u \in UnitsOf(s) PROVE ran[seq[s]][u] = 1
  <2>1. seq[s] > 0 /\ shape[s] \in Shapes /\ ~Registering(s)
    BY <1>4 DEF IInv, Table, Entry, TypeOK
  <2>2. Account(s) /\ rows_done[s] = shape[s].nrows /\ rows_done[s] \in Nat
    BY <1>4, <2>1 DEF IInv, Ledger, Account, TypeOK
  <2>3. Holders(s) = {}
    BY <1>4 DEF IInv, Places, Place, Holders
  <2>4. Cardinality(Holders(s)) = 0
    BY <2>3, FS_EmptySet
  <2>5. Claimed(s) = shape[s].nrows
    BY <2>1, <2>2, <2>4 DEF Account
  <2>6. u \in Units /\ u < Claimed(s)
    BY <2>1, <2>2, <2>5, UnitsBound DEF UnitsOf, Units
  <2>7. ASSUME NEW w \in Workers, pc[w] = "run", inc[w] = seq[s] PROVE FALSE
    <3>1. at[w] \in Slots /\ seq[at[w]] = inc[w] /\ Holding(w)
      BY <2>7 DEF IInv, TypeOK, Places, Place, Holding
    <3>2. at[w] = s
      BY <2>1, <2>7, <3>1 DEF IInv, Table
    <3> QED
      BY <2>3, <3>1, <3>2 DEF Holders
  <2> QED
    BY <2>2, <2>6, <2>7 DEF Account
<1> QED
  BY <1>2, <1>3, <1>4 DEF HeldUntilComplete, DoneIsComplete

LEMMA Invariance == Spec /\ [][NeverGrows]_vars => []IInv
<1>1. IInv /\ [Next]_vars /\ [NeverGrows]_vars => IInv'
  BY NextIInv
<1> QED
  BY InitIInv, <1>1, PTL DEF Spec

\* As long as no parallel-for's slot goes to a longer job: a worker about to
\* run a unit runs one of a live job, one that nobody ran and nobody else is
\* about to.
THEOREM UnitsRunOnce == Spec /\ [][NeverGrows]_vars => []RunsOwnUnit
  BY Invariance, IInvIsEnough, PTL

\* Under the same condition a slot keeps its job until the last worker has
\* counted its unit, and a job is marked done only when all of it has run.
THEOREM SlotKeptUntilDone == Spec /\ [][NeverGrows]_vars => []HeldUntilComplete
  BY Invariance, IInvIsEnough, PTL

\* With the lock-free claim off the condition is void: every claim is under the
\* mutex, and any job may follow any other.
THEOREM UnderTheMutex ==
  ASSUME ~FastClaim PROVE Spec => [](RunsOwnUnit /\ HeldUntilComplete)
<1>1. IInv /\ [Next]_vars => IInv'
  <2> SUFFICES ASSUME IInv, [Next]_vars PROVE IInv'
    OBVIOUS
  <2>1. NeverGrows
    BY DEF NeverGrows
  <2> QED
    BY <2>1, NextIInv
<1> QED
  BY <1>1, InitIInv, IInvIsEnough, PTL DEF Spec
=============================================================================
