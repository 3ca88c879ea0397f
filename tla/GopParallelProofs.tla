-------------------------- MODULE GopParallelProofs --------------------------
(***************************************************************************)
(* What encode_threaded writes is the input, GOP after GOP, for any number *)
(* of threads and frames, any order the workers run in and any read, write *)
(* or call of an encoder that fails, which loses its own bytes alone; and  *)
(* the rate control of a GOP it writes started from where the record of    *)
(* the hand-out says.                                                      *)
(***************************************************************************)
EXTENDS GopParallel, FiniteSetTheorems, TLAPS

\* Coding a GOP, from the wait for its predecessor's state to its publication.
Busy == {"carry", "feed", "starve", "code", "publish"}

Labels ==
    {"split", "plan", "write", "wfailed", "join", "returned",
     "header", "room", "frame", "tail",
     "none", "claim", "seek", "empty", "leave", "gone"} \cup Busy

\* The states a GOP may import, the bytes of one, and what is written for one.
Carries == {<<>>} \cup (Int \X {SumFunction(f) : f \in UNION {[D -> Int] : D \in SUBSET Int}})
Bytes == [g : Nat, first : Nat, end : Nat, carry : Carries, bytes : SUBSET EncoderCalls]
Outputs == Bytes \cup [g : Nat]

Job ==
    [gop_start : Seq(Nat), gops_final : BOOLEAN,
     n_read : Nat, freed : SUBSET Nat, window : Int, waiting : Int,
     eof : BOOLEAN, rerr : BOOLEAN, abort : BOOLEAN,
     next_gop : Nat, pull_gop : Seq(Int),
     gop_done : SUBSET Nat, gop_data : UNION {[D -> Bytes] : D \in SUBSET Nat},
     rc_ready : SUBSET Nat, rc_state : SUBSET Nat]

Local ==
    [g : Int, k : Int, i : Nat, end : Nat, first : Nat, scan : Int, carry : Carries,
     bytes : SUBSET EncoderCalls]

Settings == [known : BOOLEAN, g : Nat, owned : BOOLEAN, order : Seq(Nat)]

TypeOK ==
    /\ env \in Envs
    /\ pc \in [Threads -> Labels]
    /\ job \in Job
    /\ loc \in [Workers -> Local]
    /\ plan \in Settings
    /\ out \in Seq(Outputs)

-----------------------------------------------------------------------------
(* The inductive invariant of the output.                                   *)

Known(g) == g \in 0..(NGops - 1)

\* Frame i is where GOP g ends, or where the input ended before that.
WholeTo(g, i) ==
    \/ i = GopStart(g + 1) /\ i <= job.n_read
    \/ job.eof /\ i = job.n_read /\ i <= GopStart(g + 1)

\* The input ended before GOP g.
Nothing(g) == job.eof /\ job.n_read <= GopStart(g)

\* The table is one of frames in order; while it grows, of frames read.
Table ==
    /\ Len(job.gop_start) >= 1
    /\ \A i \in 1..NGops : job.gop_start[i] < job.gop_start[i + 1]
    /\ ~job.gops_final => job.gop_start[NGops + 1] <= job.n_read

\* Who is where: only the reader reads, and it is gone at the end of the input;
\* the workers start once the split is settled.
Unstarted == pc[Main] \in {"split", "plan"}
Flow ==
    /\ job.eof <=> pc[Reader] = "gone"
    /\ job.eof => job.gops_final
    /\ plan.known => job.gops_final
    /\ env.source = "file" => job.gops_final
    /\ pc[Main] # "split" /\ env.source # "pipe" => plan.known
    /\ Unstarted =>
         /\ \A w \in Workers : pc[w] = "none"
         /\ job.next_gop = 0 /\ job.pull_gop = <<>>
         /\ job.gop_done = {} /\ job.gop_data = <<>> /\ job.rc_ready = {}
         /\ job.rc_state = {}
         /\ out = <<>> /\ plan.order = <<>>

\* A queue of GOPs is of all of them, each once.
Order ==
    \/ plan.order = <<>>
    \/ /\ plan.known /\ Len(plan.order) = NGops
       /\ \A i \in 1..NGops : plan.order[i] \in 0..NGops - 1
       /\ \A i, j \in 1..NGops : plan.order[i] = plan.order[j] => i = j

\* A worker with the locals l, and where it is in its GOP.
Stands(at, l) ==
    /\ at = "seek" => l.g >= 0
    /\ at \in Busy \cup {"empty"} =>
         /\ Known(l.g) /\ l.first = GopStart(l.g)
         /\ \/ l.end = GopStart(l.g + 1)
            \/ job.eof /\ l.end = job.n_read /\ l.end <= GopStart(l.g + 1)
    /\ at = "empty" => Nothing(l.g)
    /\ at \in Busy => GopStart(l.g) < job.n_read
    /\ at = "carry" => l.i = l.first /\ l.i < l.end
    /\ at \in {"feed", "starve", "code"} => l.i < l.end /\ l.i <= job.n_read
    /\ at = "code" => l.i < job.n_read
    /\ at = "publish" /\ ~job.abort => WholeTo(l.g, l.i)

Work(w) == Stands(pc[w], loc[w])

\* The places handed out so far, and that of each worker; None is no GOP, or
\* no place.
AtWork == Busy \cup {"seek", "empty"}
Handouts ==
    /\ Len(job.pull_gop) = job.next_gop
    /\ \A i \in 1..job.next_gop : job.pull_gop[i] = None \/ Known(job.pull_gop[i])
    /\ \A w \in Workers : pc[w] \in AtWork =>
          loc[w].k = None \/ loc[w].k \in 0..job.next_gop - 1

\* The bytes of GOP g, whole.
Good(d, g) == d.g = g /\ d.first = GopStart(g) /\ WholeTo(g, d.end)

\* What is published, unless the job was aborted.
Published ==
    /\ DOMAIN job.gop_data \subseteq job.gop_done
    /\ job.rc_state \subseteq job.rc_ready
    /\ \A g \in job.gop_done \cup job.rc_ready : Known(g)
    /\ ~job.abort =>
         \A g \in job.gop_done :
             IF g \in DOMAIN job.gop_data THEN Good(job.gop_data[g], g) ELSE Nothing(g)

\* What is written, even if it was aborted later.
Written ==
    \A i \in 1..Emitted :
        /\ Known(i - 1)
        /\ \/ out[i] \in Bytes /\ Good(out[i], i - 1)
           \/ out[i] \in [g : Nat] /\ Nothing(i - 1)

OInv ==
    /\ TypeOK /\ Table /\ Flow /\ Order /\ Handouts /\ Published /\ Written
    /\ \A w \in Workers : Work(w)

-----------------------------------------------------------------------------
(* Facts.                                                                   *)

LEMMA Cast ==
    /\ Main \in Threads /\ Reader \in Threads /\ Main # Reader
    /\ \A w \in Workers : w \in Threads /\ w # Main /\ w # Reader /\ w \in Nat
  BY GopAssumption DEF Main, Reader, Threads, Workers

LEMMA EnvTyped ==
  ASSUME env \in Envs
  PROVE  /\ env.source \in {"file", "pipe", "cuts"}
         /\ env.frames \in Nat /\ env.length \in Nat /\ env.keyint \in Nat /\ env.keyint > 0
         /\ env.threads \in Nat /\ env.threads >= 1 /\ env.window \in Nat
         /\ env.abr \in BOOLEAN /\ env.cuts \subseteq Nat /\ IsFiniteSet(env.cuts)
         /\ env.flushes \in Nat
  BY GopAssumption

\* What an encoder appends comes of its calls.
LEMMA OutputTyped ==
  ASSUME NEW g \in Nat
  PROVE  /\ Output(g, <<"headers", g>>) \in SUBSET EncoderCalls
         /\ \A i \in Nat : Output(g, <<"frame", i>>) \in SUBSET EncoderCalls
         /\ env \in Envs => Flushed(g) \in SUBSET EncoderCalls
<1>1. <<"headers", g>> \in EncoderCalls /\ \A i \in Nat : <<"frame", i>> \in EncoderCalls
  BY DEF EncoderCalls
<1>2. \A n \in Nat : <<"flush", g, n>> \in EncoderCalls
  BY DEF EncoderCalls
<1>3. env \in Envs => \A n \in 1..env.flushes : n \in Nat
  BY EnvTyped
<1> QED
  BY <1>1, <1>2, <1>3 DEF Output, Flushed

LEMMA MinTwo == \A a, b \in Int : Min({a, b}) = IF a <= b THEN a ELSE b
<1> SUFFICES ASSUME NEW a \in Int, NEW b \in Int
             PROVE  Min({a, b}) = IF a <= b THEN a ELSE b
  OBVIOUS
<1>1. \A x \in {a, b} :
        (\A y \in {a, b} : x <= y) <=> x = IF a <= b THEN a ELSE b
  OBVIOUS
<1>2. (IF a <= b THEN a ELSE b) \in {a, b}
  OBVIOUS
<1> QED
  BY <1>1, <1>2 DEF Min

\* The table has only grown, the input has only gone on, and an abort is for
\* good.
Grows ==
    /\ Len(job'.gop_start) >= Len(job.gop_start)
    /\ \A i \in 1..Len(job.gop_start) : job'.gop_start[i] = job.gop_start[i]
    /\ job.gops_final => job'.gop_start = job.gop_start
    /\ job'.n_read >= job.n_read
    /\ job.eof => job'.eof /\ job'.n_read = job.n_read
    /\ job.abort => job'.abort

\* What was so of a GOP stays so.
LEMMA Steady ==
  ASSUME TypeOK, TypeOK', Grows, NEW g, Known(g)
  PROVE  /\ g \in Nat /\ Known(g)'
         /\ GopStart(g)' = GopStart(g) /\ GopStart(g + 1)' = GopStart(g + 1)
         /\ GopStart(g) \in Nat /\ GopStart(g + 1) \in Nat
         /\ \A i \in Nat : WholeTo(g, i) => WholeTo(g, i)'
         /\ Nothing(g) => Nothing(g)'
         /\ GopStart(g) < job.n_read => GopStart(g) < job'.n_read
<1>1. /\ job.gop_start \in Seq(Nat) /\ job'.gop_start \in Seq(Nat)
      /\ job.n_read \in Nat /\ job'.n_read \in Nat
  BY DEF TypeOK, Job
<1>2. /\ g \in Nat /\ g + 1 \in 1..Len(job.gop_start) /\ g + 2 \in 1..Len(job.gop_start)
      /\ (g + 1) + 1 = g + 2
  BY <1>1 DEF Known, NGops
<1>3. /\ GopStart(g)' = GopStart(g) /\ GopStart(g + 1)' = GopStart(g + 1)
      /\ GopStart(g) \in Nat /\ GopStart(g + 1) \in Nat
  <2>1. \A i \in 1..Len(job.gop_start) :
          job'.gop_start[i] = job.gop_start[i] /\ job.gop_start[i] \in Nat
    BY <1>1 DEF Grows
  <2> QED
    BY <1>2, <2>1 DEF GopStart
<1>4. Known(g)'
  BY <1>1, <1>2 DEF Known, NGops, Grows
<1>5. \A i \in Nat : WholeTo(g, i) => WholeTo(g, i)'
  BY <1>1, <1>3 DEF WholeTo, Grows
<1>6. Nothing(g) => Nothing(g)'
  BY <1>1, <1>3 DEF Nothing, Grows
<1> QED
  BY <1>1, <1>2, <1>3, <1>4, <1>5, <1>6 DEF Grows

\* A worker that stays where it is keeps its place in its GOP.
LEMMA SameWork ==
  ASSUME TypeOK, TypeOK', Grows, NEW w \in Workers, Work(w),
         pc'[w] = pc[w], loc'[w] = loc[w]
  PROVE  Work(w)'
<1>1. loc[w] \in Local /\ job.n_read \in Nat /\ job'.n_read \in Nat /\ job.abort \in BOOLEAN
  BY DEF TypeOK, Job
<1>2. CASE Known(loc[w].g)
  <2> DEFINE g == loc[w].g
  <2>1. /\ Known(g)' /\ GopStart(g)' = GopStart(g) /\ GopStart(g + 1)' = GopStart(g + 1)
        /\ \A i \in Nat : WholeTo(g, i) => WholeTo(g, i)'
        /\ Nothing(g) => Nothing(g)'
        /\ GopStart(g) < job.n_read => GopStart(g) < job'.n_read
    BY <1>2, Steady
  <2>2. loc[w].i \in Nat /\ loc[w].i \in Int
    BY <1>1 DEF Local
  <2>3. /\ loc[w].i <= job.n_read => loc[w].i <= job'.n_read
        /\ loc[w].i < job.n_read => loc[w].i < job'.n_read
    BY <1>1, <2>2 DEF Grows
  <2>4. (job.eof => job'.eof /\ job'.n_read = job.n_read) /\ (job.abort => job'.abort)
    BY DEF Grows
  <2> QED
    BY <2>1, <2>2, <2>3, <2>4 DEF Work, Stands, Busy
<1>3. CASE ~Known(loc[w].g)
  BY <1>3 DEF Work, Stands, Busy
<1> QED
  BY <1>2, <1>3

\* ... and what is published and written stays good.
LEMMA SamePublished ==
  ASSUME TypeOK, TypeOK', Grows, Published,
         job'.gop_done = job.gop_done, job'.gop_data = job.gop_data,
         job'.rc_ready = job.rc_ready, job'.rc_state = job.rc_state
  PROVE  Published'
<1>1. \A g \in job.gop_done \cup job.rc_ready :
        /\ Known(g)' /\ GopStart(g)' = GopStart(g)
        /\ \A i \in Nat : WholeTo(g, i) => WholeTo(g, i)'
        /\ Nothing(g) => Nothing(g)'
  BY Steady DEF Published
<1>2. \A g \in DOMAIN job.gop_data : job.gop_data[g].end \in Nat
  <2>1. job.gop_data \in UNION {[D -> Bytes] : D \in SUBSET Nat}
    BY DEF TypeOK, Job
  <2>2. PICK D \in SUBSET Nat : job.gop_data \in [D -> Bytes]
    BY <2>1
  <2> QED
    BY <2>2 DEF Bytes
<1> QED
  BY <1>1, <1>2 DEF Published, Good, Grows

LEMMA SameWritten ==
  ASSUME TypeOK, TypeOK', Grows, Written, out' = out
  PROVE  Written'
<1>1. \A i \in 1..Emitted :
        /\ Known(i - 1)' /\ GopStart(i - 1)' = GopStart(i - 1)
        /\ \A x \in Nat : WholeTo(i - 1, x) => WholeTo(i - 1, x)'
        /\ Nothing(i - 1) => Nothing(i - 1)'
  BY Steady DEF Written
<1>2. \A d \in Bytes : d.end \in Nat
  BY DEF Bytes
<1>3. Emitted' = Emitted
  BY DEF Emitted
<1> QED
  BY <1>1, <1>2, <1>3 DEF Written, Good

\* The queue was made of a table that is whole.
LEMMA SameOrder ==
  ASSUME OInv, Grows, plan' = plan
  PROVE  Order'
<1>1. plan.known => job'.gop_start = job.gop_start
  BY DEF OInv, Flow, Grows
<1> QED
  BY <1>1 DEF OInv, Order, NGops

\* Nothing happens to the frames or the table.
Frozen ==
    /\ job'.gop_start = job.gop_start /\ job'.gops_final = job.gops_final
    /\ job'.n_read = job.n_read /\ job'.eof = job.eof /\ job'.abort = job.abort

LEMMA SameFrames ==
  ASSUME Frozen
  PROVE  /\ NGops' = NGops
         /\ \A g : (Known(g)' <=> Known(g)) /\ GopStart(g)' = GopStart(g)
         /\ \A g : Nothing(g)' <=> Nothing(g)
         /\ \A g, i : WholeTo(g, i)' <=> WholeTo(g, i)
         /\ \A d, g : Good(d, g)' <=> Good(d, g)
         /\ \A at, l : Stands(at, l)' <=> Stands(at, l)
<1>1. NGops' = NGops
  BY DEF Frozen, NGops
<1>2. \A g : (Known(g)' <=> Known(g)) /\ GopStart(g)' = GopStart(g)
  BY <1>1 DEF Frozen, Known, GopStart
<1>3. \A g : Nothing(g)' <=> Nothing(g)
  BY DEF Frozen, Nothing, GopStart
<1>4. \A g, i : WholeTo(g, i)' <=> WholeTo(g, i)
  BY DEF Frozen, WholeTo, GopStart
<1>5. \A d, g : Good(d, g)' <=> Good(d, g)
  BY DEF Frozen, Good, WholeTo, GopStart
<1>6. \A at, l : Stands(at, l)' <=> Stands(at, l)
  BY <1>1 DEF Frozen, Stands, Known, Nothing, WholeTo, GopStart, NGops
<1> QED
  BY <1>1, <1>2, <1>3, <1>4, <1>5, <1>6

\* Nothing is handed out.
LEMMA SameHandouts ==
  ASSUME OInv, TypeOK', Grows, job'.next_gop = job.next_gop, job'.pull_gop = job.pull_gop,
         \A w \in Workers : (pc'[w] \in AtWork => pc[w] \in AtWork) /\ loc'[w].k = loc[w].k
  PROVE  Handouts'
<1>1. \A g : Known(g) => Known(g)'
  BY Steady DEF OInv
<1> QED
  BY <1>1 DEF OInv, Handouts, AtWork, Busy

-----------------------------------------------------------------------------
(* The initial state, and the reader.                                       *)

LEMMA Division ==
  ASSUME NEW a \in Nat, NEW k \in Nat, k > 0
  PROVE  a \div k \in Nat /\ (a \div k) * k <= a
  OBVIOUS

\* The split at every keyint frames is in order.
LEMMA ArithmeticTable ==
  ASSUME env \in Envs, NEW n \in Nat
  PROVE  /\ Arithmetic(n) \in Seq(Nat) /\ Len(Arithmetic(n)) >= 1
         /\ \A i \in 1..Len(Arithmetic(n)) - 1 : Arithmetic(n)[i] < Arithmetic(n)[i + 1]
<1> DEFINE k == env.keyint
           m == (n + k - 1) \div k
<1>1. k \in Nat /\ k > 0
  BY EnvTyped
<1>2. m \in Nat /\ m * k <= n + k - 1
  BY <1>1, Division
<1> DEFINE cut(i) == Min({n, (i - 1) * k})
<1>3. Arithmetic(n) = [i \in 1..m + 1 |-> cut(i)]
  BY DEF Arithmetic
<1> HIDE DEF k, m
<1>4. \A i \in 1..m + 1 : (i - 1) * k \in Nat /\ cut(i) \in Nat
  <2> SUFFICES ASSUME NEW i \in 1..m + 1 PROVE (i - 1) * k \in Nat /\ cut(i) \in Nat
    OBVIOUS
  <2>1. i - 1 \in Nat
    BY <1>2
  <2>2. (i - 1) * k \in Nat
    BY <1>1, <2>1
  <2> QED
    BY <2>2, MinTwo
<1>5. \A i \in 1..m : cut(i) < cut(i + 1)
  <2> SUFFICES ASSUME NEW i \in 1..m PROVE cut(i) < cut(i + 1)
    OBVIOUS
  <2>1. i \in Nat /\ m \in Nat /\ i <= m /\ (i + 1) - 1 = i
    BY <1>2
  <2>2. (i - 1) * k < n /\ (i - 1) * k < i * k /\ i * k \in Nat /\ (i - 1) * k \in Int
    <3>1. (i - 1) * k = i * k - k /\ i * k \in Nat
      BY <1>1, <2>1
    <3>2. m * k = i * k + (m - i) * k /\ (m - i) * k \in Nat
      <4>1. m - i \in Nat
        BY <2>1
      <4>2. (m - i) * k \in Nat
        BY <1>1, <4>1
      <4> QED
        BY <1>1, <2>1, <4>2
    <3> QED
      BY <1>1, <1>2, <3>1, <3>2
  <2>3. cut(i) = (i - 1) * k
    BY <2>2, MinTwo
  <2>4. cut(i + 1) \in {n, i * k}
    BY <2>1, <2>2, MinTwo
  <2> QED
    BY <2>2, <2>3, <2>4
<1> HIDE DEF cut
<1>6. Len(Arithmetic(n)) = m + 1 /\ Arithmetic(n) \in Seq(Nat)
  BY <1>2, <1>3, <1>4
<1> QED
  BY <1>2, <1>3, <1>5, <1>6

LEMMA WindowTyped == ASSUME env \in Envs PROVE Window(env) \in Int
<1>1. /\ env.threads \in Nat /\ env.keyint \in Nat /\ env.keyint > 0 /\ env.length \in Nat
      /\ env.window \in Nat /\ ReadAhead \in Nat
  BY EnvTyped, GopAssumption
<1>2. FileWindow(env) \in Int
  <2> DEFINE all == (env.threads + 1) * env.keyint
             gops == (env.length + env.keyint - 1) \div env.keyint
  <2>1. all \in Nat /\ gops \in Nat
    BY <1>1, Division
  <2> DEFINE need == Min({all, env.length})
             few == Min({gops, env.threads})
  <2>2. need \in Nat /\ few \in Nat
    BY <1>1, <2>1, MinTwo
  <2>3. FileWindow(env) = Min({need, (few + 1) * ReadAhead})
    BY DEF FileWindow
  <2> HIDE DEF need, few
  <2>4. (few + 1) * ReadAhead \in Nat
    BY <1>1, <2>2
  <2> QED
    BY <2>2, <2>3, <2>4, MinTwo
<1>3. (env.threads + 1) * env.keyint \in Int /\ Endless \in Int
  BY <1>1 DEF Endless
<1> QED
  BY <1>1, <1>2, <1>3 DEF Window

LEMMA InitOInv == Init => OInv
<1> SUFFICES ASSUME Init PROVE OInv
  OBVIOUS
<1>1. env \in Envs /\ env.length \in Nat /\ env.source \in {"file", "pipe", "cuts"}
  BY EnvTyped DEF Init
<1>2. PICK fin \in BOOLEAN, table \in Seq(Nat) :
        /\ fin <=> env.source = "file"
        /\ table = IF fin THEN Arithmetic(env.length) ELSE <<0>>
  <2>1. Arithmetic(env.length) \in Seq(Nat) /\ <<0>> \in Seq(Nat)
    BY <1>1, ArithmeticTable
  <2> QED
    BY <2>1
<1>3. job = [gop_start |-> table, gops_final |-> fin,
             n_read |-> 0, freed |-> {}, window |-> Window(env), waiting |-> 0,
             eof |-> FALSE, rerr |-> FALSE, abort |-> FALSE,
             next_gop |-> 0, pull_gop |-> <<>>,
             gop_done |-> {}, gop_data |-> <<>>, rc_ready |-> {}, rc_state |-> {}]
  <2>1. CASE fin
    BY <1>2, <2>1 DEF Init
  <2>2. CASE ~fin
    BY <1>2, <2>2 DEF Init
  <2> QED
    BY <2>1, <2>2
<1>11. /\ job.gop_start = table /\ (job.gops_final <=> fin) /\ job.n_read = 0 /\ ~job.eof
       /\ ~job.abort /\ job.next_gop = 0 /\ job.pull_gop = <<>> /\ job.gop_done = {}
       /\ job.gop_data = <<>> /\ job.rc_ready = {} /\ job.rc_state = {}
  BY <1>3
<1>4. /\ pc[Main] = "split" /\ pc[Reader] = "header" /\ \A w \in Workers : pc[w] = "none"
      /\ pc \in [Threads -> Labels]
  BY Cast DEF Init, Labels
<1>5. TypeOK
  <2>1. <<>> \in UNION {[D -> Bytes] : D \in SUBSET Nat}
    <3>1. <<>> = [x \in {} |-> x]
      OBVIOUS
    <3>2. [x \in {} |-> x] \in [{} -> Bytes] /\ {} \in SUBSET Nat
      OBVIOUS
    <3> QED
      BY <3>1, <3>2
  <2>2. Window(env) \in Int
    BY <1>1, WindowTyped
  <2>3. job \in Job
    <3>1. <<>> \in Seq(Int)
      OBVIOUS
    <3> QED
      BY <1>2, <1>3, <2>1, <2>2, <3>1 DEF Job
  <2>4. loc \in [Workers -> Local]
    <3>1. None \in Int /\ <<>> \in Carries
      BY DEF None, Carries
    <3> QED
      BY <3>1 DEF Init, Local
  <2>5. plan \in Settings /\ out \in Seq(Outputs)
    BY DEF Init, Settings
  <2> QED
    BY <1>1, <1>4, <2>3, <2>4, <2>5 DEF TypeOK
<1>6. Table
  <2>1. CASE fin
    BY <1>1, <1>2, <1>11, <2>1, ArithmeticTable DEF Table, NGops
  <2>2. CASE ~fin
    <3>1. table = <<0>> /\ Len(table) = 1 /\ table[1] = 0
      BY <1>2, <2>2
    <3> QED
      BY <1>11, <3>1 DEF Table, NGops
  <2> QED
    BY <2>1, <2>2
<1>7. Flow
  <2>1. out = <<>> /\ plan.order = <<>> /\ ~plan.known
    BY DEF Init
  <2> QED
    BY <1>1, <1>2, <1>4, <1>11, <2>1 DEF Flow, Unstarted
<1>8. Published
  <2>1. DOMAIN job.gop_data = {}
    BY <1>11
  <2> QED
    BY <1>11, <2>1 DEF Published
<1>9. Written
  BY DEF Init, Written, Emitted
<1>10. \A w \in Workers : Work(w)
  BY <1>4 DEF Work, Stands, Busy
<1>12. Order
  BY DEF Init, Order
<1>13. Handouts
  BY <1>4, <1>11 DEF Handouts, AtWork, Busy
<1> QED
  BY <1>5, <1>6, <1>7, <1>8, <1>9, <1>10, <1>12, <1>13 DEF OInv

\* A step of the reader, or of the main thread once the workers may run: it
\* moves nobody else and the table only grows.
LEMMA OtherStep ==
  ASSUME OInv, NEW t \in {Main, Reader}, NEW l \in Labels, pc' = [pc EXCEPT ![t] = l],
         UNCHANGED <<env, loc, plan, out>>, job' \in Job,
         Grows, Table', Flow',
         job'.next_gop = job.next_gop, job'.pull_gop = job.pull_gop,
         job'.gop_done = job.gop_done, job'.gop_data = job.gop_data,
         job'.rc_ready = job.rc_ready, job'.rc_state = job.rc_state
  PROVE  OInv'
<1>1. TypeOK'
  BY Cast DEF OInv, TypeOK
<1>2. Published' /\ Written'
  BY <1>1, SamePublished, SameWritten DEF OInv
<1>3. ASSUME NEW w \in Workers PROVE Work(w)'
  <2>1. pc'[w] = pc[w] /\ loc'[w] = loc[w]
    BY Cast DEF OInv, TypeOK
  <2> QED
    BY <1>1, <2>1, SameWork DEF OInv
<1>4. Handouts'
  <2>1. \A w \in Workers : pc'[w] = pc[w] /\ loc'[w] = loc[w]
    BY Cast DEF OInv, TypeOK
  <2> QED
    BY <1>1, <2>1, SameHandouts
<1> QED
  BY <1>1, <1>2, <1>3, <1>4, SameOrder DEF OInv

\* Nothing of the table moves.
LEMMA SameTable ==
  ASSUME OInv, job' \in Job, job'.gop_start = job.gop_start,
         job'.n_read = job.n_read, job.gops_final => job'.gops_final,
         job.eof => job'.eof, job.abort => job'.abort
  PROVE  Grows /\ Table'
<1>1. job.n_read \in Nat /\ job.gop_start \in Seq(Nat) /\ job.gops_final \in BOOLEAN
  BY DEF OInv, TypeOK, Job
<1>2. Grows
  BY <1>1 DEF Grows
<1>3. Table'
  BY <1>1 DEF OInv, Table, NGops
<1> QED
  BY <1>2, <1>3

\* A step of the reader: it may publish a frame, close a GOP there, and stop.
LEMMA ReaderMoves ==
  ASSUME OInv, ~job.eof, NEW l \in Labels, pc' = [pc EXCEPT ![Reader] = l],
         NEW n \in {job.n_read, job.n_read + 1}, NEW T \in {job.gop_start, Append(job.gop_start, n)},
         NEW r \in BOOLEAN, NEW a \in BOOLEAN, NEW e \in BOOLEAN, NEW f \in BOOLEAN,
         job' = [job EXCEPT !.n_read = n, !.gop_start = T, !.rerr = r, !.abort = a, !.eof = e,
                            !.gops_final = f],
         e <=> l = "gone", e => f, job.gops_final => f, job.abort => a,
         T # job.gop_start => ~job.gops_final /\ job.gop_start[NGops + 1] < n,
         UNCHANGED <<env, loc, plan, out>>
  PROVE  OInv'
<1>1. job \in Job /\ pc \in [Threads -> Labels]
  BY DEF OInv, TypeOK
<1>2. /\ job.n_read \in Nat /\ n \in Nat /\ job.gop_start \in Seq(Nat) /\ T \in Seq(Nat)
      /\ job.gops_final \in BOOLEAN /\ Len(job.gop_start) >= 1
      /\ \A i \in 1..Len(job.gop_start) : job.gop_start[i] \in Nat
  <2>1. job.n_read \in Nat /\ job.gop_start \in Seq(Nat) /\ job.gops_final \in BOOLEAN
    BY <1>1 DEF Job
  <2>2. n \in Nat
    BY <2>1
  <2>3. T \in Seq(Nat)
    <3>1. Append(job.gop_start, n) \in Seq(Nat)
      BY <2>1, <2>2
    <3> QED
      BY <2>1, <3>1
  <2> QED
    BY <2>1, <2>2, <2>3, SMTT(60) DEF OInv, Table
<1>3. job' \in Job
  <2>1. T \in Seq(Nat) /\ n \in Nat
    BY <1>2
  <2> QED
    <3>1. [job EXCEPT !.n_read = n, !.gop_start = T, !.rerr = r, !.abort = a, !.eof = e,
                      !.gops_final = f] \in Job
      BY ONLY <1>1, <2>1, r \in BOOLEAN, a \in BOOLEAN, e \in BOOLEAN, f \in BOOLEAN
         DEF Job
    <3> QED
      BY ONLY <3>1, job' = [job EXCEPT !.n_read = n, !.gop_start = T, !.rerr = r,
                                       !.abort = a, !.eof = e, !.gops_final = f]
<1>4. /\ job'.n_read = n /\ job'.gop_start = T /\ job'.abort = a /\ job'.eof = e
      /\ job'.gops_final = f /\ job'.next_gop = job.next_gop /\ job'.pull_gop = job.pull_gop
      /\ job'.gop_done = job.gop_done /\ job'.gop_data = job.gop_data
      /\ job'.rc_ready = job.rc_ready /\ job'.rc_state = job.rc_state
  BY <1>1 DEF Job
<1>5. /\ pc'[Reader] = l /\ pc'[Main] = pc[Main] /\ \A w \in Workers : pc'[w] = pc[w]
  BY <1>1, Cast
<1>6. Flow'
  BY <1>4, <1>5 DEF OInv, Flow, Unstarted
<1>7. CASE T = job.gop_start
  <2>1. Grows
    BY <1>2, <1>4, <1>7 DEF Grows
  <2>2. Table'
    BY <1>2, <1>4, <1>7 DEF OInv, Table, NGops
  <2> QED
    BY <1>3, <1>4, <1>6, <2>1, <2>2, OtherStep DEF OInv, TypeOK
<1>8. CASE T # job.gop_start
  <2>1. /\ T = Append(job.gop_start, n) /\ Len(T) = Len(job.gop_start) + 1
        /\ \A i \in 1..Len(job.gop_start) : T[i] = job.gop_start[i]
        /\ T[Len(job.gop_start) + 1] = n
    BY <1>2, <1>8
  <2>2. Grows
    BY <1>2, <1>4, <2>1 DEF Grows
  <2>3. Table'
    <3>1. ASSUME NEW i \in 1..Len(T) - 1 PROVE T[i] < T[i + 1]
      <4>1. CASE i = Len(job.gop_start)
        BY <1>2, <1>8, <2>1, <4>1 DEF NGops
      <4>2. CASE i # Len(job.gop_start)
        <5>1. i \in 1..NGops /\ i + 1 \in 1..Len(job.gop_start) /\ i \in 1..Len(job.gop_start)
          BY <1>2, <2>1, <4>2 DEF NGops
        <5> QED
          BY <2>1, <5>1 DEF OInv, Table
      <4> QED
        BY <4>1, <4>2
    <3>2. Len(T) >= 1 /\ T[Len(T)] <= n /\ Len(T) \in Nat
      BY <1>2, <2>1
    <3> QED
      BY <1>4, <3>1, <3>2 DEF Table, NGops
  <2> QED
    BY <1>3, <1>4, <1>6, <2>2, <2>3, OtherStep DEF OInv, TypeOK
<1> QED
  BY <1>7, <1>8

LEMMA ReaderInv == ASSUME OInv, ReaderStep PROVE OInv'
<1>1. /\ job \in Job /\ job.n_read \in Nat /\ job.gop_start \in Seq(Nat)
      /\ pc \in [Threads -> Labels] /\ job.rerr \in BOOLEAN /\ job.abort \in BOOLEAN
      /\ job.eof \in BOOLEAN /\ job.gops_final \in BOOLEAN /\ Len(job.gop_start) >= 1
  BY DEF OInv, TypeOK, Job, Table
<1>2. UNCHANGED <<env, loc, plan, out>> /\ pc[Reader] # "gone" /\ pc[Reader] \in Labels
  BY <1>1, Cast DEF ReaderStep, ReadHeader, ReadRoom, ReadFrame, ReadTail, Runs
<1>3. ~job.eof
  BY <1>2 DEF OInv, Flow
<1>4. job = [job EXCEPT !.n_read = job.n_read, !.gop_start = job.gop_start,
                        !.rerr = job.rerr, !.abort = job.abort, !.eof = FALSE,
                        !.gops_final = job.gops_final]
  BY <1>1, <1>3 DEF Job
<1>5. CASE ReaderFails
  <2>1. /\ job' = [job EXCEPT !.n_read = job.n_read, !.gop_start = job.gop_start,
                              !.rerr = TRUE, !.abort = TRUE, !.eof = TRUE, !.gops_final = TRUE]
        /\ pc' = [pc EXCEPT ![Reader] = "gone"] /\ "gone" \in Labels
    BY <1>1, <1>5 DEF ReaderFails, Goes, Job, Labels
  <2> QED
    BY <1>1, <1>2, <1>3, <2>1, ReaderMoves
<1>6. CASE job' = job /\ \E l \in Labels \ {"gone"} : pc' = [pc EXCEPT ![Reader] = l]
  <2>1. PICK l \in Labels \ {"gone"} : pc' = [pc EXCEPT ![Reader] = l]
    BY <1>6
  <2> QED
    BY <1>1, <1>2, <1>3, <1>4, <1>6, <2>1, ReaderMoves
<1>7. CASE ReadHeader
  BY <1>5, <1>6, <1>7 DEF ReadHeader, Goes, Labels
<1>8. CASE ReadRoom
  <2>1. pc = [pc EXCEPT ![Reader] = pc[Reader]]
    BY <1>1
  <2> QED
    BY <1>2, <1>6, <1>8, <2>1 DEF ReadRoom, Waits, Goes, Labels
<1>9. CASE ReadFrame
  <2> DEFINE n == job.n_read + 1
             ends == ~job.gops_final /\ n % env.keyint = 0
  <2>1. CASE ~ReaderFails
    <3>1. CASE ends /\ Bad("table")
      <4>1. /\ job' = [job EXCEPT !.n_read = n, !.gop_start = job.gop_start,
                                  !.rerr = TRUE, !.abort = TRUE, !.eof = TRUE, !.gops_final = TRUE]
            /\ pc' = [pc EXCEPT ![Reader] = "gone"] /\ "gone" \in Labels
        BY <1>1, <1>9, <2>1, <3>1 DEF ReadFrame, Goes, Job, Labels
      <4> QED
        BY <1>1, <1>2, <1>3, <4>1, ReaderMoves
    <3>2. CASE ~(ends /\ Bad("table"))
      <4>1. PICK T \in {job.gop_start, Append(job.gop_start, n)} :
              /\ T # job.gop_start => ~job.gops_final
              /\ job' = [job EXCEPT !.n_read = n, !.gop_start = T]
              /\ pc' = [pc EXCEPT ![Reader] = "header"] /\ "header" \in Labels
        BY <1>9, <2>1, <3>2 DEF ReadFrame, Goes, Labels, Pushed
      <4>2. job' = [job EXCEPT !.n_read = n, !.gop_start = T, !.rerr = job.rerr,
                               !.abort = job.abort, !.eof = FALSE, !.gops_final = job.gops_final]
        BY <1>1, <1>3, <4>1 DEF Job
      <4>3. ~job.gops_final => job.gop_start[NGops + 1] < n
        <5>1. NGops + 1 \in 1..Len(job.gop_start)
          BY <1>1 DEF NGops
        <5>2. job.gop_start[NGops + 1] \in Nat
          BY <1>1, <5>1
        <5> QED
          BY <1>1, <5>2 DEF OInv, Table
      <4> QED
        BY <1>1, <1>2, <1>3, <4>1, <4>2, <4>3, ReaderMoves
    <3> QED
      BY <3>1, <3>2
  <2> QED
    BY <1>5, <2>1
<1>10. CASE ReadTail
  <2>1. CASE ~ReaderFails
    <3>1. PICK T \in {job.gop_start, Append(job.gop_start, job.n_read)} :
            /\ T # job.gop_start => ~job.gops_final /\ job.n_read > Last(job.gop_start)
            /\ job' = [job EXCEPT !.eof = TRUE, !.gops_final = TRUE, !.gop_start = T]
            /\ pc' = [pc EXCEPT ![Reader] = "gone"] /\ "gone" \in Labels
      BY <1>10, <2>1 DEF ReadTail, Goes, Labels, Pushed
    <3>2. job' = [job EXCEPT !.n_read = job.n_read, !.gop_start = T, !.rerr = job.rerr,
                             !.abort = job.abort, !.eof = TRUE, !.gops_final = TRUE]
      BY <1>1, <3>1 DEF Job
    <3>3. T # job.gop_start => job.gop_start[NGops + 1] < job.n_read
      <4>1. NGops + 1 = Len(job.gop_start) /\ Len(job.gop_start) \in 1..Len(job.gop_start)
        BY <1>1 DEF NGops
      <4>2. job.gop_start[NGops + 1] \in Nat
        BY <1>1, <4>1
      <4> QED
        BY <1>1, <3>1, <4>1, <4>2 DEF Last
    <3> QED
      BY <1>1, <1>2, <1>3, <3>1, <3>2, <3>3, ReaderMoves
  <2> QED
    BY <1>5, <2>1
<1> QED
  BY <1>7, <1>8, <1>9, <1>10 DEF ReaderStep

-----------------------------------------------------------------------------
(* The ranks of a finite set under a total order.                           *)

\* Each rank is somebody's, and the order of the elements is that of the ranks.
LEMMA Ranks ==
  ASSUME NEW S, IsFiniteSet(S), NEW R,
         \A x \in S : <<x, x>> \notin R,
         \A x, y \in S : x # y => <<x, y>> \in R \/ <<y, x>> \in R,
         \A x, y, z \in S : <<x, y>> \in R /\ <<y, z>> \in R => <<x, z>> \in R
  PROVE  /\ Cardinality(S) \in Nat
         /\ \A x \in S : Cardinality({y \in S : <<y, x>> \in R}) \in Nat
         /\ \A x, y \in S : <<x, y>> \in R =>
              Cardinality({z \in S : <<z, x>> \in R}) < Cardinality({z \in S : <<z, y>> \in R})
         /\ \A k \in 1..Cardinality(S) :
              \E x \in S : Cardinality({y \in S : <<y, x>> \in R}) = k - 1
<1> DEFINE Below(x) == {y \in S : <<y, x>> \in R}
<1>1. PICK n \in Nat : n = Cardinality(S)
  BY FS_CardinalityType
<1>2. \A x \in S : IsFiniteSet(Below(x)) /\ Cardinality(Below(x)) \in Nat
  <2> TAKE x \in S
  <2>1. Below(x) \subseteq S
    OBVIOUS
  <2>2. IsFiniteSet(Below(x))
    BY <2>1, FS_Subset
  <2> QED
    BY <2>2, FS_CardinalityType
<1>3. \A x, y \in S : <<x, y>> \in R => Cardinality(Below(x)) < Cardinality(Below(y))
  <2> SUFFICES ASSUME NEW x \in S, NEW y \in S, <<x, y>> \in R
               PROVE  Cardinality(Below(x)) < Cardinality(Below(y))
    OBVIOUS
  <2>1. Below(x) \subseteq Below(y) /\ x \in Below(y) /\ x \notin Below(x)
    OBVIOUS
  <2> HIDE DEF Below
  <2>2. Cardinality(Below(x)) <= Cardinality(Below(y))
        /\ Cardinality(Below(x)) # Cardinality(Below(y))
    BY <1>2, <2>1, FS_Subset
  <2> QED
    BY <1>2, <2>2
<1>4. \A x \in S : Cardinality(Below(x)) \in 0..n - 1
  <2> TAKE x \in S
  <2>1. Below(x) \subseteq S /\ x \notin Below(x)
    OBVIOUS
  <2> HIDE DEF Below
  <2>2. Cardinality(Below(x)) <= n /\ Cardinality(Below(x)) # n
    BY <1>1, <2>1, FS_Subset
  <2> QED
    BY <1>1, <1>2, <2>2
<1> DEFINE f == [x \in S |-> Cardinality(Below(x))]
<1>5. f \in Injection(S, 0..n - 1)
  <2>1. f \in [S -> 0..n - 1]
    BY <1>4
  <2>2. ASSUME NEW x \in S, NEW y \in S, x # y PROVE f[x] # f[y]
    <3>1. Cardinality(Below(x)) < Cardinality(Below(y))
          \/ Cardinality(Below(y)) < Cardinality(Below(x))
      BY <1>3, <2>2, ZenonT(60)
    <3> HIDE DEF Below
    <3> QED
      BY <1>2, <3>1
  <2> HIDE DEF f
  <2> QED
    BY <2>1, <2>2 DEF Injection, IsInjective
<1>6. f \in Surjection(S, 0..n - 1)
  <2>1. IsFiniteSet(0..n - 1) /\ Cardinality(0..n - 1) = n
    BY FS_Interval
  <2> HIDE DEF f
  <2> QED
    BY <1>1, <1>5, <2>1, FS_Injection
<1>7. \A k \in 1..n : \E x \in S : f[x] = k - 1
  <2> TAKE k \in 1..n
  <2>1. k - 1 \in 0..n - 1
    BY <1>1
  <2> HIDE DEF f
  <2> QED
    BY <1>6, <2>1 DEF Surjection
<1> QED
  BY <1>1, <1>2, <1>3, <1>7

\* The cuts in order.
LEMMA CutsRanked ==
  ASSUME NEW S \in SUBSET Nat, IsFiniteSet(S), NEW q,
         q = [k \in 1..Cardinality(S) |->
                CHOOSE x \in S : Cardinality({y \in S : y < x}) = k - 1]
  PROVE  /\ q \in Seq(Nat) /\ Len(q) = Cardinality(S) /\ \A i \in 1..Len(q) : q[i] \in S
         /\ \A i \in 1..Len(q) : i + 1 <= Len(q) => q[i] < q[i + 1]
<1> DEFINE R == {p \in S \X S : p[1] < p[2]}
           Rank(x) == Cardinality({y \in S : y < x})
<1>1. \A x, y \in S : <<x, y>> \in R <=> x < y
  OBVIOUS
<1> HIDE DEF R
<1>2. \A x \in S : {y \in S : <<y, x>> \in R} = {y \in S : y < x}
  BY <1>1
<1>7. /\ Cardinality(S) \in Nat /\ \A x \in S : Rank(x) \in Nat
      /\ \A x, y \in S : x < y => Rank(x) < Rank(y)
      /\ \A k \in 1..Cardinality(S) : \E x \in S : Rank(x) = k - 1
  <2>1. /\ \A x \in S : <<x, x>> \notin R
        /\ \A x, y \in S : x # y => <<x, y>> \in R \/ <<y, x>> \in R
        /\ \A x, y, z \in S : <<x, y>> \in R /\ <<y, z>> \in R => <<x, z>> \in R
    BY <1>1
  <2>2. /\ Cardinality(S) \in Nat
        /\ \A x \in S : Cardinality({y \in S : <<y, x>> \in R}) \in Nat
        /\ \A x, y \in S : <<x, y>> \in R =>
             Cardinality({z \in S : <<z, x>> \in R}) < Cardinality({z \in S : <<z, y>> \in R})
        /\ \A k \in 1..Cardinality(S) :
             \E x \in S : Cardinality({y \in S : <<y, x>> \in R}) = k - 1
    BY <2>1, Ranks
  <2> QED
    BY <1>1, <1>2, <2>2
<1> HIDE DEF Rank
<1>8. PICK n \in Nat : n = Cardinality(S)
  BY <1>7
<1>3. q = [k \in 1..n |-> CHOOSE x \in S : Rank(x) = k - 1]
  BY <1>8 DEF Rank
<1>4. \A k \in 1..n : q[k] \in S /\ Rank(q[k]) = k - 1
  BY <1>3, <1>7, <1>8
<1>5. q \in Seq(Nat) /\ Len(q) = n
  <2>1. q \in [1..n -> Nat]
    BY <1>3, <1>4
  <2> QED
    BY ONLY n \in Nat, <2>1
<1>6. ASSUME NEW i \in 1..n, i + 1 <= n PROVE q[i] < q[i + 1]
  <2>1. i + 1 \in 1..n
    BY <1>6
  <2>2. q[i] \in S /\ q[i + 1] \in S /\ Rank(q[i]) = i - 1 /\ Rank(q[i + 1]) = i
    <3>1. (i + 1) - 1 = i
      OBVIOUS
    <3>2. Rank(q[i + 1]) = (i + 1) - 1 /\ q[i + 1] \in S
      BY ONLY <1>4, <2>1
    <3> QED
      BY ONLY <1>4, <3>1, <3>2, i \in 1..n
  <2>3. PICK a \in S, b \in S : a = q[i] /\ b = q[i + 1] /\ Rank(a) = i - 1 /\ Rank(b) = i
    BY <2>2
  <2>4. a \in Nat /\ b \in Nat /\ i \in Nat
    OBVIOUS
  <2>5. ~(b < a) /\ a # b
    BY ONLY <1>7, <2>3, <2>4
  <2>6. a < b
    BY ONLY <2>4, <2>5
  <2> QED
    BY <2>3, <2>6
<1> QED
  BY <1>4, <1>5, <1>6, <1>8

\* The length of a GOP that exists is a number.
LEMMA Lengths ==
  ASSUME TypeOK
  PROVE  /\ NGops \in Int /\ Len(job.gop_start) \in Nat
         /\ \A g : Known(g) => GopLen(g) \in Int /\ GopStart(g) \in Nat /\ g \in Nat
<1>1. job.gop_start \in Seq(Nat)
  BY DEF TypeOK, Job
<1>2. NGops \in Int /\ Len(job.gop_start) \in Nat
  BY <1>1 DEF NGops
<1>3. ASSUME NEW g, Known(g) PROVE GopLen(g) \in Int /\ GopStart(g) \in Nat /\ g \in Nat
  <2>1. g \in Nat /\ g + 1 \in 1..Len(job.gop_start) /\ (g + 1) + 1 \in 1..Len(job.gop_start)
    BY <1>2, <1>3 DEF Known, NGops
  <2>2. \A i \in 1..Len(job.gop_start) : job.gop_start[i] \in Nat
    BY <1>1
  <2> QED
    BY <2>1, <2>2 DEF GopLen, GopStart
<1> QED
  BY <1>2, <1>3

\* The queue, longest GOP first, hands each one out once.
Queue(S) ==
    [k \in 1..Cardinality(S) |-> CHOOSE x \in S : Cardinality({y \in S : Before(y, x)}) = k - 1]

LEMMA QueueRanked ==
  ASSUME TypeOK, NEW S, S = 0..NGops - 1, NEW q, q = Queue(S)
  PROVE  /\ q \in Seq(Nat) /\ (NGops > 0 => Len(q) = NGops)
         /\ \A i \in 1..Len(q) : q[i] \in S
         /\ \A i, j \in 1..Len(q) : q[i] = q[j] => i = j
<1> DEFINE R == {p \in S \X S : Before(p[1], p[2])}
           Rank(x) == Cardinality({y \in S : Before(y, x)})
<1>0. NGops \in Int /\ IsFiniteSet(S) /\ (NGops > 0 => Cardinality(S) = NGops)
  <2>1. NGops \in Int
    BY Lengths
  <2> QED
    BY <2>1, FS_Interval
<1>1. \A x, y \in S : <<x, y>> \in R <=> Before(x, y)
  OBVIOUS
<1> HIDE DEF R
<1>2. \A x \in S : {y \in S : <<y, x>> \in R} = {y \in S : Before(y, x)}
  BY <1>1
<1>3. \A x \in S : x \in Int /\ GopLen(x) \in Int
  BY <1>0, Lengths DEF Known
<1>4. /\ Cardinality(S) \in Nat
      /\ \A k \in 1..Cardinality(S) : \E x \in S : Rank(x) = k - 1
  <2>1. /\ \A x \in S : <<x, x>> \notin R
        /\ \A x, y \in S : x # y => <<x, y>> \in R \/ <<y, x>> \in R
        /\ \A x, y, z \in S : <<x, y>> \in R /\ <<y, z>> \in R => <<x, z>> \in R
    BY <1>1, <1>3 DEF Before
  <2>2. /\ Cardinality(S) \in Nat
        /\ \A k \in 1..Cardinality(S) :
             \E x \in S : Cardinality({y \in S : <<y, x>> \in R}) = k - 1
    <3>1. IsFiniteSet(S)
      BY <1>0
    <3> QED
      BY ONLY <2>1, <3>1, Ranks
  <2> QED
    BY <1>2, <2>2
<1> HIDE DEF Rank
<1>5. PICK n \in Nat : n = Cardinality(S)
  BY <1>4
<1>6. q = [k \in 1..n |-> CHOOSE x \in S : Rank(x) = k - 1]
  BY <1>5 DEF Rank, Queue
<1>7. \A k \in 1..n : q[k] \in S /\ Rank(q[k]) = k - 1
  BY <1>4, <1>5, <1>6
<1>8. q \in Seq(Nat) /\ Len(q) = n
  <2>1. S \subseteq Nat
    BY <1>0
  <2>2. q \in [1..n -> Nat]
    BY <1>6, <1>7, <2>1
  <2> QED
    BY ONLY n \in Nat, <2>2
<1>9. \A i, j \in 1..n : q[i] = q[j] => i = j
  BY ONLY <1>7, n \in Nat
<1> QED
  BY ONLY <1>0, <1>5, <1>7, <1>8, <1>9

-----------------------------------------------------------------------------
(* The main thread.                                                         *)

\* A step of the main thread before the workers start.
LEMMA BeforeStart ==
  ASSUME OInv, Unstarted, NEW l \in {"plan", "join"}, pc' = [pc EXCEPT ![Main] = l],
         UNCHANGED <<env, loc, out>>, job' \in Job, plan' \in Settings,
         plan'.order = plan.order, job'.next_gop = job.next_gop, job'.pull_gop = job.pull_gop,
         job'.gop_done = job.gop_done, job'.gop_data = job.gop_data,
         job'.rc_ready = job.rc_ready, job'.rc_state = job.rc_state,
         Table', Flow'
  PROVE  OInv'
<1>1. l \in Labels
  BY DEF Labels
<1>2. TypeOK'
  BY <1>1, Cast DEF OInv, TypeOK
<1>3. \A w \in Workers : pc'[w] = "none"
  BY Cast DEF OInv, TypeOK, Flow
<1>4. \A w \in Workers : Work(w)'
  BY <1>3 DEF Work, Stands, Busy
<1>5. Published'
  <2>1. /\ job'.gop_done = {} /\ job'.gop_data = <<>> /\ job'.rc_ready = {}
        /\ job'.rc_state = {}
    BY DEF OInv, Flow
  <2>2. DOMAIN job'.gop_data = {}
    BY <2>1
  <2> QED
    BY <2>1, <2>2 DEF Published
<1>6. Written'
  BY DEF OInv, Flow, Written, Emitted
<1>7. Order'
  BY DEF OInv, Flow, Order
<1>8. Handouts'
  <2>1. job'.next_gop = 0 /\ job'.pull_gop = <<>>
    BY DEF OInv, Flow
  <2> QED
    BY <1>3, <2>1 DEF Handouts, AtWork, Busy
<1> QED
  BY <1>2, <1>4, <1>5, <1>6, <1>7, <1>8 DEF OInv

\* The GOP table of the cuts is in order.
LEMMA CutsInOrder ==
  ASSUME env \in Envs, NEW n \in Nat
  PROVE  /\ CutTable(n) \in Seq(Nat) /\ Len(CutTable(n)) >= 1
         /\ \A i \in 1..Len(CutTable(n)) - 1 : CutTable(n)[i] < CutTable(n)[i + 1]
<1>1. PICK S \in SUBSET Nat : S = {f \in env.cuts : f < n} /\ IsFiniteSet(S)
  <2>1. env.cuts \subseteq Nat /\ IsFiniteSet(env.cuts)
    BY EnvTyped
  <2>2. IsFiniteSet({f \in env.cuts : f < n})
    BY <2>1, FS_Subset
  <2> QED
    BY <2>1, <2>2
<1>2. PICK q : q = [k \in 1..Cardinality(S) |->
                      CHOOSE x \in S : Cardinality({y \in S : y < x}) = k - 1]
  OBVIOUS
<1>3. CutTable(n) = Append(q, n)
  BY <1>1, <1>2 DEF CutTable, Ranked
<1>4. /\ q \in Seq(Nat) /\ \A i \in 1..Len(q) : q[i] \in S
      /\ \A i \in 1..Len(q) : i + 1 <= Len(q) => q[i] < q[i + 1]
  BY <1>1, <1>2, CutsRanked
<1>5. \A i \in 1..Len(q) : q[i] < n
  BY <1>1, <1>4
<1>6. PICK c : c = Append(q, n)
  OBVIOUS
<1>7. /\ c \in Seq(Nat) /\ Len(c) = Len(q) + 1 /\ Len(q) \in Nat
      /\ \A i \in 1..Len(q) : c[i] = q[i]
      /\ c[Len(q) + 1] = n
  BY ONLY <1>4, <1>6, n \in Nat
<1>8. ASSUME NEW i \in 1..Len(c) - 1 PROVE c[i] < c[i + 1]
  <2>1. i \in 1..Len(q)
    BY ONLY <1>7, i \in 1..Len(c) - 1
  <2>2. CASE i = Len(q)
    BY ONLY <1>5, <1>7, <2>1, <2>2
  <2>3. CASE i # Len(q)
    <3>1. i + 1 \in 1..Len(q) /\ i + 1 <= Len(q)
      BY ONLY <1>7, <2>1, <2>3
    <3> QED
      BY ONLY <1>4, <1>7, <2>1, <3>1
  <2> QED
    BY <2>2, <2>3
<1>9. Len(c) >= 1
  BY ONLY <1>7
<1> QED
  BY ONLY <1>3, <1>6, <1>7, <1>8, <1>9

LEMMA SplitInv == ASSUME OInv, Split PROVE OInv'
<1>1. /\ job \in Job /\ pc[Main] = "split" /\ pc \in [Threads -> Labels]
      /\ plan \in Settings /\ env \in Envs /\ UNCHANGED <<env, loc, out>>
  BY DEF OInv, TypeOK, Split, Runs
<1>2. CASE job' = job /\ pc' = [pc EXCEPT ![Main] = "plan"]
           /\ \E k \in BOOLEAN : /\ plan' = [plan EXCEPT !.known = k]
                                 /\ k => job.gops_final
                                 /\ env.source # "pipe" => k
  <2>1. PICK k \in BOOLEAN : /\ plan' = [plan EXCEPT !.known = k]
                             /\ k => job.gops_final /\ (env.source # "pipe" => k)
    BY <1>2
  <2>2. plan' \in Settings /\ plan'.known = k /\ plan'.order = plan.order
    BY <1>1, <2>1 DEF Settings
  <2>3. pc'[Main] = "plan" /\ pc'[Reader] = pc[Reader] /\ \A w \in Workers : pc'[w] = pc[w]
    BY <1>1, <1>2, Cast
  <2>4. Table' /\ Unstarted
    BY <1>1, <1>2 DEF OInv, Table, NGops, Unstarted
  <2>5. Flow'
    BY <1>1, <1>2, <2>1, <2>2, <2>3, <2>4 DEF OInv, Flow, Unstarted
  <2> QED
    BY <1>1, <1>2, <2>2, <2>4, <2>5, BeforeStart
<1>3. CASE env.source = "file"
  <2>1. job.gops_final
    BY <1>3 DEF OInv, Flow
  <2> QED
    BY <1>2, <1>3, <2>1 DEF Split, Goes
<1>4. CASE env.source = "cuts"
  <2>1. /\ pc[Reader] = "gone" /\ pc' = [pc EXCEPT ![Main] = "plan"]
        /\ plan' = [plan EXCEPT !.known = TRUE]
    BY <1>4 DEF Split, Goes
  <2>2. job.n_read \in Nat /\ job.gop_start \in Seq(Nat) /\ job.gops_final
    BY <1>1, <2>1 DEF Job, OInv, Flow
  <2>3. PICK T \in Seq(Nat) :
          /\ job' = [job EXCEPT !.gop_start = T, !.gops_final = TRUE]
          /\ Len(T) >= 1 /\ \A i \in 1..Len(T) - 1 : T[i] < T[i + 1]
    <3>1. CASE job.rerr \/ job.n_read = 0
      BY <1>4, <2>2, <3>1 DEF Split, OInv, Table, NGops
    <3>2. CASE ~(job.rerr \/ job.n_read = 0)
      BY <1>1, <1>4, <2>2, <3>2, CutsInOrder DEF Split
    <3> QED
      BY <3>1, <3>2
  <2>4. /\ job' \in Job /\ job'.gop_start = T /\ job'.gops_final /\ job'.eof = job.eof
        /\ job'.next_gop = job.next_gop /\ job'.pull_gop = job.pull_gop
        /\ job'.gop_done = job.gop_done /\ job'.gop_data = job.gop_data
        /\ job'.rc_ready = job.rc_ready /\ job'.rc_state = job.rc_state
    BY <1>1, <2>3 DEF Job
  <2>5. plan' \in Settings /\ plan'.known /\ plan'.order = plan.order
    BY <1>1, <2>1 DEF Settings
  <2>6. pc'[Main] = "plan" /\ pc'[Reader] = pc[Reader] /\ \A w \in Workers : pc'[w] = pc[w]
    BY <1>1, <2>1, Cast
  <2>7. Table' /\ Unstarted
    BY <1>1, <2>3, <2>4 DEF Table, NGops, Unstarted
  <2>8. Flow'
    BY <1>1, <2>4, <2>5, <2>6, <2>7 DEF OInv, Flow, Unstarted
  <2> QED
    BY <1>1, <2>1, <2>4, <2>5, <2>7, <2>8, BeforeStart
<1>5. CASE env.source = "pipe"
  <2>1. CASE UNCHANGED <<job, pc, plan>>
    <3>1. Grows /\ Table' /\ Flow'
      BY <1>1, <2>1, SameTable DEF OInv, Flow, Unstarted
    <3>2. pc' = [pc EXCEPT ![Main] = pc[Main]] /\ pc[Main] \in Labels
      BY <1>1, <2>1, Cast
    <3> QED
      BY <1>1, <2>1, <3>1, <3>2, OtherStep
  <2>2. CASE ~UNCHANGED <<job, pc, plan>>
    <3>1. job.gops_final \in BOOLEAN
      BY <1>1 DEF Job
    <3> QED
      BY <1>2, <1>5, <2>2, <3>1 DEF Split, Goes, Waits
  <2> QED
    BY <2>1, <2>2
<1> QED
  BY <1>1, <1>3, <1>4, <1>5, EnvTyped

LEMMA AbandonInv == ASSUME OInv, Abandon PROVE OInv'
<1>1. /\ job \in Job /\ pc[Main] = "plan" /\ pc \in [Threads -> Labels] /\ plan \in Settings
      /\ job' = [job EXCEPT !.abort = TRUE] /\ pc' = [pc EXCEPT ![Main] = "join"]
      /\ UNCHANGED <<env, loc, plan, out>>
  BY DEF OInv, TypeOK, Abandon, Runs, Goes
<1>2. /\ job' \in Job /\ job'.gop_start = job.gop_start /\ job'.gops_final = job.gops_final
      /\ job'.eof = job.eof /\ job'.n_read = job.n_read
      /\ job'.next_gop = job.next_gop /\ job'.pull_gop = job.pull_gop
      /\ job'.gop_done = job.gop_done /\ job'.gop_data = job.gop_data
      /\ job'.rc_ready = job.rc_ready /\ job'.rc_state = job.rc_state
  BY <1>1 DEF Job
<1>3. pc'[Main] = "join" /\ pc'[Reader] = pc[Reader] /\ \A w \in Workers : pc'[w] = pc[w]
  BY <1>1, Cast
<1>4. Table' /\ Unstarted
  BY <1>1, <1>2 DEF OInv, Table, NGops, Unstarted
<1>5. Flow'
  BY <1>1, <1>2, <1>3 DEF OInv, Flow, Unstarted
<1> QED
  BY <1>1, <1>2, <1>4, <1>5, BeforeStart

\* What the plan settles.
LEMMA Planned ==
  ASSUME OInv, Plan
  PROVE  /\ plan' \in Settings /\ plan'.known = plan.known
         /\ \/ plan'.order = <<>>
            \/ /\ plan.known /\ Len(plan'.order) = NGops
               /\ \A i \in 1..NGops : plan'.order[i] \in 0..NGops - 1
               /\ \A i, j \in 1..NGops : plan'.order[i] = plan'.order[j] => i = j
<1> DEFINE gops == IF plan.known THEN NGops ELSE env.threads + 1
           g == Min({env.threads, gops})
           owned == plan.known /\ g > 1 /\ g = gops /\ Ragged
           queued == plan.known /\ g > 1 /\ g < gops
           order == IF queued THEN Ranked(0..(gops - 1), Before) ELSE <<>>
<1>1. plan' = [plan EXCEPT !.g = g, !.owned = owned, !.order = order]
  BY DEF Plan
<1>2. /\ TypeOK /\ plan \in Settings /\ env.threads \in Nat /\ env.threads >= 1
      /\ job \in Job /\ job.gop_start \in Seq(Nat) /\ NGops \in Int /\ Len(job.gop_start) >= 1
  BY EnvTyped, Lengths DEF OInv, TypeOK, Job, Table
<1>3. gops \in Nat /\ g \in Nat
  <2>1. NGops \in Nat
    BY <1>2 DEF NGops
  <2>2. gops \in Nat
    BY <1>2, <2>1
  <2> QED
    BY <1>2, <2>2, MinTwo
<1>4. CASE queued
  <2>1. gops = NGops /\ NGops > 0 /\ plan.known
    BY <1>3, <1>4
  <2>2. PICK S : S = 0..NGops - 1
    OBVIOUS
  <2>3. PICK q : q = Queue(S)
    OBVIOUS
  <2>4. order = q
    BY <1>4, <2>1, <2>2, <2>3 DEF Ranked, Queue
  <2> HIDE DEF order, queued, gops, g, owned
  <2>5. TypeOK
    BY <1>2
  <2>6. q \in Seq(Nat) /\ (NGops > 0 => Len(q) = NGops)
    BY ONLY <2>2, <2>3, <2>5, QueueRanked
  <2>10. \A i \in 1..Len(q) : q[i] \in S
    BY ONLY <2>2, <2>3, <2>5, QueueRanked
  <2>11. \A i, j \in 1..Len(q) : q[i] = q[j] => i = j
    BY ONLY <2>2, <2>3, <2>5, QueueRanked
  <2>7. PICK b \in BOOLEAN : b <=> owned
    OBVIOUS
  <2>8. plan' = [plan EXCEPT !.g = g, !.owned = b, !.order = q]
    BY <1>1, <2>4, <2>7 DEF owned
  <2>9. plan' \in Settings /\ plan'.known = plan.known /\ plan'.order = q
    BY ONLY <1>2, <1>3, <2>6, <2>8, b \in BOOLEAN DEF Settings
  <2> QED
    BY ONLY <2>1, <2>2, <2>6, <2>9, <2>10, <2>11
<1>5. CASE ~queued
  <2>1. order = <<>>
    BY <1>5
  <2> HIDE DEF order, queued, gops, g, owned
  <2>2. PICK b \in BOOLEAN : b <=> owned
    OBVIOUS
  <2>3. PICK q : q = <<>>
    OBVIOUS
  <2>6. q \in Seq(Nat)
    BY ONLY <2>3
  <2>4. plan' = [plan EXCEPT !.g = g, !.owned = b, !.order = q]
    BY <1>1, <2>1, <2>2, <2>3 DEF owned
  <2>5. plan' \in Settings /\ plan'.known = plan.known /\ plan'.order = q
    BY ONLY <1>2, <1>3, <2>4, <2>6, b \in BOOLEAN DEF Settings
  <2> QED
    BY ONLY <2>3, <2>5
<1> QED
  BY <1>4, <1>5

LEMMA PlanInv == ASSUME OInv, Plan PROVE OInv'
<1> DEFINE gops == IF plan.known THEN NGops ELSE env.threads + 1
           g == Min({env.threads, gops})
<1>1. /\ TypeOK /\ job \in Job /\ pc \in [Threads -> Labels] /\ env.threads \in Nat
      /\ NGops \in Int /\ job.window \in Int /\ ReadAhead \in Nat
      /\ UNCHANGED <<env, loc, out>> /\ pc[Main] = "plan"
  BY EnvTyped, Lengths, GopAssumption DEF OInv, TypeOK, Job, Plan, Runs
<1>2. PICK g0 \in Int : g0 = g
  BY <1>1, MinTwo
<1>3. /\ pc' = [t \in Threads |-> CASE t = Main -> "write"
                                    [] t \in 0..(g0 - 1) -> "claim"
                                    [] OTHER -> pc[t]]
      /\ \E win \in {job.window, Min({job.window, (g0 + 1) * ReadAhead})} :
            job' = [job EXCEPT !.window = win]
  BY <1>2 DEF Plan
<1>4. PICK win \in Int : job' = [job EXCEPT !.window = win]
  <2>1. (g0 + 1) * ReadAhead \in Int
    BY <1>1
  <2> QED
    BY <1>1, <1>3, <2>1, MinTwo
<1> HIDE DEF g, gops
<1>5. /\ job' \in Job /\ job'.gop_start = job.gop_start /\ job'.gops_final = job.gops_final
      /\ job'.eof = job.eof /\ job'.n_read = job.n_read /\ job'.abort = job.abort
      /\ job'.gop_done = job.gop_done /\ job'.gop_data = job.gop_data
      /\ job'.rc_ready = job.rc_ready /\ job'.rc_state = job.rc_state
      /\ job'.next_gop = job.next_gop /\ job'.pull_gop = job.pull_gop
  BY <1>1, <1>4 DEF Job
<1>6. /\ pc' \in [Threads -> Labels] /\ pc'[Main] = "write" /\ pc'[Reader] = pc[Reader]
      /\ \A w \in Workers : pc'[w] \in {"none", "claim"}
  <2>1. \A t \in Threads : pc'[t] \in {"write", "claim", pc[t]}
    BY <1>3
  <2>2. pc'[Main] = "write" /\ pc'[Reader] = pc[Reader]
    BY <1>2, <1>3, Cast DEF Main, Reader
  <2>3. \A w \in Workers : pc[w] = "none" /\ w \in Threads /\ w # Main
    BY <1>1, Cast DEF OInv, Flow, Unstarted
  <2>4. \A w \in Workers : pc'[w] \in {"none", "claim"}
    BY <1>2, <1>3, <2>3
  <2>5. pc' \in [Threads -> Labels]
    BY <1>1, <1>3, <2>1 DEF Labels
  <2> QED
    BY <2>2, <2>4, <2>5
<1>7. plan' \in Settings /\ plan'.known = plan.known
  BY Planned
<1>8. TypeOK'
  BY <1>1, <1>5, <1>6, <1>7 DEF TypeOK
<1>9. Grows /\ Table'
  BY <1>5, SameTable
<1>10. Flow'
  BY <1>1, <1>5, <1>6, <1>7 DEF OInv, Flow, Unstarted
<1>11. Published' /\ Written'
  BY <1>1, <1>5, <1>8, <1>9, SamePublished, SameWritten DEF OInv
<1>12. \A w \in Workers : Work(w)'
  BY <1>6 DEF Work, Stands, Busy
<1>13. Order'
  BY <1>5, <1>7, Planned DEF Order, NGops
<1>14. Handouts'
  <2>1. job'.next_gop = 0 /\ job'.pull_gop = <<>>
    BY <1>1, <1>5 DEF OInv, Flow, Unstarted
  <2> QED
    BY <1>6, <2>1 DEF Handouts, AtWork, Busy
<1> QED
  BY <1>8, <1>9, <1>10, <1>11, <1>12, <1>13, <1>14 DEF OInv

LEMMA WriteInv == ASSUME OInv, Write PROVE OInv'
<1>1. /\ TypeOK /\ pc[Main] = "write" /\ pc \in [Threads -> Labels] /\ job \in Job
      /\ out \in Seq(Outputs) /\ UNCHANGED <<env, job, loc, plan>> /\ plan \in Settings
  BY DEF OInv, TypeOK, Write, Runs
<1>2. PICK l \in {"join", "wfailed", "write"} : pc' = [pc EXCEPT ![Main] = l]
  <2>1. pc = [pc EXCEPT ![Main] = "write"]
    BY <1>1
  <2> QED
    BY <2>1 DEF Write, Goes, Waits
<1>3. /\ pc' \in [Threads -> Labels] /\ pc'[Main] = l /\ pc'[Reader] = pc[Reader]
      /\ \A w \in Workers : pc'[w] = pc[w]
  <2>1. l \in Labels
    BY DEF Labels
  <2> QED
    BY <1>1, <1>2, <2>1, Cast
<1>4. Grows /\ Table' /\ Flow'
  <2>1. Flow'
    BY <1>1, <1>3 DEF OInv, Flow, Unstarted
  <2> QED
    BY <1>1, <2>1, SameTable
<1>5. CASE out' = out
  BY <1>1, <1>2, <1>4, <1>5, OtherStep DEF Labels
<1>6. CASE out' # out
  <2> DEFINE e == Emitted
  <2>1. /\ ~job.abort /\ e \in job.gop_done /\ Len(out) \in Nat
        /\ out' = Append(out, IF e \in DOMAIN job.gop_data THEN job.gop_data[e] ELSE [g |-> e])
    BY <1>1, <1>6 DEF Write, WriterDone
  <2>2. PICK x : x = IF e \in DOMAIN job.gop_data THEN job.gop_data[e] ELSE [g |-> e]
    OBVIOUS
  <2>3. /\ Known(e)
        /\ \/ x \in Bytes /\ Good(x, e)
           \/ x \in [g : Nat] /\ Nothing(e)
    <3>1. Known(e) /\ IF e \in DOMAIN job.gop_data THEN Good(job.gop_data[e], e) ELSE Nothing(e)
      BY <2>1 DEF OInv, Published
    <3>2. e \in DOMAIN job.gop_data => job.gop_data[e] \in Bytes
      <4>1. PICK D \in SUBSET Nat : job.gop_data \in [D -> Bytes]
        BY <1>1 DEF Job
      <4> QED
        BY <4>1
    <3>3. [g |-> e] \in [g : Nat]
      BY <2>1 DEF Emitted
    <3> QED
      BY <2>2, <3>1, <3>2, <3>3
  <2>4. x \in Outputs /\ out' = Append(out, x)
    BY <2>1, <2>2, <2>3 DEF Outputs
  <2>5. /\ out' \in Seq(Outputs) /\ Len(out') = Len(out) + 1
        /\ \A i \in 1..Len(out) : out'[i] = out[i]
        /\ out'[Len(out) + 1] = x
    BY <1>1, <2>4
  <2>6. TypeOK'
    BY <1>1, <1>3, <2>5 DEF TypeOK
  <2>7. Written'
    <3>1. \A i : Known(i)' <=> Known(i)
      BY <1>1 DEF Known, NGops
    <3>2. \A i : Nothing(i)' <=> Nothing(i)
      BY <1>1 DEF Nothing, GopStart
    <3>3. \A d, i : Good(d, i)' <=> Good(d, i)
      BY <1>1 DEF Good, WholeTo, GopStart
    <3>4. ASSUME NEW i \in 1..Len(out')
          PROVE  /\ Known(i - 1)
                 /\ \/ out'[i] \in Bytes /\ Good(out'[i], i - 1)
                    \/ out'[i] \in [g : Nat] /\ Nothing(i - 1)
      <4>1. CASE i = Len(out) + 1
        <5>1. i - 1 = e /\ out'[i] = x
          BY <2>1, <2>5, <4>1 DEF Emitted
        <5> QED
          BY <2>3, <5>1
      <4>2. CASE i # Len(out) + 1
        <5>1. i \in 1..Emitted /\ out'[i] = out[i]
          BY <2>1, <2>5, <4>2 DEF Emitted
        <5> QED
          BY <5>1 DEF OInv, Written
      <4> QED
        BY <4>1, <4>2
    <3> QED
      BY <3>1, <3>2, <3>3, <3>4 DEF Written, Emitted
  <2>8. Published'
    BY <1>1, <1>4, <2>6, SamePublished DEF OInv
  <2>9. \A w \in Workers : Work(w)'
    BY <1>1, <1>3, <1>4, <2>6, SameWork DEF OInv
  <2>10. Handouts'
    BY <1>1, <1>3, <1>4, <2>6, SameHandouts
  <2> QED
    BY <1>1, <1>4, <2>6, <2>7, <2>8, <2>9, <2>10, SameOrder DEF OInv
<1> QED
  BY <1>5, <1>6

LEMMA WriteFailsInv == ASSUME OInv, WriteFails PROVE OInv'
<1>1. /\ job \in Job /\ pc[Main] = "wfailed" /\ pc \in [Threads -> Labels] /\ plan \in Settings
      /\ job' = [job EXCEPT !.abort = TRUE] /\ pc' = [pc EXCEPT ![Main] = "join"]
      /\ UNCHANGED <<env, loc, plan, out>>
  BY DEF OInv, TypeOK, WriteFails, Runs, Goes
<1>2. /\ job' \in Job /\ job'.gop_start = job.gop_start /\ job'.gops_final = job.gops_final
      /\ job'.eof = job.eof /\ job'.n_read = job.n_read /\ job'.abort
      /\ job'.next_gop = job.next_gop /\ job'.pull_gop = job.pull_gop
      /\ job'.gop_done = job.gop_done /\ job'.gop_data = job.gop_data
      /\ job'.rc_ready = job.rc_ready /\ job'.rc_state = job.rc_state
  BY <1>1 DEF Job
<1>3. pc'[Main] = "join" /\ pc'[Reader] = pc[Reader] /\ \A w \in Workers : pc'[w] = pc[w]
  BY <1>1, Cast
<1>4. Grows /\ Table'
  BY <1>2, SameTable
<1>5. Flow'
  BY <1>1, <1>2, <1>3 DEF OInv, Flow, Unstarted
<1> QED
  BY <1>1, <1>2, <1>4, <1>5, OtherStep DEF Labels

LEMMA JoinInv == ASSUME OInv, Join PROVE OInv'
<1>1. /\ job \in Job /\ pc[Main] = "join" /\ pc \in [Threads -> Labels] /\ plan \in Settings
      /\ pc' = [pc EXCEPT ![Main] = "returned"] /\ UNCHANGED <<env, job, loc, plan, out>>
  BY DEF OInv, TypeOK, Join, Runs, Goes
<1>2. pc'[Main] = "returned" /\ pc'[Reader] = pc[Reader] /\ \A w \in Workers : pc'[w] = pc[w]
  BY <1>1, Cast
<1>3. Grows /\ Table'
  BY <1>1, SameTable
<1>4. Flow'
  BY <1>1, <1>2 DEF OInv, Flow, Unstarted
<1> QED
  BY <1>1, <1>3, <1>4, OtherStep DEF Labels

-----------------------------------------------------------------------------
(* The workers.                                                             *)

\* A step of a worker: it moves itself and leaves the frames alone.
LEMMA WorkerMoves ==
  ASSUME OInv, NEW w \in Workers, pc[w] # "none", NEW at \in Labels, pc' = [pc EXCEPT ![w] = at],
         NEW l \in Local, loc' = [loc EXCEPT ![w] = l], Stands(at, l),
         UNCHANGED <<env, plan, out>>, job' \in Job, Frozen, Published', Handouts'
  PROVE  OInv'
<1>1. /\ pc \in [Threads -> Labels] /\ loc \in [Workers -> Local] /\ w \in Threads
      /\ w # Main /\ w # Reader
  BY Cast DEF OInv, TypeOK
<1>2. /\ TypeOK' /\ pc'[Main] = pc[Main] /\ pc'[Reader] = pc[Reader]
      /\ \A v \in Workers \ {w} : pc'[v] = pc[v] /\ loc'[v] = loc[v]
      /\ pc'[w] = at /\ loc'[w] = l
  BY <1>1, Cast DEF OInv, TypeOK
<1>3. Table' /\ Order'
  BY DEF OInv, Table, Order, Frozen, NGops
<1>4. ~Unstarted
  BY DEF OInv, Flow
<1>5. Flow'
  BY <1>2, <1>4 DEF OInv, Flow, Unstarted, Frozen
<1>6. Written'
  BY SameFrames DEF OInv, Written, Emitted
<1>7. \A v \in Workers : Work(v)'
  <2> TAKE v \in Workers
  <2>1. CASE v = w
    BY <1>2, <2>1, SameFrames DEF Work
  <2>2. CASE v # w
    BY <1>2, <2>2, SameFrames DEF OInv, Work
  <2> QED
    BY <2>1, <2>2
<1> QED
  BY <1>2, <1>3, <1>5, <1>6, <1>7 DEF OInv

LEMMA StillPublished ==
  ASSUME OInv, Frozen,
         job'.gop_done = job.gop_done, job'.gop_data = job.gop_data,
         job'.rc_ready = job.rc_ready, job'.rc_state = job.rc_state
  PROVE  Published'
  BY SameFrames DEF OInv, Published, Frozen

\* A worker keeps its place.
LEMMA StillHanded ==
  ASSUME OInv, NEW w \in Workers, NEW at, pc' = [pc EXCEPT ![w] = at],
         NEW l, loc' = [loc EXCEPT ![w] = l], l.k = loc[w].k,
         at \in AtWork => pc[w] \in AtWork, Frozen,
         job'.next_gop = job.next_gop, job'.pull_gop = job.pull_gop
  PROVE  Handouts'
<1>1. \A v \in Workers : (pc'[v] \in AtWork => pc[v] \in AtWork) /\ loc'[v].k = loc[v].k
  BY Cast DEF OInv, TypeOK
<1> QED
  BY <1>1, SameFrames DEF OInv, Handouts, AtWork, Busy

\* What a worker finds out when it looks for its GOP.
LEMMA Sought ==
  ASSUME OInv, NEW w \in Workers, NEW l \in Local, l.g >= 0, Seek(w, l, job)
  PROVE  \E at \in Labels \ {"none"}, m \in Local :
            /\ pc' = [pc EXCEPT ![w] = at] /\ loc' = [loc EXCEPT ![w] = m]
            /\ Stands(at, m)
            /\ at \in {"leave", "seek", "empty", "carry"}
            /\ m.g = l.g /\ m.k = l.k /\ m.carry = l.carry
            /\ at = "empty" => m.first = GopStart(m.g)
<1>1. /\ TypeOK /\ job.n_read \in Nat /\ job.eof \in BOOLEAN /\ l.g \in Int /\ NGops \in Int
      /\ NGops = Len(job.gop_start) - 1
  BY Lengths DEF OInv, TypeOK, Job, Local, NGops
<1>2. CASE \E at \in {"leave", "seek"} : Goes(w, at) /\ loc' = [loc EXCEPT ![w] = l]
  <2>1. PICK at \in {"leave", "seek"} : Goes(w, at) /\ loc' = [loc EXCEPT ![w] = l]
    BY <1>2
  <2>2. Stands(at, l) /\ at \in Labels \ {"none"}
    BY DEF Stands, Busy, Labels
  <2> QED
    BY <2>1, <2>2 DEF Goes
<1>3. CASE ~(\E at \in {"leave", "seek"} : Goes(w, at) /\ loc' = [loc EXCEPT ![w] = l])
  <2>1. /\ ~job.abort /\ l.g < NGops /\ (job.n_read > job.gop_start[l.g + 1] \/ job.eof)
        /\ \E end \in {IF job.eof THEN Min({job.gop_start[l.g + 2], job.n_read})
                       ELSE job.gop_start[l.g + 2]} :
             /\ Goes(w, IF end <= job.gop_start[l.g + 1] THEN "empty" ELSE "carry")
             /\ loc' = [loc EXCEPT ![w] = [l EXCEPT !.first = job.gop_start[l.g + 1],
                                                    !.i = job.gop_start[l.g + 1], !.end = end]]
    BY <1>1, <1>3 DEF Seek
  <2>2. /\ Known(l.g) /\ l.g + 2 = (l.g + 1) + 1
    BY <1>1, <2>1 DEF Known
  <2>3. PICK first \in Nat, next \in Nat :
          /\ first = GopStart(l.g) /\ next = GopStart(l.g + 1) /\ first < next
          /\ first = job.gop_start[l.g + 1] /\ next = job.gop_start[l.g + 2]
    <3>1. Known(l.g) => GopStart(l.g) \in Nat
      BY <1>1, Lengths
    <3>2. l.g + 1 \in 1..NGops /\ l.g + 2 \in 1..Len(job.gop_start)
      BY <1>1, <2>1
    <3>3. job.gop_start[l.g + 2] \in Nat
      BY <3>2, SMTT(60) DEF OInv, TypeOK, Job
    <3>4. job.gop_start[l.g + 1] < job.gop_start[(l.g + 1) + 1]
      BY <3>2 DEF OInv, Table
    <3> QED
      BY <2>2, <3>1, <3>3, <3>4 DEF GopStart
  <2>4. PICK end : /\ end = IF job.eof THEN Min({job.gop_start[l.g + 2], job.n_read})
                            ELSE job.gop_start[l.g + 2]
                   /\ Goes(w, IF end <= job.gop_start[l.g + 1] THEN "empty" ELSE "carry")
                   /\ loc' = [loc EXCEPT ![w] = [l EXCEPT !.first = job.gop_start[l.g + 1],
                                                    !.i = job.gop_start[l.g + 1], !.end = end]]
    BY <2>1
  <2>10. end \in Nat /\ end = IF job.eof /\ job.n_read < next THEN job.n_read ELSE next
    <3>1. Min({next, job.n_read}) = IF next <= job.n_read THEN next ELSE job.n_read
      BY <1>1, MinTwo
    <3>2. Min({job.gop_start[l.g + 2], job.n_read}) = Min({next, job.n_read})
      BY <2>3
    <3> QED
      BY <1>1, <2>3, <2>4, <3>1, <3>2
  <2>11. /\ pc' = [pc EXCEPT ![w] = IF end <= first THEN "empty" ELSE "carry"]
         /\ loc' = [loc EXCEPT ![w] = [l EXCEPT !.first = first, !.i = first, !.end = end]]
    BY <2>3, <2>4 DEF Goes
  <2>5. PICK m : m = [l EXCEPT !.first = first, !.i = first, !.end = end]
    OBVIOUS
  <2>6. /\ m \in Local /\ m.g = l.g /\ m.k = l.k /\ m.carry = l.carry
        /\ m.first = first /\ m.i = first /\ m.end = end
    BY ONLY <2>5, <2>10, l \in Local, first \in Nat DEF Local
  <2>7. job.n_read > first \/ job.eof
    BY <2>1, <2>3
  <2>12. Known(m.g) /\ GopStart(m.g) = first /\ GopStart(m.g + 1) = next
    BY <2>2, <2>3, <2>6
  <2>13. /\ first < next /\ first \in Nat /\ next \in Nat /\ end \in Nat /\ job.n_read \in Nat
         /\ m.end = next \/ (job.eof /\ m.end = job.n_read /\ m.end <= next)
    BY <1>1, <2>3, <2>6, <2>10
  <2>8. CASE end <= first
    <3>1. Nothing(m.g)
      BY <2>6, <2>8, <2>12, <2>13 DEF Nothing
    <3>2. Stands("empty", m)
      BY ONLY <2>6, <2>12, <2>13, <3>1 DEF Stands, Busy
    <3>3. pc' = [pc EXCEPT ![w] = "empty"] /\ "empty" \in Labels \ {"none"}
      BY <2>8, <2>11 DEF Labels
    <3> QED
      BY <2>5, <2>6, <2>11, <2>12, <3>2, <3>3
  <2>9. CASE ~(end <= first)
    <3>1. first < job.n_read /\ first < end
      BY <2>7, <2>9, <2>10, <2>13
    <3>2. Stands("carry", m)
      BY ONLY <2>6, <2>12, <2>13, <3>1 DEF Stands, Busy
    <3>3. pc' = [pc EXCEPT ![w] = "carry"] /\ "carry" \in Labels \ {"none"}
      BY <2>9, <2>11 DEF Labels, Busy
    <3> QED
      BY <2>5, <2>6, <2>11, <3>2, <3>3
  <2> QED
    BY <2>8, <2>9
<1> QED
  BY <1>2, <1>3

\* The GOP claimed is a number.
LEMMA Claims ==
  ASSUME OInv, NEW w \in Workers
  PROVE  /\ NextOwned(w) \in Nat /\ \A k \in Nat : FromQueue(k) \in Nat
<1>1. NGops \in Nat /\ w \in Nat
  BY Cast DEF OInv, TypeOK, Job, Table, NGops
<1>2. ASSUME NEW k \in Nat PROVE FromQueue(k) \in Nat
  <2>1. CASE k < NGops /\ plan.order # <<>>
    <3>1. k + 1 \in 1..NGops
      BY <1>1, <2>1
    <3>2. plan.order[k + 1] \in 0..NGops - 1
      BY <2>1, <3>1 DEF OInv, Order
    <3> QED
      BY <1>1, <2>1, <3>2 DEF FromQueue
  <2>2. CASE ~(k < NGops /\ plan.order # <<>>)
    BY <2>2 DEF FromQueue
  <2> QED
    BY <2>1, <2>2
<1> QED
  BY <1>1, <1>2 DEF NextOwned

\* What a claim does.
LEMMA Claimed ==
  ASSUME OInv, NEW w \in Workers, Claim(w)
  PROVE  \E l \in Local :
            /\ l.g \in Nat /\ Seek(w, l, job)
            /\ l.carry = loc[w].carry
            /\ \/ /\ plan.owned /\ l.k = None /\ job' = job
               \/ /\ ~plan.owned /\ l.k = job.next_gop /\ l.g = FromQueue(job.next_gop)
                  /\ job' = [job EXCEPT !.next_gop = job.next_gop + 1,
                                        !.pull_gop = Pulled(job.pull_gop, job.next_gop, l.g)]
<1>1. /\ job \in Job /\ job.next_gop \in Nat /\ loc[w] \in Local /\ plan.owned \in BOOLEAN
  BY DEF OInv, TypeOK, Job, Settings
<1>2. PICK k \in Int, g \in Nat :
        /\ k = IF plan.owned THEN None ELSE job.next_gop
        /\ g = IF plan.owned THEN NextOwned(w) ELSE FromQueue(k)
  BY <1>1, Claims DEF None
<1>3. PICK l : l = [loc[w] EXCEPT !.g = g, !.k = k, !.scan = g + 1]
  OBVIOUS
<1>4. l \in Local /\ l.g = g /\ l.k = k /\ l.carry = loc[w].carry
  <2>1. PICK b \in Local, n \in Int : b = loc[w] /\ n = g + 1
    BY <1>1
  <2>2. l = [b EXCEPT !.g = g, !.k = k, !.scan = n]
    BY <1>3, <2>1
  <2>3. l \in Local /\ l.g = g /\ l.k = k /\ l.carry = b.carry
    <3>1. g \in Int /\ n \in Int /\ k \in Int
      OBVIOUS
    <3>2. b = [g |-> b.g, k |-> b.k, i |-> b.i, end |-> b.end, first |-> b.first,
               scan |-> b.scan, carry |-> b.carry, bytes |-> b.bytes]
          /\ b.i \in Nat /\ b.end \in Nat /\ b.first \in Nat /\ b.carry \in Carries
          /\ b.bytes \in SUBSET EncoderCalls
      BY ONLY b \in Local DEF Local
    <3>3. l = [g |-> g, k |-> k, i |-> b.i, end |-> b.end, first |-> b.first,
               scan |-> n, carry |-> b.carry, bytes |-> b.bytes]
      BY ONLY <2>2, <3>2
    <3> QED
      BY ONLY <3>1, <3>2, <3>3 DEF Local
  <2> QED
    BY <2>1, <2>3
<1>5. /\ job' = IF plan.owned THEN job
                ELSE [job EXCEPT !.next_gop = k + 1, !.pull_gop = Pulled(job.pull_gop, k, g)]
      /\ Seek(w, l, job)
  BY <1>2, <1>3 DEF Claim
<1> QED
  BY <1>1, <1>2, <1>4, <1>5

LEMMA PulledTyped ==
  ASSUME NEW q \in Seq(Int), NEW k \in Nat, NEW g \in Int
  PROVE  /\ Pulled(q, k, g) \in Seq(Int) /\ Len(Pulled(q, k, g)) = k + 1
         /\ \A i \in 1..k + 1 :
              Pulled(q, k, g)[i] = IF i <= Len(q) THEN q[i] ELSE IF g < NGops THEN g ELSE None
<1>1. \A i \in 1..k + 1 : (IF i <= Len(q) THEN q[i] ELSE IF g < NGops THEN g ELSE None) \in Int
  BY DEF None
<1>2. PICK p : p = Pulled(q, k, g)
  OBVIOUS
<1>3. p \in [1..k + 1 -> Int]
  BY <1>1, <1>2 DEF Pulled
<1>4. p \in Seq(Int) /\ Len(p) = k + 1
  BY ONLY <1>3, k \in Nat
<1> QED
  BY <1>2, <1>4 DEF Pulled

LEMMA ClaimInv == ASSUME OInv, NEW w \in Workers, Claim(w) PROVE OInv'
<1>1. pc[w] # "none" /\ UNCHANGED <<env, plan, out>> /\ job \in Job
  BY DEF Claim, Runs, OInv, TypeOK
<1>2. PICK l \in Local :
        /\ l.g \in Nat /\ Seek(w, l, job)
        /\ \/ l.k = None /\ job' = job
           \/ /\ l.k = job.next_gop
              /\ job' = [job EXCEPT !.next_gop = job.next_gop + 1,
                                   !.pull_gop = Pulled(job.pull_gop, job.next_gop, l.g)]
  BY Claimed
<1>3. PICK at \in Labels \ {"none"}, m \in Local :
        /\ pc' = [pc EXCEPT ![w] = at] /\ loc' = [loc EXCEPT ![w] = m] /\ Stands(at, m)
        /\ m.k = l.k
  BY <1>2, Sought
<1>5. \A v \in Workers \ {w} : pc'[v] = pc[v] /\ loc'[v] = loc[v]
  BY <1>3, Cast DEF OInv, TypeOK
<1>6. loc'[w] = m
  BY <1>3 DEF OInv, TypeOK
<1>4. /\ job' \in Job /\ Frozen /\ Handouts'
      /\ job'.gop_done = job.gop_done /\ job'.gop_data = job.gop_data
      /\ job'.rc_ready = job.rc_ready /\ job'.rc_state = job.rc_state
  <2>1. CASE l.k = None /\ job' = job
    <3>1. Frozen
      BY <2>1 DEF Frozen
    <3>2. \A v \in Workers : pc'[v] \in AtWork =>
             loc'[v].k = None \/ loc'[v].k \in 0..job.next_gop - 1
      <4> TAKE v \in Workers
      <4>1. CASE v = w
        BY <1>3, <1>6, <2>1, <4>1
      <4>2. CASE v # w
        BY <1>5, <4>2 DEF OInv, Handouts
      <4> QED
        BY <4>1, <4>2
    <3>3. Handouts'
      BY <2>1, <3>1, <3>2, SameFrames DEF OInv, Handouts, AtWork, Busy
    <3> QED
      BY <1>1, <2>1, <3>1, <3>3
  <2>2. CASE ~(l.k = None /\ job' = job)
    <3>1. job.pull_gop \in Seq(Int) /\ job.next_gop \in Nat /\ l.g \in Nat /\ NGops \in Int
      BY <1>1, <1>2, Lengths DEF Job, OInv
    <3>2. PICK q, n : q = Pulled(job.pull_gop, job.next_gop, l.g) /\ n = job.next_gop + 1
      OBVIOUS
    <3>3. /\ q \in Seq(Int) /\ n \in Nat /\ Len(q) = n
          /\ \A i \in 1..n : q[i] = IF i <= Len(job.pull_gop) THEN job.pull_gop[i]
                                    ELSE IF l.g < NGops THEN l.g ELSE None
      <4>1. n \in Nat /\ l.g \in Int
        BY <3>1, <3>2
      <4>2. q \in Seq(Int)
        BY ONLY <3>1, <3>2, <4>1, PulledTyped
      <4>3. Len(q) = n
        BY ONLY <3>1, <3>2, <4>1, PulledTyped
      <4>4. \A i \in 1..n : q[i] = IF i <= Len(job.pull_gop) THEN job.pull_gop[i]
                                   ELSE IF l.g < NGops THEN l.g ELSE None
        BY ONLY <3>1, <3>2, <4>1, PulledTyped
      <4> QED
        BY <4>1, <4>2, <4>3, <4>4
    <3>4. job' = [job EXCEPT !.next_gop = n, !.pull_gop = q] /\ l.k = job.next_gop
      BY <1>2, <2>2, <3>2
    <3>5. /\ job' \in Job /\ Frozen /\ job'.next_gop = n /\ job'.pull_gop = q
          /\ job'.gop_done = job.gop_done /\ job'.gop_data = job.gop_data
          /\ job'.rc_ready = job.rc_ready /\ job'.rc_state = job.rc_state
      BY ONLY <1>1, <3>3, <3>4 DEF Job, Frozen
    <3>6. \A i \in 1..n : q[i] = None \/ Known(q[i])
      <4> TAKE i \in 1..n
      <4>1. CASE i <= Len(job.pull_gop)
        <5>1. i \in 1..job.next_gop
          BY <3>2, <3>3, <4>1 DEF OInv, Handouts
        <5> QED
          BY <3>3, <4>1, <5>1 DEF OInv, Handouts
      <4>2. CASE ~(i <= Len(job.pull_gop))
        <5>1. q[i] = IF l.g < NGops THEN l.g ELSE None
          BY <3>3, <4>2
        <5> QED
          BY <3>1, <5>1 DEF Known
      <4> QED
        BY <4>1, <4>2
    <3>7. \A v \in Workers : pc'[v] \in AtWork =>
             loc'[v].k = None \/ loc'[v].k \in 0..n - 1
      <4> TAKE v \in Workers
      <4>1. CASE v = w
        BY <1>3, <1>6, <3>1, <3>2, <3>4, <4>1
      <4>2. CASE v # w
        BY <1>5, <3>1, <3>2, <4>2 DEF OInv, Handouts
      <4> QED
        BY <4>1, <4>2
    <3>8. Handouts'
      BY <3>3, <3>5, <3>6, <3>7, SameFrames DEF Handouts, AtWork, Busy
    <3> QED
      BY <3>5, <3>8
  <2> QED
    BY <2>1, <2>2
<1> QED
  BY <1>1, <1>3, <1>4, StillPublished, WorkerMoves

LEMMA SeekAgainInv == ASSUME OInv, NEW w \in Workers, SeekAgain(w) PROVE OInv'
<1>1. /\ pc[w] = "seek" /\ UNCHANGED <<env, plan, out, job>> /\ job \in Job /\ loc[w] \in Local
      /\ Seek(w, loc[w], job)
  BY DEF SeekAgain, Runs, OInv, TypeOK
<1>2. loc[w].g >= 0
  BY <1>1 DEF OInv, Work, Stands
<1>3. PICK at \in Labels \ {"none"}, m \in Local :
        /\ pc' = [pc EXCEPT ![w] = at] /\ loc' = [loc EXCEPT ![w] = m] /\ Stands(at, m)
        /\ m.k = loc[w].k
  BY <1>1, <1>2, Sought
<1>4. Frozen /\ job' \in Job /\ pc[w] \in AtWork
  BY <1>1 DEF Frozen, AtWork
<1> QED
  BY <1>1, <1>3, <1>4, StillPublished, StillHanded, WorkerMoves

LEMMA PublishEmptyInv == ASSUME OInv, NEW w \in Workers, PublishEmpty(w) PROVE OInv'
<1>1. /\ pc[w] = "empty" /\ UNCHANGED <<env, loc, plan, out>> /\ job \in Job /\ loc[w] \in Local
      /\ pc' = [pc EXCEPT ![w] = "claim"] /\ Stands("empty", loc[w])
  BY DEF PublishEmpty, Runs, Goes, OInv, TypeOK, Work
<1>2. PICK g : g = loc[w].g
  OBVIOUS
<1>3. Known(g) /\ Nothing(g) /\ g \in Nat
  <2>1. Known(g) /\ Nothing(g)
    BY <1>1, <1>2 DEF Stands
  <2> QED
    BY <2>1, Lengths DEF OInv
<1>4. job' = [job EXCEPT !.gop_done = job.gop_done \cup {g}, !.rc_ready = job.rc_ready \cup {g}]
  BY <1>2 DEF PublishEmpty
<1>5. /\ job' \in Job /\ Frozen /\ job'.next_gop = job.next_gop /\ job'.pull_gop = job.pull_gop
      /\ job'.gop_done = job.gop_done \cup {g} /\ job'.rc_ready = job.rc_ready \cup {g}
      /\ job'.gop_data = job.gop_data /\ job'.rc_state = job.rc_state
  BY ONLY <1>1, <1>3, <1>4 DEF Job, Frozen
<1>6. Published'
  BY <1>3, <1>5, SameFrames DEF OInv, Published, Frozen
<1>7. loc' = [loc EXCEPT ![w] = loc[w]] /\ "claim" \in Labels /\ Stands("claim", loc[w])
  BY <1>1 DEF OInv, TypeOK, Labels, Stands, Busy
<1>8. Handouts'
  BY <1>1, <1>5, <1>7, StillHanded DEF AtWork, Busy
<1> QED
  BY <1>1, <1>5, <1>6, <1>7, <1>8, WorkerMoves

\* The frames between two hand-outs are counted over GOPs that exist.
LEMMA Imported ==
  ASSUME OInv, NEW w \in Workers, pc[w] = "carry"
  PROVE  /\ Pred(w) \in Int
         /\ Pred(w) # None => <<Pred(w), Ahead(w)>> \in Carries
         /\ Pred(w) # None => Known(Pred(w))
<1>1. CASE Pred(w) = None
  BY <1>1 DEF None
<1>2. CASE Pred(w) # None
  <2>1. /\ Pred(w) = Handed(loc[w].k - plan.g) /\ loc[w].k >= plan.g /\ plan.g \in Nat
        /\ loc[w].k \in Int /\ TypeOK
    BY <1>2 DEF Pred, OInv, TypeOK, Settings, Local
  <2>2. job.next_gop \in Nat /\ loc[w].k \in 0..job.next_gop - 1
    <3>1. loc[w].k # None
      BY <2>1 DEF None
    <3> QED
      BY <3>1 DEF OInv, TypeOK, Job, Handouts, AtWork, Busy
  <2>3. PICK k \in Int, n \in Nat : k = loc[w].k - plan.g /\ n = loc[w].k
    BY <2>1, <2>2
  <2>4. \A i \in k..n : i + 1 \in 1..job.next_gop
    BY <2>1, <2>2, <2>3
  <2>5. \A i \in k..n : Handed(i) = None \/ Known(Handed(i))
    BY <2>4 DEF Handed, OInv, Handouts
  <2>6. Known(Pred(w)) /\ Pred(w) \in Int
    <3>1. k \in k..n
      BY <2>1, <2>3
    <3>2. Known(Pred(w))
      BY <1>2, <2>1, <2>3, <2>5, <3>1
    <3> QED
      BY <2>1, <3>2, Lengths
  <2>7. PICK D : D = {i \in (loc[w].k - plan.g + 1)..(loc[w].k - 1) : Handed(i) # None}
    OBVIOUS
  <2>13. D \in SUBSET Int
    BY <2>1, <2>7
  <2>8. \A i \in D : GopLen(Handed(i)) \in Int
    <3> TAKE i \in D
    <3>1. i \in k..n /\ Handed(i) # None
      BY <2>1, <2>3, <2>7
    <3>2. Known(Handed(i))
      BY <2>5, <3>1
    <3> QED
      BY <2>1, <3>2, Lengths
  <2>9. PICK f : f = [i \in D |-> GopLen(Handed(i))]
    OBVIOUS
  <2>10. f \in [D -> Int]
    BY <2>8, <2>9, <2>13
  <2>11. Ahead(w) = SumFunction(f)
    BY <2>7, <2>9 DEF Ahead
  <2>12. SumFunction(f) \in {SumFunction(h) : h \in UNION {[E -> Int] : E \in SUBSET Int}}
    BY <2>10, <2>13
  <2> QED
    BY <2>6, <2>11, <2>12 DEF Carries
<1> QED
  BY <1>1, <1>2

LEMMA CarryInv == ASSUME OInv, NEW w \in Workers, Carry(w) PROVE OInv'
<1>1. /\ pc[w] = "carry" /\ UNCHANGED <<env, job, plan, out>> /\ job \in Job /\ loc[w] \in Local
      /\ Stands("carry", loc[w]) /\ Frozen /\ pc[w] \in AtWork
  BY DEF Carry, Runs, OInv, TypeOK, Work, Frozen, AtWork, Busy
<1>2. CASE UNCHANGED <<loc, pc>>
  <2>1. /\ loc' = [loc EXCEPT ![w] = loc[w]] /\ pc' = [pc EXCEPT ![w] = "carry"]
        /\ "carry" \in Labels
    BY <1>1, <1>2, Cast DEF OInv, TypeOK, Labels, Busy
  <2>2. Handouts' /\ Published'
    BY <1>1, <2>1, StillHanded, StillPublished
  <2> QED
    BY <1>1, <2>1, <2>2, WorkerMoves
<1>3. CASE ~UNCHANGED <<loc, pc>>
  <2>1. PICK c, b :
          /\ c = IF Opens(loc[w].g) /\ Pred(w) # None /\ Pred(w) \in job.rc_state
                 THEN <<Pred(w), Ahead(w)>> ELSE <<>>
          /\ b = Output(loc[w].g, <<"headers", loc[w].g>>)
          /\ loc' = [loc EXCEPT ![w].carry = c, ![w].bytes = b]
          /\ pc' = [pc EXCEPT ![w] = "feed"]
    BY <1>3 DEF Carry, Goes, Waits
  <2>8. b \in SUBSET EncoderCalls
    <3>1. loc[w].g \in Nat
      BY <1>1, Lengths DEF Stands, Busy, OInv
    <3> QED
      BY <2>1, <3>1, OutputTyped
  <2>2. c \in Carries
    <3>1. <<>> \in Carries
      BY DEF Carries
    <3> QED
      BY <1>1, <2>1, <3>1, Imported
  <2>3. PICK l : l = [loc[w] EXCEPT !.carry = c, !.bytes = b]
    OBVIOUS
  <2>4. /\ l \in Local /\ l.g = loc[w].g /\ l.k = loc[w].k /\ l.i = loc[w].i
        /\ l.end = loc[w].end /\ l.first = loc[w].first
    BY ONLY <1>1, <2>2, <2>3, <2>8 DEF Local
  <2>5. loc' = [loc EXCEPT ![w] = l] /\ "feed" \in Labels /\ "feed" \in AtWork
    BY <2>1, <2>3 DEF Labels, Busy, AtWork
  <2>6. Stands("feed", l)
    <3>1. GopStart(l.g) < job.n_read /\ l.i = GopStart(l.g) /\ l.i \in Nat /\ job.n_read \in Nat
      BY <1>1, <2>4 DEF Stands, Busy, Job, Local
    <3> QED
      BY <1>1, <2>4, <3>1 DEF Stands, Busy
  <2>7. Handouts' /\ Published'
    BY <1>1, <2>1, <2>4, <2>5, StillHanded, StillPublished
  <2> QED
    BY <1>1, <2>1, <2>4, <2>5, <2>6, <2>7, WorkerMoves
<1> QED
  BY <1>2, <1>3

LEMMA FeedInv == ASSUME OInv, NEW w \in Workers, Feed(w) PROVE OInv'
<1>1. /\ pc[w] \in {"feed", "starve"} /\ UNCHANGED <<env, loc, plan, out>> /\ job \in Job
      /\ loc[w] \in Local /\ Stands(pc[w], loc[w]) /\ pc[w] \in AtWork
      /\ job.n_read \in Nat /\ job.waiting \in Int /\ job.abort \in BOOLEAN /\ job.eof \in BOOLEAN
  BY DEF Feed, OInv, TypeOK, Work, AtWork, Busy, Job
<1>2. PICK i \in Nat : i = loc[w].i
  BY <1>1 DEF Local
<1>3. PICK x \in Int, at \in {"starve", "code", "publish"} :
        /\ job' = [job EXCEPT !.waiting = x] /\ pc' = [pc EXCEPT ![w] = at]
        /\ at = "code" => i < job.n_read
        /\ at = "publish" => job.abort \/ (job.n_read <= i /\ job.eof)
  <2>1. PICK y \in Int : y = job.waiting - IF pc[w] = "starve" THEN 1 ELSE 0
    BY <1>1
  <2>2. CASE ~job.abort /\ job.n_read <= i /\ ~job.eof
    BY <1>2, <2>1, <2>2 DEF Feed, Goes
  <2>3. CASE ~(~job.abort /\ job.n_read <= i /\ ~job.eof)
    BY <1>1, <1>2, <2>1, <2>3 DEF Feed, Goes
  <2> QED
    BY <2>2, <2>3
<1>4. /\ job' \in Job /\ Frozen /\ job'.next_gop = job.next_gop /\ job'.pull_gop = job.pull_gop
      /\ job'.gop_done = job.gop_done /\ job'.gop_data = job.gop_data
      /\ job'.rc_ready = job.rc_ready /\ job'.rc_state = job.rc_state
  BY ONLY <1>1, <1>3, x \in Int DEF Job, Frozen
<1>5. loc' = [loc EXCEPT ![w] = loc[w]] /\ at \in Labels
  BY <1>1 DEF OInv, TypeOK, Labels, Busy
<1>6. Stands(at, loc[w])
  <2>1. /\ Known(loc[w].g) /\ loc[w].first = GopStart(loc[w].g)
        /\ GopStart(loc[w].g) < job.n_read /\ i < loc[w].end /\ i <= job.n_read
        /\ loc[w].end = GopStart(loc[w].g + 1)
           \/ (job.eof /\ loc[w].end = job.n_read /\ loc[w].end <= GopStart(loc[w].g + 1))
    BY <1>1, <1>2 DEF Stands, Busy
  <2>2. GopStart(loc[w].g + 1) \in Nat
    <3>1. loc[w].g + 2 \in 1..Len(job.gop_start) /\ (loc[w].g + 1) + 1 = loc[w].g + 2
      <4>1. PICK g \in Int : g = loc[w].g
        BY <1>1 DEF Local
      <4>2. Len(job.gop_start) \in Nat /\ g \in 0..(Len(job.gop_start) - 1) - 1
        BY <2>1, <4>1, Lengths DEF Known, NGops, OInv
      <4>3. g + 2 \in 1..Len(job.gop_start) /\ (g + 1) + 1 = g + 2
        BY <4>2
      <4> QED
        BY <4>1, <4>3
    <3> QED
      BY <3>1, SMTT(60) DEF GopStart, OInv, TypeOK, Job
  <2>3. at = "publish" /\ ~job.abort => WholeTo(loc[w].g, i)
    BY <1>1, <1>3, <2>1, <2>2 DEF WholeTo, Local
  <2> QED
    BY <1>2, <1>3, <2>1, <2>3 DEF Stands, Busy
<1>7. Handouts' /\ Published'
  BY <1>1, <1>3, <1>4, <1>5, StillHanded, StillPublished
<1> QED
  BY <1>1, <1>3, <1>4, <1>5, <1>6, <1>7, WorkerMoves DEF AtWork, Busy

LEMMA CodeInv == ASSUME OInv, NEW w \in Workers, Code(w) PROVE OInv'
<1>1. /\ pc[w] = "code" /\ UNCHANGED <<env, plan, out>> /\ job \in Job
      /\ loc[w] \in Local /\ Stands("code", loc[w]) /\ pc[w] \in AtWork /\ job.n_read \in Nat
  BY DEF Code, Runs, OInv, TypeOK, Work, AtWork, Busy, Job
<1>2. PICK i \in Nat, j \in Nat : i = loc[w].i /\ j = i + 1
  BY <1>1 DEF Local
<1>3. PICK at \in {"feed", "publish"} :
        /\ at = IF j < loc[w].end THEN "feed" ELSE "publish"
        /\ pc' = [pc EXCEPT ![w] = at] /\ loc' = [loc EXCEPT ![w] = [loc[w] EXCEPT !.i = j,
              !.bytes = loc[w].bytes \cup Output(loc[w].g, <<"frame", i>>)]]
        /\ job' = [job EXCEPT !.freed = job.freed \cup {i}]
  BY <1>2 DEF Code, Goes
<1>4. /\ job' \in Job /\ Frozen /\ job'.next_gop = job.next_gop /\ job'.pull_gop = job.pull_gop
      /\ job'.gop_done = job.gop_done /\ job'.gop_data = job.gop_data
      /\ job'.rc_ready = job.rc_ready /\ job'.rc_state = job.rc_state
  BY ONLY <1>1, <1>3, i \in Nat DEF Job, Frozen
<1>10. PICK b \in SUBSET EncoderCalls : b = loc[w].bytes \cup Output(loc[w].g, <<"frame", i>>)
  <2>1. loc[w].g \in Nat /\ loc[w].bytes \in SUBSET EncoderCalls
    BY <1>1, Lengths DEF Stands, Busy, OInv, Local
  <2> QED
    BY <2>1, OutputTyped
<1>5. PICK l : l = [loc[w] EXCEPT !.i = j, !.bytes = b]
  OBVIOUS
<1>6. /\ l \in Local /\ l.g = loc[w].g /\ l.k = loc[w].k /\ l.i = j
      /\ l.end = loc[w].end /\ l.first = loc[w].first
  BY ONLY <1>1, <1>5, j \in Nat, b \in SUBSET EncoderCalls DEF Local
<1>7. loc' = [loc EXCEPT ![w] = l] /\ at \in Labels /\ at \in AtWork
  BY <1>3, <1>5, <1>10 DEF Labels, Busy, AtWork
<1>8. Stands(at, l)
  <2>1. /\ Known(l.g) /\ l.first = GopStart(l.g)
        /\ GopStart(l.g) < job.n_read /\ i < l.end /\ i < job.n_read
        /\ l.end = GopStart(l.g + 1) \/ (job.eof /\ l.end = job.n_read /\ l.end <= GopStart(l.g + 1))
        /\ l.end \in Nat
    BY <1>1, <1>2, <1>6 DEF Stands, Busy, Local
  <2>2. j <= job.n_read /\ j <= l.end
    BY <1>1, <1>2, <2>1
  <2>3. at = "publish" => WholeTo(l.g, l.i)
    BY <1>1, <1>2, <1>3, <1>6, <2>1, <2>2 DEF WholeTo
  <2>4. at = "feed" => l.i < l.end /\ l.i <= job.n_read
    BY <1>3, <1>6, <2>2
  <2> QED
    BY <2>1, <2>3, <2>4 DEF Stands, Busy
<1>9. Handouts' /\ Published'
  BY <1>1, <1>3, <1>4, <1>6, <1>7, StillHanded, StillPublished
<1> QED
  BY <1>1, <1>3, <1>4, <1>6, <1>7, <1>8, <1>9, WorkerMoves

LEMMA PublishInv == ASSUME OInv, NEW w \in Workers, Publish(w) PROVE OInv'
<1>1. /\ pc[w] = "publish" /\ UNCHANGED <<env, loc, plan, out>> /\ job \in Job
      /\ loc[w] \in Local /\ Stands("publish", loc[w]) /\ pc' = [pc EXCEPT ![w] = "claim"]
  BY DEF Publish, Runs, Goes, OInv, TypeOK, Work
<1>2. PICK g \in Nat : g = loc[w].g /\ Known(g)
  BY <1>1, Lengths DEF Stands, Busy, OInv
<1>3. PICK d : d = [g |-> loc[w].g, first |-> loc[w].first, end |-> loc[w].i,
                   carry |-> loc[w].carry, bytes |-> loc[w].bytes \cup Flushed(loc[w].g)]
  OBVIOUS
<1>4. d \in Bytes /\ (~job.abort => Good(d, g))
  <2>1. d \in Bytes
    <3>1. Flushed(g) \in SUBSET EncoderCalls
      BY <1>2, OutputTyped DEF OInv, TypeOK
    <3> QED
      BY ONLY <1>1, <1>2, <1>3, <3>1 DEF Bytes, Local
  <2>2. d.g = g /\ d.first = loc[w].first /\ d.end = loc[w].i
    BY <1>2, <1>3
  <2> QED
    BY <1>1, <1>2, <2>1, <2>2 DEF Stands, Busy, Good
<1>5. PICK D \in SUBSET Nat : job.gop_data \in [D -> Bytes]
  BY <1>1 DEF Job
<1>12. PICK data : data = Stored(job.gop_data, g, d)
  OBVIOUS
<1>13. /\ data \in [D \cup {g} -> Bytes] /\ data[g] = d
       /\ \A h \in D \ {g} : data[h] = job.gop_data[h]
  <2>1. PICK f \in [D -> Bytes] : f = job.gop_data
    BY <1>5
  <2>2. data = Stored(f, g, d) /\ d \in Bytes
    BY <1>4, <1>12, <2>1
  <2>3. data \in [D \cup {g} -> Bytes] /\ data[g] = d
    BY ONLY <2>2, g \in Nat, D \in SUBSET Nat, f \in [D -> Bytes] DEF Stored
  <2>4. \A h \in D \ {g} : data[h] = f[h]
    BY ONLY <2>2, g \in Nat, D \in SUBSET Nat, f \in [D -> Bytes] DEF Stored
  <2> QED
    BY ONLY <2>1, <2>3, <2>4
<1>6. PICK state \in SUBSET Nat :
        /\ state \subseteq job.rc_state \cup {g} /\ job.rc_state \subseteq state
        /\ job' = [job EXCEPT !.rc_state = state, !.rc_ready = job.rc_ready \cup {g},
                              !.gop_data = data, !.gop_done = job.gop_done \cup {g}]
  <2>1. job.rc_state \in SUBSET Nat
    BY <1>1 DEF Job
  <2>2. PICK state : state = IF env.abr /\ Opens(g) THEN job.rc_state \cup {g} ELSE job.rc_state
    OBVIOUS
  <2>3. job' = [job EXCEPT !.rc_state = state, !.rc_ready = job.rc_ready \cup {g},
                              !.gop_data = data, !.gop_done = job.gop_done \cup {g}]
    BY <1>2, <1>3, <1>12, <2>2 DEF Publish
  <2> QED
    BY <2>1, <2>2, <2>3
<1>7. D \cup {g} \in SUBSET Nat /\ data \in UNION {[E -> Bytes] : E \in SUBSET Nat}
  BY <1>13
<1>8. /\ job' \in Job /\ Frozen /\ job'.next_gop = job.next_gop /\ job'.pull_gop = job.pull_gop
      /\ job'.gop_done = job.gop_done \cup {g} /\ job'.rc_ready = job.rc_ready \cup {g}
      /\ job'.gop_data = data /\ job'.rc_state = state
  BY ONLY <1>1, <1>6, <1>7, g \in Nat, state \in SUBSET Nat DEF Job, Frozen
<1>9. Published'
  <2>1. DOMAIN data = DOMAIN job.gop_data \cup {g}
    BY <1>5, <1>13
  <2>2. \A h \in DOMAIN job.gop_data \ {g} : data[h] = job.gop_data[h]
    BY <1>5, <1>13
  <2>3. DOMAIN data \subseteq job'.gop_done /\ job'.rc_state \subseteq job'.rc_ready
    BY <1>6, <1>8, <2>1 DEF OInv, Published
  <2>4. \A h \in job'.gop_done \cup job'.rc_ready : Known(h)
    BY <1>2, <1>8 DEF OInv, Published
  <2>5. ~job.abort => \A h \in job'.gop_done :
            IF h \in DOMAIN data THEN Good(data[h], h) ELSE Nothing(h)
    <3> SUFFICES ASSUME ~job.abort, NEW h \in job'.gop_done
                 PROVE  IF h \in DOMAIN data THEN Good(data[h], h) ELSE Nothing(h)
      OBVIOUS
    <3>1. CASE h = g
      BY <1>4, <1>13, <2>1, <3>1
    <3>2. CASE h # g
      BY <1>8, <2>1, <2>2, <3>2 DEF OInv, Published
    <3> QED
      BY <3>1, <3>2
  <2> QED
    BY <1>8, <2>3, <2>4, <2>5, SameFrames DEF Published, Frozen
<1>10. loc' = [loc EXCEPT ![w] = loc[w]] /\ "claim" \in Labels /\ Stands("claim", loc[w])
  BY <1>1 DEF OInv, TypeOK, Labels, Stands, Busy
<1>11. Handouts'
  BY <1>1, <1>8, <1>10, StillHanded DEF AtWork, Busy
<1> QED
  BY <1>1, <1>8, <1>9, <1>10, <1>11, WorkerMoves

LEMMA LeaveInv == ASSUME OInv, NEW w \in Workers, Leave(w) PROVE OInv'
<1>1. /\ pc[w] = "leave" /\ UNCHANGED <<env, job, loc, plan, out>> /\ job \in Job
      /\ loc[w] \in Local /\ pc' = [pc EXCEPT ![w] = "gone"] /\ Frozen
  BY DEF Leave, Runs, Goes, OInv, TypeOK, Frozen
<1>2. loc' = [loc EXCEPT ![w] = loc[w]] /\ "gone" \in Labels /\ Stands("gone", loc[w])
  BY <1>1 DEF OInv, TypeOK, Labels, Stands, Busy
<1>3. Handouts'
  <2>1. "gone" \notin AtWork
    BY DEF AtWork, Busy
  <2> QED
    BY <1>1, <1>2, <2>1, StillHanded
<1>4. Published'
  BY <1>1, StillPublished
<1> QED
  BY <1>1, <1>2, <1>3, <1>4, WorkerMoves

\* A wake-up for nothing, and a stutter.
LEMMA StillInv == ASSUME OInv, UNCHANGED <<env, pc, job, loc, plan, out>> PROVE OInv'
<1>1. Frozen
  BY DEF Frozen
<1>2. TypeOK' /\ Table' /\ Flow' /\ Order'
  BY DEF OInv, TypeOK, Table, Flow, Order, Unstarted, NGops
<1>3. Handouts' /\ Published' /\ Written' /\ \A w \in Workers : Work(w)'
  BY <1>1, SameFrames DEF OInv, Handouts, Published, Written, Emitted, Work
<1> QED
  BY <1>2, <1>3 DEF OInv

LEMMA NextOInv == OInv /\ [Next]_vars => OInv'
<1> SUFFICES ASSUME OInv, [Next]_vars PROVE OInv'
  OBVIOUS
<1>1. CASE ReaderStep
  BY <1>1, ReaderInv
<1>2. CASE MainStep
  BY <1>2, SplitInv, AbandonInv, PlanInv, WriteInv, WriteFailsInv, JoinInv DEF MainStep
<1>3. CASE \E w \in Workers : WorkerStep(w)
  BY <1>3, ClaimInv, SeekAgainInv, PublishEmptyInv, CarryInv, FeedInv, CodeInv, PublishInv,
     LeaveInv DEF WorkerStep
<1>4. CASE \E t \in Threads : SpuriousWake(t)
  BY <1>4, StillInv DEF SpuriousWake
<1>5. CASE Returned \/ UNCHANGED vars
  BY <1>5, StillInv DEF Returned, vars
<1> QED
  BY <1>1, <1>2, <1>3, <1>4, <1>5 DEF Next

-----------------------------------------------------------------------------
(* The inductive invariant of the bytes.                                    *)

\* What the encoder of GOP g gave for its headers and the frames from a to
\* before b.
Sofar(g, a, b) ==
    Output(g, <<"headers", g>>) \cup UNION {Output(g, <<"frame", f>>) : f \in a..(b - 1)}

\* A worker with the locals l has appended all that its encoder gave so far.
Fills(l) == l.first <= l.i /\ l.bytes = Sofar(l.g, l.first, l.i)

\* What is published or written of a GOP is all that its encoder gave.
Filled(d) == d.bytes = Sofar(d.g, d.first, d.end) \cup Flushed(d.g)

BInv ==
    /\ \A w \in Workers : pc[w] \in Busy \ {"carry"} => Fills(loc[w])
    /\ \A g \in DOMAIN job.gop_data : Filled(job.gop_data[g])
    /\ \A i \in 1..Emitted : out[i] \in Bytes => Filled(out[i])

\* One more frame.
LEMMA OneMore ==
  ASSUME NEW g, NEW a \in Nat, NEW b \in Nat, a <= b
  PROVE  Sofar(g, a, b + 1) = Sofar(g, a, b) \cup Output(g, <<"frame", b>>)
<1>1. a..((b + 1) - 1) = a..(b - 1) \cup {b}
  OBVIOUS
<1> QED
  BY <1>1 DEF Sofar

LEMMA InitBInv == Init => BInv
  BY Cast DEF Init, BInv, Busy, Emitted

LEMMA SameFilled ==
  ASSUME env' = env
  PROVE  /\ \A l : Fills(l)' <=> Fills(l)
         /\ \A d : Filled(d)' <=> Filled(d)
         /\ \A g, a, b : Sofar(g, a, b)' = Sofar(g, a, b)
         /\ \A g : Flushed(g)' = Flushed(g)
<1>1. \A g, call : Output(g, call)' = Output(g, call)
  BY DEF Output, Opens
<1>2. \A g : Flushed(g)' = Flushed(g)
  BY <1>1 DEF Flushed
<1>3. \A g, a, b : Sofar(g, a, b)' = Sofar(g, a, b)
  BY <1>1 DEF Sofar
<1> QED
  BY <1>2, <1>3 DEF Fills, Filled

\* A step that codes, publishes and writes nothing.
LEMMA SameBytes ==
  ASSUME BInv, env' = env, job'.gop_data = job.gop_data, out' = out,
         \A w \in Workers : pc'[w] \in Busy \ {"carry"} =>
            Fills(loc'[w]) \/ (pc[w] \in Busy \ {"carry"} /\ loc'[w] = loc[w])
  PROVE  BInv'
  BY SameFilled DEF BInv, Emitted

\* Whoever is not a worker, and a wake-up, leaves the bytes of the workers alone.
LEMMA OthersBytes ==
  ASSUME OInv, BInv, NEW t \in {Main, Reader}, NEW at, pc' = [pc EXCEPT ![t] = at] \/ pc' = pc,
         UNCHANGED <<env, loc, out>>, job'.gop_data = job.gop_data
  PROVE  BInv'
<1>1. \A w \in Workers : pc'[w] = pc[w]
  BY Cast DEF OInv, TypeOK
<1> QED
  BY <1>1, SameBytes

LEMMA ReaderBytes == ASSUME OInv, BInv, ReaderStep PROVE BInv'
<1>1. /\ UNCHANGED <<env, loc, out>> /\ job \in Job
      /\ (\E at \in Labels : pc' = [pc EXCEPT ![Reader] = at]) \/ pc' = pc
  BY DEF ReaderStep, ReadHeader, ReadRoom, ReadFrame, ReadTail, ReaderFails, Goes, Waits,
     Labels, OInv, TypeOK
<1>2. job'.gop_data = job.gop_data
  BY <1>1 DEF ReaderStep, ReadHeader, ReadRoom, ReadFrame, ReadTail, ReaderFails, Job
<1> QED
  BY <1>1, <1>2, OthersBytes

\* The workers are started, and none of them has a GOP.
LEMMA PlanBytes == ASSUME OInv, BInv, Plan PROVE BInv'
<1>1. /\ UNCHANGED <<env, loc, out>> /\ job \in Job
      /\ \A w \in Workers : pc'[w] \in {"claim", "none"}
  <2>1. /\ UNCHANGED <<env, loc, out>> /\ job \in Job /\ pc[Main] = "plan"
        /\ \A w \in Workers : pc'[w] = "claim" \/ pc'[w] = pc[w]
    BY Cast DEF Plan, Runs, OInv, TypeOK
  <2> QED
    BY <2>1 DEF OInv, Flow, Unstarted
<1>2. job'.gop_data = job.gop_data
  BY <1>1 DEF Plan, Job
<1> QED
  BY <1>1, <1>2, SameBytes DEF Busy

LEMMA WriteBytes == ASSUME OInv, OInv', BInv, Write PROVE BInv'
<1>1. UNCHANGED <<env, job, loc>> /\ ((\E at : pc' = [pc EXCEPT ![Main] = at]) \/ pc' = pc)
  BY DEF Write, Goes, Waits
<1>2. CASE out' = out
  BY <1>1, <1>2, OthersBytes DEF Write
<1>3. CASE out' # out
  <2> DEFINE e == Emitted
  <2>1. PICK x : /\ x = IF e \in DOMAIN job.gop_data THEN job.gop_data[e] ELSE [g |-> e]
                 /\ out' = Append(out, x)
    BY <1>3 DEF Write
  <2>2. x \in Bytes => Filled(x)
    <3>1. [g |-> e] \notin Bytes
      <4>1. DOMAIN [g |-> e] = {"g"}
        OBVIOUS
      <4>2. \A d \in Bytes : "end" \in DOMAIN d
        BY DEF Bytes
      <4> QED
        BY <4>1, <4>2
    <3> QED
      BY <2>1, <3>1 DEF BInv
  <2>3. \A i \in 1..Len(out') : (i \in 1..Len(out) /\ out'[i] = out[i]) \/ out'[i] = x
    BY <2>1 DEF OInv, TypeOK
  <2>4. \A w \in Workers : pc'[w] = pc[w]
    BY <1>1, Cast DEF OInv, TypeOK, Write
  <2> QED
    BY <1>1, <2>2, <2>3, <2>4, SameFilled DEF BInv, Emitted, Write
<1> QED
  BY <1>2, <1>3

LEMMA MainBytes == ASSUME OInv, OInv', BInv, MainStep PROVE BInv'
<1>1. CASE Split \/ Abandon \/ WriteFails \/ Join
  <2>1. /\ UNCHANGED <<env, loc, out>> /\ job \in Job
        /\ (\E at : pc' = [pc EXCEPT ![Main] = at]) \/ pc' = pc
    BY <1>1 DEF Split, Abandon, WriteFails, Join, Goes, Waits, OInv, TypeOK
  <2>2. job'.gop_data = job.gop_data
    BY <1>1, <2>1 DEF Split, Abandon, WriteFails, Join, Job
  <2> QED
    BY <2>1, <2>2, OthersBytes
<1> QED
  BY <1>1, PlanBytes, WriteBytes DEF MainStep

\* A worker that moves to where it has no bytes, or keeps those it has.
LEMMA WorkerBytes ==
  ASSUME OInv, BInv, NEW w \in Workers, NEW at, pc' = [pc EXCEPT ![w] = at],
         NEW l, loc' = [loc EXCEPT ![w] = l], at \in Busy \ {"carry"} => Fills(l),
         UNCHANGED <<env, out>>, job'.gop_data = job.gop_data
  PROVE  BInv'
<1>1. \A v \in Workers \ {w} : pc'[v] = pc[v] /\ loc'[v] = loc[v]
  BY Cast DEF OInv, TypeOK
<1>2. pc'[w] = at /\ loc'[w] = l
  BY Cast DEF OInv, TypeOK
<1> QED
  BY <1>1, <1>2, SameBytes

\* A worker that looks for its GOP.
LEMMA SeekBytes ==
  ASSUME OInv, BInv, NEW w \in Workers, NEW l \in Local, l.g >= 0, Seek(w, l, job),
         UNCHANGED <<env, out>>, job'.gop_data = job.gop_data
  PROVE  BInv'
<1>1. PICK at \in {"leave", "seek", "empty", "carry"}, m \in Local :
        pc' = [pc EXCEPT ![w] = at] /\ loc' = [loc EXCEPT ![w] = m]
  BY Sought
<1> QED
  BY <1>1, WorkerBytes DEF Busy

LEMMA CarryBytes == ASSUME OInv, BInv, NEW w \in Workers, Carry(w) PROVE BInv'
<1>1. /\ pc[w] = "carry" /\ UNCHANGED <<env, job, out>> /\ loc[w] \in Local
      /\ loc[w].i = loc[w].first
  BY DEF Carry, Runs, OInv, TypeOK, Work, Stands
<1>2. CASE UNCHANGED <<loc, pc>>
  BY <1>1, <1>2, SameBytes DEF Busy
<1>3. CASE ~UNCHANGED <<loc, pc>>
  <2>1. PICK c, b :
          /\ b = Output(loc[w].g, <<"headers", loc[w].g>>)
          /\ loc' = [loc EXCEPT ![w].carry = c, ![w].bytes = b]
          /\ pc' = [pc EXCEPT ![w] = "feed"]
    BY <1>3 DEF Carry, Goes, Waits
  <2>2. PICK l : l = [loc[w] EXCEPT !.carry = c, !.bytes = b]
    OBVIOUS
  <2>3. l.g = loc[w].g /\ l.i = loc[w].i /\ l.first = loc[w].first /\ l.bytes = b
    BY ONLY <1>1, <2>2 DEF Local
  <2>4. loc[w].first \in Nat
    BY <1>1 DEF Local
  <2>5. Sofar(l.g, l.first, l.first) = b
    <3>1. loc[w].first..(loc[w].first - 1) = {}
      BY <2>4
    <3> QED
      BY <2>1, <2>3, <3>1 DEF Sofar
  <2>6. Fills(l)
    BY <1>1, <2>3, <2>4, <2>5 DEF Fills
  <2>7. loc' = [loc EXCEPT ![w] = l]
    BY <2>1, <2>2 DEF OInv, TypeOK
  <2>8. job'.gop_data = job.gop_data /\ env' = env /\ out' = out
    BY <1>1
  <2> QED
    BY <2>1, <2>6, <2>7, <2>8, WorkerBytes
<1> QED
  BY <1>2, <1>3

LEMMA FeedBytes == ASSUME OInv, BInv, NEW w \in Workers, Feed(w) PROVE BInv'
<1>1. /\ pc[w] \in {"feed", "starve"} /\ UNCHANGED <<env, loc, out>> /\ job \in Job
      /\ loc' = [loc EXCEPT ![w] = loc[w]]
      /\ \E at : pc' = [pc EXCEPT ![w] = at]
  BY DEF Feed, Goes, OInv, TypeOK
<1>2. job'.gop_data = job.gop_data
  BY <1>1 DEF Feed, Job
<1>3. Fills(loc[w])
  BY <1>1 DEF BInv, Busy
<1> QED
  BY <1>1, <1>2, <1>3, WorkerBytes

LEMMA CodeBytes == ASSUME OInv, BInv, NEW w \in Workers, Code(w) PROVE BInv'
<1>1. /\ pc[w] = "code" /\ UNCHANGED <<env, out>> /\ job \in Job /\ loc[w] \in Local
      /\ Fills(loc[w])
  BY DEF Code, Runs, OInv, TypeOK, BInv, Busy
<1>2. PICK i \in Nat, a \in Nat : i = loc[w].i /\ a = loc[w].first /\ a <= i
  BY <1>1 DEF Local, Fills
<1>3. PICK b : b = loc[w].bytes \cup Output(loc[w].g, <<"frame", i>>)
  OBVIOUS
<1>4. PICK l : l = [loc[w] EXCEPT !.i = i + 1, !.bytes = b]
  OBVIOUS
<1>5. l.g = loc[w].g /\ l.i = i + 1 /\ l.first = a /\ l.bytes = b
  BY ONLY <1>1, <1>2, <1>4 DEF Local
<1>6. Fills(l)
  <2>1. loc[w].bytes = Sofar(l.g, a, i)
    BY <1>1, <1>2, <1>5 DEF Fills
  <2>2. b = Sofar(l.g, a, i + 1)
    BY <1>2, <1>3, <1>5, <2>1, OneMore
  <2> QED
    BY <1>2, <1>5, <2>2 DEF Fills
<1>7. /\ loc' = [loc EXCEPT ![w] = l] /\ (\E at : pc' = [pc EXCEPT ![w] = at])
      /\ job' = [job EXCEPT !.freed = job.freed \cup {i}]
  BY <1>2, <1>3, <1>4 DEF Code, Goes
<1>8. job'.gop_data = job.gop_data
  BY <1>1, <1>7 DEF Job
<1> QED
  BY <1>1, <1>6, <1>7, <1>8, WorkerBytes

LEMMA PublishBytes == ASSUME OInv, BInv, NEW w \in Workers, Publish(w) PROVE BInv'
<1>1. /\ pc[w] = "publish" /\ UNCHANGED <<env, loc, out>> /\ job \in Job /\ loc[w] \in Local
      /\ Fills(loc[w]) /\ pc' = [pc EXCEPT ![w] = "claim"]
  BY DEF Publish, Runs, Goes, OInv, TypeOK, BInv, Busy
<1>2. PICK d : d = [g |-> loc[w].g, first |-> loc[w].first, end |-> loc[w].i,
                   carry |-> loc[w].carry, bytes |-> loc[w].bytes \cup Flushed(loc[w].g)]
  OBVIOUS
<1>3. Filled(d)
  BY <1>1, <1>2 DEF Fills, Filled
<1>4. PICK data : data = Stored(job.gop_data, loc[w].g, d)
  OBVIOUS
<1>5. job'.gop_data = data
  BY <1>1, <1>2, <1>4 DEF Publish, Job
<1>6. \A g \in DOMAIN data : data[g] = d \/ (g \in DOMAIN job.gop_data /\ data[g] = job.gop_data[g])
  BY <1>4 DEF Stored
<1>7. \A v \in Workers : pc'[v] \in Busy \ {"carry"} => pc[v] \in Busy \ {"carry"}
  BY <1>1, Cast DEF OInv, TypeOK, Busy
<1> QED
  BY <1>1, <1>3, <1>5, <1>6, <1>7, SameFilled DEF BInv, Emitted

LEMMA WorkersBytes == ASSUME OInv, BInv, NEW w \in Workers, WorkerStep(w) PROVE BInv'
<1>1. CASE Claim(w)
  <2>1. PICK l \in Local : l.g \in Nat /\ Seek(w, l, job)
    BY <1>1, Claimed
  <2>2. job'.gop_data = job.gop_data /\ UNCHANGED <<env, out>>
    BY <1>1 DEF Claim, OInv, TypeOK, Job
  <2>3. l.g >= 0
    BY <2>1
  <2> QED
    BY <2>1, <2>2, <2>3, SeekBytes
<1>2. CASE SeekAgain(w)
  <2>1. loc[w] \in Local /\ loc[w].g >= 0
    BY <1>2 DEF SeekAgain, Runs, OInv, TypeOK, Work, Stands
  <2> QED
    BY <1>2, <2>1, SeekBytes DEF SeekAgain
<1>3. CASE PublishEmpty(w) \/ Leave(w)
  <2>1. /\ UNCHANGED <<env, loc, out>> /\ job \in Job /\ loc' = [loc EXCEPT ![w] = loc[w]]
        /\ \E at \in {"claim", "gone"} : pc' = [pc EXCEPT ![w] = at]
    BY <1>3 DEF PublishEmpty, Leave, Goes, OInv, TypeOK
  <2>2. job'.gop_data = job.gop_data
    BY <1>3, <2>1 DEF PublishEmpty, Leave, Job
  <2> QED
    BY <2>1, <2>2, WorkerBytes DEF Busy
<1> QED
  BY <1>1, <1>2, <1>3, CarryBytes, FeedBytes, CodeBytes, PublishBytes DEF WorkerStep

LEMMA NextBInv == OInv /\ OInv' /\ BInv /\ [Next]_vars => BInv'
<1> SUFFICES ASSUME OInv, OInv', BInv, [Next]_vars PROVE BInv'
  OBVIOUS
<1>1. CASE \E t \in Threads : SpuriousWake(t)
  BY <1>1, SameBytes DEF SpuriousWake
<1>2. CASE Returned \/ UNCHANGED vars
  BY <1>2, SameBytes DEF Returned, vars
<1> QED
  BY <1>1, <1>2, ReaderBytes, MainBytes, WorkersBytes DEF Next

-----------------------------------------------------------------------------
(* How it ends: with all GOPs written, or with an error somebody reports *)

Stopped ==
    \/ job.gops_final /\ Emitted = NGops
    \/ job.rerr \/ Refused \/ env.wfail \in 0..(Emitted - 1)

\* Until the writer itself stops the job, only a read error aborts it.
EInv ==
    /\ pc[Main] \notin {"wfailed", "join", "returned"} => (job.abort => job.rerr)
    /\ pc[Main] = "wfailed" => env.wfail \in 0..(Emitted - 1)
    /\ pc[Main] \in {"join", "returned"} => Stopped

LEMMA InitEInv == Init => EInv
<1> SUFFICES ASSUME Init PROVE EInv
  OBVIOUS
<1>1. pc[Main] = "split" /\ ~job.abort
  BY Cast DEF Init
<1> QED
  BY <1>1 DEF EInv

\* A step that leaves the main thread where it is: the errors are for good,
\* and so is a final table.
LEMMA OthersEnd ==
  ASSUME EInv, pc'[Main] = pc[Main], UNCHANGED <<env, plan, out>>,
         job.rerr => job'.rerr, job'.abort => job.abort \/ job'.rerr,
         job.gops_final => job'.gops_final /\ job'.gop_start = job.gop_start
  PROVE  EInv'
<1>1. Stopped => Stopped'
  BY DEF Stopped, Emitted, NGops, Refused
<1> QED
  BY <1>1 DEF EInv, Emitted

LEMMA ReaderEnd == ASSUME OInv, EInv, ReaderStep PROVE EInv'
<1>1. /\ job \in Job /\ UNCHANGED <<env, plan, out>>
      /\ pc' = pc \/ \E at : pc' = [pc EXCEPT ![Reader] = at]
  BY DEF OInv, TypeOK, ReaderStep, ReadHeader, ReadRoom, ReadFrame, ReadTail, ReaderFails,
         Goes, Waits
<1>2. pc'[Main] = pc[Main]
  BY <1>1, Cast DEF OInv, TypeOK
<1>3. CASE ReaderFails \/ job' = job
  BY <1>1, <1>2, <1>3, OthersEnd DEF ReaderFails, Job
<1>4. ASSUME ReadFrame, ~Bad("payload") PROVE EInv'
  <2> DEFINE n == job.n_read + 1
             ends == ~job.gops_final /\ n % env.keyint = 0
  <2>1. CASE ends /\ Bad("table")
    BY <1>1, <1>2, <1>4, <2>1, OthersEnd DEF ReadFrame, Job
  <2>2. CASE ~(ends /\ Bad("table"))
    <3>1. PICK T : /\ job' = [job EXCEPT !.n_read = n, !.gop_start = T]
                   /\ job.gops_final => T = job.gop_start
      BY <1>4, <2>2 DEF ReadFrame
    <3>2. /\ job'.rerr = job.rerr /\ job'.abort = job.abort
          /\ job'.gops_final = job.gops_final /\ job'.gop_start = T
      BY <1>1, <3>1 DEF Job
    <3> QED
      BY <1>1, <1>2, <3>1, <3>2, OthersEnd
  <2> QED
    BY <2>1, <2>2
<1>5. ASSUME ReadTail, ~ReaderFails PROVE EInv'
  <2>1. PICK T : /\ job' = [job EXCEPT !.eof = TRUE, !.gops_final = TRUE, !.gop_start = T]
                 /\ job.gops_final => T = job.gop_start
    BY <1>5 DEF ReadTail
  <2>2. /\ job'.rerr = job.rerr /\ job'.abort = job.abort
        /\ job'.gops_final /\ job'.gop_start = T
    BY <1>1, <2>1 DEF Job
  <2> QED
    BY <1>1, <1>2, <2>1, <2>2, OthersEnd
<1>6. ReaderFails \/ job' = job \/ (ReadFrame /\ ~Bad("payload")) \/ (ReadTail /\ ~ReaderFails)
  BY DEF ReaderStep, ReadHeader, ReadRoom, ReadFrame, ReadTail
<1> QED
  BY <1>3, <1>4, <1>5, <1>6

LEMMA WorkersEnd == ASSUME OInv, EInv, NEW w \in Workers, WorkerStep(w) PROVE EInv'
<1>1. /\ job \in Job /\ UNCHANGED <<env, plan, out>>
      /\ \E at : pc' = [pc EXCEPT ![w] = at]
  BY DEF OInv, TypeOK, WorkerStep, Claim, SeekAgain, PublishEmpty, Carry, Feed, Code, Publish,
         Leave, Seek, Goes, Waits
<1>2. pc'[Main] = pc[Main]
  BY <1>1, Cast DEF OInv, TypeOK
<1>3. /\ job'.rerr = job.rerr /\ job'.abort = job.abort
      /\ job'.gops_final = job.gops_final /\ job'.gop_start = job.gop_start
  <2>1. CASE Claim(w) \/ SeekAgain(w) \/ PublishEmpty(w) \/ Carry(w) \/ Leave(w)
    BY <1>1, <2>1 DEF Claim, SeekAgain, PublishEmpty, Carry, Leave, Job
  <2>2. CASE Feed(w) \/ Code(w)
    BY <1>1, <2>2 DEF Feed, Code, Job
  <2>3. CASE Publish(w)
    BY <1>1, <2>3 DEF Publish, Job
  <2> QED
    BY <2>1, <2>2, <2>3 DEF WorkerStep
<1> QED
  BY <1>1, <1>2, <1>3, OthersEnd

LEMMA MainEnd == ASSUME OInv, OInv', EInv, MainStep PROVE EInv'
<1>1. job \in Job /\ pc \in [Threads -> Labels] /\ UNCHANGED env
  BY DEF OInv, TypeOK, MainStep, Split, Abandon, Plan, Write, WriteFails, Join
<1>2. CASE Split
  <2>1. pc[Main] = "split" /\ pc'[Main] \in {"split", "plan"}
    BY <1>1, <1>2, Cast DEF Split, Runs, Goes, Waits
  <2>2. job'.rerr = job.rerr /\ job'.abort = job.abort
    BY <1>1, <1>2 DEF Split, Job
  <2> QED
    BY <2>1, <2>2 DEF EInv
<1>3. CASE Abandon
  <2>1. /\ pc[Main] = "plan" /\ pc'[Main] = "join" /\ plan' = plan /\ out' = out /\ out = <<>>
        /\ job.rerr \/ (job.gops_final /\ NGops = 0) \/ Refused
    BY <1>1, <1>3, Cast DEF Abandon, Runs, Goes, OInv, Flow, Unstarted
  <2>2. job'.rerr = job.rerr /\ job'.gops_final = job.gops_final /\ job'.gop_start = job.gop_start
    BY <1>1, <1>3 DEF Abandon, Job
  <2>3. Stopped'
    BY <1>1, <2>1, <2>2 DEF Stopped, Emitted, NGops, Refused
  <2> QED
    BY <2>1, <2>3 DEF EInv
<1>4. CASE Plan
  <2>1. pc[Main] = "plan" /\ pc'[Main] = "write"
    <3>1. PICK f : pc' = [t \in Threads |-> IF t = Main THEN "write" ELSE f[t]]
      <4>1. PICK n : pc' = [t \in Threads |-> CASE t = Main -> "write"
                                                [] t \in 0..n -> "claim"
                                                [] OTHER -> pc[t]]
        BY <1>4 DEF Plan
      <4> DEFINE f == [t \in Threads |-> IF t \in 0..n THEN "claim" ELSE pc[t]]
      <4>2. pc' = [t \in Threads |-> IF t = Main THEN "write" ELSE f[t]]
        BY <4>1, Cast DEF Main
      <4> QED
        BY <4>2
    <3>2. pc[Main] = "plan"
      BY <1>4 DEF Plan, Runs
    <3> QED
      BY <3>1, <3>2, Cast
  <2>2. job'.rerr = job.rerr /\ job'.abort = job.abort
    BY <1>1, <1>4 DEF Plan, Job
  <2> QED
    BY <2>1, <2>2 DEF EInv
<1>5. CASE Write
  <2>1. pc[Main] = "write" /\ UNCHANGED <<job, plan>> /\ (job.abort => job.rerr)
    BY <1>5 DEF Write, Runs, EInv
  <2>2. CASE WriterDone
    <3>1. pc'[Main] = "join" /\ out' = out
      BY <1>1, <1>5, <2>2, Cast DEF Write, Goes
    <3>2. Emitted \in Nat /\ NGops \in Int
      BY Lengths DEF OInv, TypeOK, Emitted
    <3>3. Emitted <= NGops
      <4>1. CASE Emitted = 0
        BY <3>2, <4>1 DEF OInv, Table, TypeOK, Job, NGops
      <4>2. CASE Emitted # 0
        <5>1. Known(Emitted - 1)
          BY <3>2, <4>2 DEF OInv, Written
        <5> QED
          BY <3>2, <5>1 DEF Known
      <4> QED
        BY <4>1, <4>2
    <3>4. Stopped
      BY <2>1, <2>2, <3>2, <3>3 DEF WriterDone, Stopped
    <3> QED
      BY <1>1, <2>1, <3>1, <3>4 DEF EInv, Stopped, Emitted, NGops, Refused
  <2>3. CASE ~WriterDone /\ Emitted \in job.gop_done
    <3>1. pc'[Main] = IF WriteBreaks THEN "wfailed" ELSE "write"
      BY <1>1, <1>5, <2>3, Cast DEF Write, Goes
    <3>2. PICK x : out' = Append(out, x)
      BY <1>5, <2>3 DEF Write
    <3>3. Emitted \in Nat /\ Emitted' = Emitted + 1
      BY <3>2 DEF OInv, TypeOK, Emitted
    <3>4. WriteBreaks => env'.wfail \in 0..(Emitted' - 1)
      BY <1>1, <3>3 DEF WriteBreaks
    <3> QED
      BY <2>1, <3>1, <3>4 DEF EInv
  <2>4. CASE ~WriterDone /\ Emitted \notin job.gop_done
    <3>1. pc' = pc
      BY <1>5, <2>4 DEF Write, Waits
    <3> QED
      BY <2>1, <3>1 DEF EInv
  <2> QED
    BY <2>2, <2>3, <2>4
<1>6. CASE WriteFails
  <2>1. pc[Main] = "wfailed" /\ pc'[Main] = "join" /\ out' = out
    BY <1>1, <1>6, Cast DEF WriteFails, Runs, Goes
  <2>2. env'.wfail \in 0..(Emitted' - 1)
    BY <1>1, <2>1 DEF EInv, Emitted
  <2> QED
    BY <2>1, <2>2 DEF EInv, Stopped
<1>7. CASE Join
  <2>1. pc[Main] = "join" /\ pc'[Main] = "returned" /\ UNCHANGED <<job, plan, out>>
    BY <1>1, <1>7, Cast DEF Join, Runs, Goes
  <2> QED
    BY <1>1, <2>1 DEF EInv, Stopped, Emitted, NGops, Refused
<1> QED
  BY <1>2, <1>3, <1>4, <1>5, <1>6, <1>7 DEF MainStep

LEMMA NextEInv == OInv /\ OInv' /\ EInv /\ [Next]_vars => EInv'
<1> SUFFICES ASSUME OInv, OInv', EInv, [Next]_vars PROVE EInv'
  OBVIOUS
<1>1. CASE \E t \in Threads : SpuriousWake(t)
  BY <1>1, OthersEnd DEF SpuriousWake
<1>2. CASE Returned \/ UNCHANGED vars
  BY <1>2, OthersEnd DEF Returned, vars
<1> QED
  BY <1>1, <1>2, ReaderEnd, MainEnd, WorkersEnd DEF Next

-----------------------------------------------------------------------------
\* What the invariants say of the output.
LEMMA WholeOutput == OInv /\ BInv /\ EInv => OutputWhole
<1> SUFFICES ASSUME OInv, BInv, NEW i \in 1..Emitted, NEW g, g = i - 1
             PROVE  /\ g < NGops
                    /\ IF "first" \in DOMAIN out[i]
                       THEN /\ out[i].g = g /\ Fed(out[i]) = Frames(g)
                            /\ out[i].bytes =
                                  (UNION {Output(g, call) : call \in Owed(g)}) \cup Flushed(g)
                       ELSE Frames(g) = {}
  BY DEF OutputWhole, EInv, Stopped
<1>1. /\ Known(g) /\ NGops \in Int /\ job.n_read \in Nat /\ g \in Nat /\ g < NGops
      /\ \/ out[i] \in Bytes /\ Good(out[i], g)
         \/ out[i] \in [g : Nat] /\ Nothing(g)
  BY Lengths DEF OInv, TypeOK, Job, Written, Known
<1>2. PICK a \in Nat, b \in Nat : a = GopStart(g) /\ b = GopStart(g + 1) /\ a < b
  <2>1. g + 1 \in 1..NGops /\ g + 2 \in 1..Len(job.gop_start) /\ g + 1 \in 1..Len(job.gop_start)
        /\ (g + 1) + 1 = g + 2
    BY <1>1 DEF Known, NGops
  <2>2. \A x \in 1..Len(job.gop_start) : job.gop_start[x] \in Nat
    BY DEF OInv, TypeOK, Job
  <2> QED
    BY <2>1, <2>2 DEF GopStart, OInv, Table
<1>5. Frames(g) = {f \in a..(b - 1) : f < job.n_read}
  BY <1>2 DEF Frames
<1>3. CASE out[i] \in Bytes /\ Good(out[i], g)
  <2>1. PICK e \in Nat : e = out[i].end
    BY <1>3 DEF Bytes
  <2>2. Fed(out[i]) = a..(e - 1) /\ out[i].g = g /\ out[i].first = a /\ "first" \in DOMAIN out[i]
    BY <1>2, <1>3, <2>1 DEF Fed, Good, Bytes
  <2>3. (e = b /\ e <= job.n_read) \/ (e = job.n_read /\ e <= b)
    BY <1>2, <1>3, <2>1 DEF Good, WholeTo
  <2>4. a..(e - 1) = Frames(g)
    <3>1. a..(e - 1) = {f \in a..(b - 1) : f < job.n_read}
      BY <1>1, <2>3
    <3> QED
      BY <1>5, <3>1
  <2>5. out[i].bytes = Sofar(g, a, e) \cup Flushed(g)
    BY <1>3, <2>1, <2>2 DEF BInv, Filled
  <2>6. Sofar(g, a, e) = UNION {Output(g, call) : call \in Owed(g)}
    <3>1. PICK F : F = Frames(g)
      OBVIOUS
    <3>2. UNION {Output(g, call) : call \in {<<"headers", g>>} \cup {<<"frame", f>> : f \in F}}
          = Output(g, <<"headers", g>>) \cup UNION {Output(g, <<"frame", f>>) : f \in F}
      <4> DEFINE calls == {<<"headers", g>>} \cup {<<"frame", f>> : f \in F}
      <4>1. ASSUME NEW x
            PROVE  (\E call \in calls : x \in Output(g, call))
                   <=> (x \in Output(g, <<"headers", g>>) \/ \E f \in F : x \in Output(g, <<"frame", f>>))
        <5>1. \A call : call \in calls <=> (call = <<"headers", g>> \/ \E f \in F : call = <<"frame", f>>)
          OBVIOUS
        <5> HIDE DEF calls
        <5> QED
          BY <5>1, Zenon
      <4> HIDE DEF calls
      <4>2. UNION {Output(g, call) : call \in calls}
            = Output(g, <<"headers", g>>) \cup UNION {Output(g, <<"frame", f>>) : f \in F}
        BY <4>1, Zenon
      <4> QED
        BY <4>2 DEF calls
    <3> QED
      BY <2>4, <3>1, <3>2 DEF Sofar, Owed
  <2> QED
    BY <1>1, <2>2, <2>4, <2>5, <2>6
<1>4. CASE out[i] \in [g : Nat] /\ Nothing(g)
  <2>1. DOMAIN out[i] = {"g"}
    BY <1>4
  <2>3. {f \in a..(b - 1) : f < job.n_read} = {}
    BY <1>1, <1>2, <1>4 DEF Nothing
  <2> QED
    BY <1>1, <1>5, <2>1, <2>3
<1> QED
  BY <1>1, <1>3, <1>4

LEMMA Invariant == Spec => []OInv
  BY InitOInv, NextOInv, PTL DEF Spec

LEMMA BytesInvariant == Spec => []BInv
<1>1. OInv /\ BInv /\ [Next]_vars => BInv'
  BY NextOInv, NextBInv
<1> QED
  BY <1>1, InitBInv, Invariant, PTL DEF Spec

LEMMA EndInvariant == Spec => []EInv
<1>1. OInv /\ EInv /\ [Next]_vars => EInv'
  BY NextOInv, NextEInv
<1> QED
  BY <1>1, InitEInv, Invariant, PTL DEF Spec

\* What is written is the input, GOP after GOP, whatever order the workers ran
\* in and whichever read, write or call of an encoder failed: every frame that
\* was read was handed to its encoder, the bytes are those of every call that
\* did not fail, and encode_threaded ends short only with an error it reports.
THEOREM OutputIsInput == Spec => []OutputWhole
  BY Invariant, BytesInvariant, EndInvariant, WholeOutput, PTL

-----------------------------------------------------------------------------
(* The inductive invariant of the rate control.                             *)

\* The frames of the GOPs named between place k and that of its predecessor.
Span(k) ==
    LET between == {i \in (k - plan.g + 1)..(k - 1) : Handed(i) # None}
    IN SumFunction([i \in between |-> GopLen(Handed(i))])

\* Whether c is what a GOP is to start from that has the one of place j before
\* it, and n frames between them.
From(j, n, c) ==
    LET p == Handed(j)
    IN \/ p = None /\ c = <<>>
       \/ Known(p) /\ Opens(p) /\ GopStart(p) < job.n_read /\ c = <<p, n>>
       \/ Known(p) /\ (Nothing(p) \/ ~Opens(p)) /\ c = <<>>

\* Whether c is what GOP g is to start from, now and for good.
Expected(g, c) ==
    LET k == Place(g)
    IN IF ~env.abr \/ plan.owned \/ k < plan.g \/ ~Opens(g) THEN c = <<>>
       ELSE k \in 0..job.next_gop - 1 /\ k < NGops /\ From(k - plan.g, Span(k), c)

\* The places are handed out in the order of the queue, each with the name of
\* its GOP or none.
Places ==
    env.abr =>
      /\ \A i \in 1..job.next_gop :
            /\ job.pull_gop[i] = None \/ (i <= NGops /\ job.pull_gop[i] = Given(i - 1))
            /\ plan.known /\ i <= NGops => job.pull_gop[i] # None
      /\ \A w \in Workers : pc[w] \in AtWork =>
            IF plan.owned THEN loc[w].k = None
            ELSE loc[w].k \in 0..job.next_gop - 1 /\ loc[w].g = FromQueue(loc[w].k)

\* A state is there for each GOP that is done, but the empty ones and those whose
\* encoder was not opened.
Imports ==
    env.abr /\ ~job.abort => \A p \in job.rc_ready :
        \/ p \in job.rc_state /\ Opens(p) /\ GopStart(p) < job.n_read
        \/ p \notin job.rc_state /\ (Nothing(p) \/ ~Opens(p))

\* What a worker imported, what is published and what is written.
Opened == Busy \ {"carry"}
Held == ~job.abort => \A w \in Workers : pc[w] \in Opened => Expected(loc[w].g, loc[w].carry)
Done == ~job.abort => \A g \in DOMAIN job.gop_data : Expected(g, job.gop_data[g].carry)
Sent == \A i \in 1..Emitted : out[i] \in Bytes => Expected(i - 1, out[i].carry)

CInv == ~Unstarted => Places /\ Imports /\ Held /\ Done /\ Sent

\* The k-th place is that of the k-th GOP of the queue.
LEMMA PlaceOfGiven ==
  ASSUME OInv, NEW k \in 0..NGops - 1
  PROVE  Known(Given(k)) /\ Place(Given(k)) = k
<1>1. NGops \in Int /\ TypeOK
  BY Lengths DEF OInv
<1>2. CASE plan.order = <<>>
  BY <1>2 DEF Given, Place, Known
<1>3. CASE plan.order # <<>>
  <2>1. /\ Len(plan.order) = NGops
        /\ \A i \in 1..NGops : plan.order[i] \in 0..NGops - 1
        /\ \A i, j \in 1..NGops : plan.order[i] = plan.order[j] => i = j
    BY <1>3 DEF OInv, Order
  <2>2. k + 1 \in 1..NGops
    BY <1>1
  <2>3. Given(k) = plan.order[k + 1] /\ Known(Given(k))
    BY <1>3, <2>1, <2>2 DEF Given, Known
  <2>4. PICK j : j = CHOOSE i \in 1..Len(plan.order) : plan.order[i] = Given(k)
    OBVIOUS
  <2>5. j \in 1..NGops /\ plan.order[j] = plan.order[k + 1]
    BY <2>1, <2>2, <2>3, <2>4
  <2>6. j = k + 1
    BY <2>1, <2>2, <2>5
  <2>7. Place(Given(k)) = j - 1
    BY <1>3, <2>4 DEF Place
  <2> QED
    BY <2>3, <2>6, <2>7
<1> QED
  BY <1>2, <1>3

\* A step once the workers may run: the plan is settled, and what was handed out
\* stays so.
Onward ==
    /\ env' = env /\ plan' = plan /\ Grows
    /\ job'.next_gop >= job.next_gop
    /\ \A i \in 1..job.next_gop : job'.pull_gop[i] = job.pull_gop[i]

\* The frames between two places are those of the same GOPs as before.
LEMMA SpanStays ==
  ASSUME OInv, Onward, TypeOK', NEW k \in 0..job.next_gop - 1, plan.g <= k
  PROVE  Span(k)' = Span(k)
<1>1. job.next_gop \in Nat /\ plan.g \in Nat /\ TypeOK /\ plan'.g = plan.g /\ Grows
  BY DEF OInv, TypeOK, Job, Settings, Onward
<1>2. PICK S : S = (k - plan.g + 1)..(k - 1)
  OBVIOUS
<1>3. \A i \in S : i + 1 \in 1..job.next_gop
  BY <1>1, <1>2
<1>4. \A i \in S : Handed(i)' = Handed(i) /\ (Handed(i) # None => Known(Handed(i)))
  BY <1>3 DEF Handed, Onward, OInv, Handouts
<1>5. PICK D : D = {i \in S : Handed(i) # None}
  OBVIOUS
<1>6. {i \in S : Handed(i)' # None} = D
  BY <1>4, <1>5
<1>7. \A i \in D : GopLen(Handed(i))' = GopLen(Handed(i))
  <2> TAKE i \in D
  <2>1. PICK p : p = Handed(i) /\ p = Handed(i)' /\ Known(p)
    BY <1>4, <1>5
  <2>2. GopStart(p)' = GopStart(p) /\ GopStart(p + 1)' = GopStart(p + 1)
    BY <1>1, <2>1, Steady
  <2> QED
    BY <2>1, <2>2 DEF GopLen
<1>8. PICK f, h : f = [i \in D |-> GopLen(Handed(i))] /\ h = [i \in D |-> GopLen(Handed(i))']
  OBVIOUS
<1>9. f = h
  BY <1>7, <1>8
<1>10. Span(k) = SumFunction(f)
  BY <1>2, <1>5, <1>8 DEF Span
<1>11. Span(k)' = SumFunction(h)
  BY <1>1, <1>2, <1>6, <1>8 DEF Span
<1> QED
  BY <1>9, <1>10, <1>11

LEMMA ExpectedStays ==
  ASSUME OInv, Onward, TypeOK'
  PROVE  /\ \A g, c : Expected(g, c) => Expected(g, c)'
         /\ \A k : Given(k)' = Given(k) /\ FromQueue(k)' = FromQueue(k)
         /\ \A p : Opens(p)' <=> Opens(p)
         /\ NGops \in Int /\ NGops' \in Int /\ NGops' >= NGops
         /\ plan.known => NGops' = NGops
         /\ \A p : Known(p) /\ GopStart(p) < job.n_read => GopStart(p)' < job'.n_read
         /\ \A p : Known(p) /\ Nothing(p) => Nothing(p)'
<1>1. /\ job.n_read \in Nat /\ job'.n_read \in Nat /\ TypeOK /\ Grows /\ plan' = plan /\ env' = env
      /\ job.next_gop \in Nat /\ job'.next_gop \in Nat /\ plan.g \in Nat
  BY DEF OInv, TypeOK, Job, Onward, Settings
<1>2. \A g : Place(g)' = Place(g) /\ Given(g)' = Given(g) /\ (Opens(g)' <=> Opens(g))
  BY <1>1 DEF Place, Given, Opens
<1>3. /\ NGops \in Int /\ NGops' \in Int /\ NGops' >= NGops
      /\ plan.known => NGops' = NGops
  <2>1. job.gop_start \in Seq(Nat) /\ job'.gop_start \in Seq(Nat)
    BY <1>1 DEF TypeOK, Job
  <2>2. plan.known => job'.gop_start = job.gop_start
    BY <1>1 DEF OInv, Flow, Grows
  <2> QED
    BY <1>1, <2>1, <2>2 DEF NGops, Grows
<1>4. \A k : FromQueue(k)' = FromQueue(k)
  <2>1. CASE plan.order = <<>>
    BY <1>1, <2>1 DEF FromQueue
  <2>2. CASE plan.order # <<>>
    BY <1>1, <1>3, <2>2 DEF FromQueue, OInv, Order
  <2> QED
    BY <2>1, <2>2
<1>5. /\ \A p : Known(p) /\ GopStart(p) < job.n_read => GopStart(p)' < job'.n_read
      /\ \A p : Known(p) /\ Nothing(p) => Nothing(p)'
      /\ \A p : Known(p) => Known(p)'
  BY <1>1, Steady
<1>6. ASSUME NEW g, NEW c, Expected(g, c) PROVE Expected(g, c)'
  <2>1. CASE ~env.abr \/ plan.owned \/ Place(g) < plan.g \/ ~Opens(g)
    BY <1>1, <1>2, <1>6, <2>1 DEF Expected
  <2>2. CASE ~(~env.abr \/ plan.owned \/ Place(g) < plan.g \/ ~Opens(g))
    <3>1. PICK k : k = Place(g) /\ k = Place(g)'
      BY <1>2
    <3>2. k \in 0..job.next_gop - 1 /\ k < NGops /\ From(k - plan.g, Span(k), c)
      BY <1>6, <2>2, <3>1 DEF Expected
    <3>3. plan.g <= k
      BY <1>1, <2>2, <3>1, <3>2
    <3>4. PICK n : n = Span(k) /\ n = Span(k)'
      BY <3>2, <3>3, SpanStays
    <3>5. PICK p : p = Handed(k - plan.g) /\ p = Handed(k - plan.g)'
      <4>1. (k - plan.g) + 1 \in 1..job.next_gop
        BY <1>1, <3>2, <3>3
      <4> QED
        BY <1>1, <4>1 DEF Handed, Onward
    <3>6. From(k - plan.g, n, c)'
      BY <1>2, <1>5, <3>2, <3>4, <3>5 DEF From
    <3>7. k \in 0..job'.next_gop - 1 /\ k < NGops'
      BY <1>1, <1>3, <3>2 DEF Onward
    <3> QED
      BY <1>1, <1>2, <2>2, <3>1, <3>4, <3>6, <3>7 DEF Expected
  <2> QED
    BY <2>1, <2>2
<1> QED
  BY <1>2, <1>3, <1>4, <1>5, <1>6

\* A step that hands nothing out, publishes nothing and opens no encoder.
LEMMA Kept ==
  ASSUME OInv, OInv', CInv, ~Unstarted, Onward,
         job'.next_gop = job.next_gop, job'.pull_gop = job.pull_gop,
         job'.rc_ready = job.rc_ready, job'.rc_state = job.rc_state,
         job'.gop_data = job.gop_data, out' = out,
         \A w \in Workers :
            /\ pc'[w] \in AtWork => pc[w] \in AtWork /\ loc'[w].k = loc[w].k /\ loc'[w].g = loc[w].g
            /\ pc'[w] \in Opened => pc[w] \in Opened /\ loc'[w].carry = loc[w].carry
  PROVE  CInv'
<1>1. /\ TypeOK' /\ Opened \subseteq AtWork /\ env' = env /\ plan' = plan
      /\ job.abort => job'.abort
  <2>1. TypeOK'
    BY DEF OInv
  <2>2. Opened \subseteq AtWork
    BY DEF Opened, AtWork
  <2> QED
    BY <2>1, <2>2 DEF Onward, Grows
<1>2. /\ \A g, c : Expected(g, c) => Expected(g, c)'
      /\ NGops \in Int /\ NGops' \in Int /\ NGops' >= NGops /\ (plan.known => NGops' = NGops)
      /\ \A k : Given(k)' = Given(k) /\ FromQueue(k)' = FromQueue(k)
      /\ \A p : Opens(p)' <=> Opens(p)
      /\ \A p : Known(p) /\ GopStart(p) < job.n_read => GopStart(p)' < job'.n_read
      /\ \A p : Known(p) /\ Nothing(p) => Nothing(p)'
  BY <1>1, ExpectedStays
<1>3. job.abort \in BOOLEAN /\ job'.abort \in BOOLEAN
  BY <1>1 DEF OInv, TypeOK, Job
<1>4. Places'
  <2>1. job.next_gop \in Nat /\ (env.abr => Places)
    BY DEF OInv, TypeOK, Job, CInv
  <2>2. env.abr => \A i \in 1..job.next_gop :
          /\ job.pull_gop[i] = None \/ (i <= NGops' /\ job.pull_gop[i] = Given(i - 1)')
          /\ plan.known /\ i <= NGops' => job.pull_gop[i] # None
    BY <1>2, <2>1 DEF Places
  <2>3. env.abr => \A w \in Workers : pc'[w] \in AtWork =>
            IF plan.owned THEN loc'[w].k = None
            ELSE /\ loc'[w].k \in 0..job.next_gop - 1
                 /\ \A k : k = loc'[w].k => loc'[w].g = FromQueue(k)'
    BY <1>2, <2>1 DEF Places
  <2> QED
    BY <1>1, <2>2, <2>3 DEF Places, AtWork, Busy
<1>5. Imports'
  BY <1>1, <1>2, <1>3 DEF CInv, Imports, OInv, Published
<1>6. Held'
  BY <1>1, <1>2 DEF CInv, Held
<1>7. Done'
  BY <1>1, <1>2 DEF CInv, Done
<1>8. Sent'
  BY <1>1, <1>2 DEF CInv, Sent, Emitted
<1> QED
  BY <1>4, <1>5, <1>6, <1>7, <1>8 DEF CInv

\* The workers start with nothing handed out.
LEMMA Fresh ==
  ASSUME OInv, Unstarted, OInv', Next PROVE CInv'
<1>1. CASE Unstarted'
  BY <1>1 DEF CInv
<1>2. CASE ~Unstarted'
  <2>1. pc'[Main] # pc[Main]
    BY <1>2 DEF Unstarted
  <2>2. pc[Main] \in {"split", "plan"} /\ pc \in [Threads -> Labels]
    BY DEF Unstarted, OInv, TypeOK
  <2>3. Abandon \/ Plan \/ Split
    <3>1. ~ReaderStep
      BY <2>1, <2>2, Cast DEF ReaderStep, ReadHeader, ReadRoom, ReadFrame, ReadTail, ReaderFails,
         Goes, Waits
    <3>2. \A w \in Workers : ~WorkerStep(w)
      <4> TAKE w \in Workers
      <4>1. pc[w] = "none"
        BY DEF OInv, Flow
      <4> QED
        BY <4>1 DEF WorkerStep, Claim, SeekAgain, PublishEmpty, Carry, Feed, Code, Publish, Leave, Runs
    <3>3. ~(\E t \in Threads : SpuriousWake(t)) /\ ~Returned
      BY <2>1 DEF SpuriousWake, Returned, vars
    <3>4. ~Write /\ ~WriteFails /\ ~Join
      BY <2>2 DEF Write, WriteFails, Join, Runs
    <3> QED
      BY <3>1, <3>2, <3>3, <3>4 DEF Next, MainStep
  <2>4. ~Split
    <3>1. ASSUME Split PROVE pc'[Main] \in {"split", "plan"}
      BY <2>2, <3>1, Cast DEF Split, Goes, Waits, Runs
    <3> QED
      BY <1>2, <3>1 DEF Unstarted
  <2>5. /\ job'.next_gop = job.next_gop /\ job'.rc_ready = job.rc_ready
        /\ job'.gop_data = job.gop_data /\ out' = out
        /\ \A w \in Workers : pc'[w] \notin AtWork
    <3>1. job \in Job /\ \A w \in Workers : pc[w] = "none"
      BY DEF OInv, TypeOK, Flow
    <3>2. CASE Abandon
      BY <2>2, <3>1, <3>2, Cast DEF Abandon, Goes, AtWork, Busy, Job
    <3>3. CASE Plan
      <4>1. PICK win : job' = [job EXCEPT !.window = win]
        BY <3>3 DEF Plan
      <4>2. \A w \in Workers : pc'[w] \in {"write", "claim", "none"}
        BY <3>1, <3>3, Cast DEF Plan
      <4>3. out' = out
        BY <3>3 DEF Plan
      <4> QED
        BY <3>1, <4>1, <4>2, <4>3 DEF AtWork, Busy, Job
    <3> QED
      BY <2>3, <2>4, <3>2, <3>3
  <2>6. /\ job'.next_gop = 0 /\ job'.rc_ready = {} /\ job'.gop_data = <<>> /\ out' = <<>>
    BY <2>5 DEF OInv, Flow
  <2>7. DOMAIN job'.gop_data = {}
    BY <2>6
  <2>8. Places' /\ Imports' /\ Held'
    BY <2>5, <2>6 DEF Places, Imports, Held, Opened, AtWork
  <2>9. Done' /\ Sent'
    BY <2>6, <2>7 DEF Done, Sent, Emitted
  <2> QED
    BY <2>8, <2>9 DEF CInv
<1> QED
  BY <1>1, <1>2

\* The steps of the reader and of the main thread, but for a GOP written.
LEMMA OthersCarry ==
  ASSUME OInv, OInv', CInv, ~Unstarted, out' = out,
         ReaderStep \/ Write \/ WriteFails \/ Join \/ (\E t \in Threads : SpuriousWake(t))
                    \/ Returned \/ UNCHANGED vars
  PROVE  CInv'
<1>1. /\ job \in Job /\ job.n_read \in Nat /\ pc \in [Threads -> Labels]
      /\ job.next_gop \in Nat /\ job.gop_start \in Seq(Nat)
  BY DEF OInv, TypeOK, Job
<1>2. env' = env /\ plan' = plan /\ loc' = loc
  BY DEF ReaderStep, ReadHeader, ReadRoom, ReadFrame, ReadTail, Write, WriteFails, Join,
     SpuriousWake, Returned, vars
<1>3. \A w \in Workers : pc'[w] = pc[w]
  <2>1. CASE ReaderStep
    BY <1>1, <2>1, Cast DEF ReaderStep, ReadHeader, ReadRoom, ReadFrame, ReadTail, ReaderFails,
       Goes, Waits
  <2>2. CASE Write \/ WriteFails \/ Join
    BY <1>1, <2>2, Cast DEF Write, WriteFails, Join, Goes, Waits
  <2> QED
    BY <2>1, <2>2 DEF SpuriousWake, Returned, vars
<1>4. CASE job' = job
  <2>1. Onward
    BY <1>1, <1>2, <1>4 DEF Onward, Grows
  <2> QED
    BY <1>2, <1>3, <1>4, <2>1, Kept
<1>5. CASE WriteFails
  <2>1. job' = [job EXCEPT !.abort = TRUE]
    BY <1>5 DEF WriteFails
  <2>2. Onward
    BY <1>1, <1>2, <2>1 DEF Onward, Grows, Job
  <2>3. /\ job'.next_gop = job.next_gop /\ job'.pull_gop = job.pull_gop
        /\ job'.rc_ready = job.rc_ready /\ job'.rc_state = job.rc_state
        /\ job'.gop_data = job.gop_data
    BY <1>1, <2>1 DEF Job
  <2> QED
    BY <1>2, <1>3, <2>2, <2>3, Kept
<1>6. CASE ReaderStep /\ job' # job
  <2>1. pc[Reader] # "gone"
    BY <1>6 DEF ReaderStep, ReadHeader, ReadRoom, ReadFrame, ReadTail, Runs
  <2>2. ~job.eof
    BY <2>1 DEF OInv, Flow
  <2>3. /\ job'.n_read \in {job.n_read, job.n_read + 1}
        /\ job.gops_final => job'.gop_start = job.gop_start
        /\ job'.gop_start = job.gop_start \/ \E n \in Nat : job'.gop_start = Append(job.gop_start, n)
        /\ job.abort => job'.abort
        /\ job'.next_gop = job.next_gop /\ job'.pull_gop = job.pull_gop
        /\ job'.rc_ready = job.rc_ready /\ job'.rc_state = job.rc_state
        /\ job'.gop_data = job.gop_data
    <3>1. CASE ReaderFails
      BY <1>1, <3>1 DEF ReaderFails, Job
    <3>2. CASE ReadFrame /\ ~ReaderFails
      <4>1. PICK n, T : /\ n = job.n_read + 1
                        /\ job.gops_final => T = job.gop_start
                        /\ T \in {job.gop_start, Append(job.gop_start, n)}
                        /\ \/ job' = [job EXCEPT !.n_read = n, !.gop_start = T]
                           \/ job' = [job EXCEPT !.n_read = n, !.rerr = TRUE,
                                                 !.abort = TRUE, !.eof = TRUE, !.gops_final = TRUE]
        BY <3>2 DEF ReadFrame, Pushed
      <4>2. /\ job'.n_read = n /\ (job'.gop_start = job.gop_start \/ job'.gop_start = T)
            /\ job.abort => job'.abort
            /\ job'.next_gop = job.next_gop /\ job'.pull_gop = job.pull_gop
            /\ job'.rc_ready = job.rc_ready /\ job'.rc_state = job.rc_state
            /\ job'.gop_data = job.gop_data
        BY ONLY <1>1, <4>1 DEF Job
      <4>3. n \in Nat /\ (T = job.gop_start \/ T = Append(job.gop_start, n))
        BY <1>1, <4>1
      <4> QED
        BY <4>1, <4>2, <4>3
    <3>3. CASE ReadTail /\ ~ReaderFails
      <4>1. PICK T : /\ job.gops_final => T = job.gop_start
                     /\ T \in {job.gop_start, Append(job.gop_start, job.n_read)}
                     /\ job' = [job EXCEPT !.eof = TRUE, !.gops_final = TRUE, !.gop_start = T]
        BY <3>3 DEF ReadTail, Pushed
      <4> QED
        BY ONLY <1>1, <4>1 DEF Job
    <3> QED
      BY <1>6, <3>1, <3>2, <3>3 DEF ReaderStep, ReadHeader, ReadRoom
  <2>4. Grows
    BY <1>1, <2>2, <2>3 DEF Grows
  <2>5. Onward
    BY <1>1, <1>2, <2>3, <2>4 DEF Onward
  <2> QED
    BY <1>2, <1>3, <2>3, <2>5, Kept
<1> QED
  BY <1>4, <1>5, <1>6 DEF Write, Join, SpuriousWake, Returned, vars

LEMMA FrozenOnward ==
  ASSUME OInv, Frozen, env' = env, plan' = plan,
         job'.next_gop \in Nat, job'.next_gop >= job.next_gop,
         \A i \in 1..job.next_gop : job'.pull_gop[i] = job.pull_gop[i]
  PROVE  Onward
  BY DEF OInv, TypeOK, Job, Frozen, Onward, Grows

\* Nothing is read or handed out.
LEMMA Still ==
  ASSUME OInv, OInv', Frozen, env' = env, plan' = plan,
         job'.next_gop = job.next_gop, job'.pull_gop = job.pull_gop
  PROVE  /\ \A x, c : Expected(x, c) => Expected(x, c)'
         /\ NGops' = NGops /\ \A k : Given(k)' = Given(k) /\ FromQueue(k)' = FromQueue(k)
         /\ \A p : GopStart(p)' = GopStart(p) /\ (Opens(p)' <=> Opens(p))
         /\ \A p : Nothing(p)' <=> Nothing(p)
<1>1. job.next_gop \in Nat
  BY DEF OInv, TypeOK, Job
<1>2. Onward
  BY <1>1, FrozenOnward
<1> QED
  BY <1>2, ExpectedStays, SameFrames DEF OInv

\* A worker that hands nothing out, publishes nothing and opens no encoder.
LEMMA WorkerKept ==
  ASSUME OInv, OInv', CInv, NEW w \in Workers, pc[w] # "none", Frozen,
         UNCHANGED <<env, plan, out>>,
         job'.next_gop = job.next_gop, job'.pull_gop = job.pull_gop,
         job'.rc_ready = job.rc_ready, job'.rc_state = job.rc_state,
         job'.gop_data = job.gop_data,
         NEW at, pc' = [pc EXCEPT ![w] = at], NEW l, loc' = [loc EXCEPT ![w] = l],
         at \in AtWork => pc[w] \in AtWork /\ l.k = loc[w].k /\ l.g = loc[w].g,
         at \in Opened => pc[w] \in Opened /\ l.carry = loc[w].carry
  PROVE  CInv'
<1>1. ~Unstarted /\ Onward
  <2>1. job.next_gop \in Nat
    BY DEF OInv, TypeOK, Job
  <2>2. Onward
    BY <2>1, FrozenOnward
  <2> QED
    BY <2>2 DEF OInv, Flow
<1>2. \A v \in Workers :
            /\ pc'[v] \in AtWork => pc[v] \in AtWork /\ loc'[v].k = loc[v].k /\ loc'[v].g = loc[v].g
            /\ pc'[v] \in Opened => pc[v] \in Opened /\ loc'[v].carry = loc[v].carry
  BY Cast DEF OInv, TypeOK
<1> QED
  BY <1>1, <1>2, Kept

LEMMA SeekAgainCarry == ASSUME OInv, OInv', CInv, NEW w \in Workers, SeekAgain(w) PROVE CInv'
<1>1. /\ pc[w] = "seek" /\ UNCHANGED <<env, plan, out, job>> /\ loc[w] \in Local /\ Frozen
      /\ Seek(w, loc[w], job)
  BY DEF SeekAgain, Runs, OInv, TypeOK, Frozen
<1>2. loc[w].g >= 0
  BY <1>1 DEF OInv, Work, Stands
<1>3. PICK at \in Labels \ {"none"}, m \in Local :
        /\ pc' = [pc EXCEPT ![w] = at] /\ loc' = [loc EXCEPT ![w] = m]
        /\ at \in {"leave", "seek", "empty", "carry"} /\ m.g = loc[w].g /\ m.k = loc[w].k
  BY <1>1, <1>2, Sought
<1>4. at \notin Opened /\ pc[w] \in AtWork
  BY <1>1, <1>3 DEF Opened, Busy, AtWork
<1> QED
  BY <1>1, <1>3, <1>4, WorkerKept

LEMMA FeedCarry == ASSUME OInv, OInv', CInv, NEW w \in Workers, Feed(w) PROVE CInv'
<1>1. /\ pc[w] \in {"feed", "starve"} /\ UNCHANGED <<env, loc, plan, out>> /\ job \in Job
      /\ pc[w] \in AtWork /\ pc[w] \in Opened /\ pc[w] # "none"
  BY DEF Feed, OInv, TypeOK, AtWork, Busy, Opened
<1>2. PICK x, at : job' = [job EXCEPT !.waiting = x] /\ pc' = [pc EXCEPT ![w] = at]
  BY DEF Feed, Goes
<1>3. /\ Frozen /\ job'.next_gop = job.next_gop /\ job'.pull_gop = job.pull_gop
      /\ job'.rc_ready = job.rc_ready /\ job'.rc_state = job.rc_state
      /\ job'.gop_data = job.gop_data
  BY ONLY <1>1, <1>2 DEF Job, Frozen
<1>4. loc' = [loc EXCEPT ![w] = loc[w]]
  BY <1>1 DEF OInv, TypeOK
<1> QED
  BY <1>1, <1>2, <1>3, <1>4, WorkerKept

LEMMA CodeCarry == ASSUME OInv, OInv', CInv, NEW w \in Workers, Code(w) PROVE CInv'
<1>1. /\ pc[w] = "code" /\ UNCHANGED <<env, plan, out>> /\ job \in Job /\ loc[w] \in Local
      /\ pc[w] \in AtWork /\ pc[w] \in Opened /\ pc[w] # "none"
  BY DEF Code, Runs, OInv, TypeOK, AtWork, Busy, Opened
<1>2. PICK i, f, at, b : /\ job' = [job EXCEPT !.freed = f] /\ pc' = [pc EXCEPT ![w] = at]
                         /\ loc' = [loc EXCEPT ![w] = [loc[w] EXCEPT !.i = i, !.bytes = b]]
  BY DEF Code, Goes
<1>3. /\ Frozen /\ job'.next_gop = job.next_gop /\ job'.pull_gop = job.pull_gop
      /\ job'.rc_ready = job.rc_ready /\ job'.rc_state = job.rc_state
      /\ job'.gop_data = job.gop_data
  BY ONLY <1>1, <1>2 DEF Job, Frozen
<1>4. PICK l : l = [loc[w] EXCEPT !.i = i, !.bytes = b]
  OBVIOUS
<1>5. l.k = loc[w].k /\ l.g = loc[w].g /\ l.carry = loc[w].carry
  BY ONLY <1>1, <1>4 DEF Local
<1>6. loc' = [loc EXCEPT ![w] = l]
  BY <1>2, <1>4
<1> QED
  BY <1>1, <1>2, <1>3, <1>5, <1>6, WorkerKept

LEMMA LeaveCarry == ASSUME OInv, OInv', CInv, NEW w \in Workers, Leave(w) PROVE CInv'
<1>1. /\ pc[w] = "leave" /\ UNCHANGED <<env, job, loc, plan, out>> /\ Frozen
      /\ pc' = [pc EXCEPT ![w] = "gone"] /\ loc' = [loc EXCEPT ![w] = loc[w]]
  BY DEF Leave, Runs, Goes, OInv, TypeOK, Frozen
<1>2. "gone" \notin AtWork /\ "gone" \notin Opened
  BY DEF AtWork, Opened, Busy
<1> QED
  BY <1>1, <1>2, WorkerKept

LEMMA ClaimCarry == ASSUME OInv, OInv', CInv, NEW w \in Workers, Claim(w) PROVE CInv'
<1>1. pc[w] # "none" /\ UNCHANGED <<env, plan, out>> /\ job \in Job /\ TypeOK
  BY DEF Claim, Runs, OInv, TypeOK
<1>2. PICK l \in Local :
        /\ l.g \in Nat /\ Seek(w, l, job)
        /\ \/ /\ plan.owned /\ l.k = None /\ job' = job
           \/ /\ ~plan.owned /\ l.k = job.next_gop /\ l.g = FromQueue(job.next_gop)
              /\ job' = [job EXCEPT !.next_gop = job.next_gop + 1,
                                   !.pull_gop = Pulled(job.pull_gop, job.next_gop, l.g)]
  BY Claimed
<1>3. PICK at \in Labels \ {"none"}, m \in Local :
        /\ pc' = [pc EXCEPT ![w] = at] /\ loc' = [loc EXCEPT ![w] = m]
        /\ at \in {"leave", "seek", "empty", "carry"} /\ m.g = l.g /\ m.k = l.k
  BY <1>2, Sought
<1>4. /\ \A v \in Workers \ {w} : pc'[v] = pc[v] /\ loc'[v] = loc[v]
      /\ loc'[w] = m /\ pc'[w] = at /\ at \notin Opened
  BY <1>1, <1>3, Cast DEF TypeOK, Opened, Busy
<1>5. ~Unstarted
  BY <1>1 DEF OInv, Flow
<1>6. PICK q, n : /\ q = IF plan.owned THEN job.pull_gop ELSE Pulled(job.pull_gop, job.next_gop, l.g)
                  /\ n = IF plan.owned THEN job.next_gop ELSE job.next_gop + 1
  OBVIOUS
<1>7. job' = [job EXCEPT !.next_gop = n, !.pull_gop = q]
  <2>1. CASE plan.owned
    BY <1>1, <1>2, <1>6, <2>1 DEF Job
  <2>2. CASE ~plan.owned
    BY <1>2, <1>6, <2>2
  <2> QED
    BY <2>1, <2>2
<1>8. /\ Frozen /\ job'.next_gop = n /\ job'.pull_gop = q
      /\ job'.rc_ready = job.rc_ready /\ job'.rc_state = job.rc_state
      /\ job'.gop_data = job.gop_data
  BY ONLY <1>1, <1>7 DEF Job, Frozen
<1>9. /\ \A g, c : Expected(g, c) => Expected(g, c)'
      /\ NGops' = NGops /\ \A k : Given(k)' = Given(k) /\ FromQueue(k)' = FromQueue(k)
      /\ \A p : GopStart(p)' = GopStart(p) /\ (Opens(p)' <=> Opens(p))
      /\ \A p : Nothing(p)' <=> Nothing(p)
  <2>1. Onward
    <3>1. job.next_gop \in Nat /\ Len(job.pull_gop) = job.next_gop /\ job.pull_gop \in Seq(Int)
      BY <1>1 DEF OInv, Handouts, Job
    <3>2. \A i \in 1..job.next_gop : q[i] = job.pull_gop[i]
      <4>1. CASE plan.owned
        BY <1>6, <4>1
      <4>2. CASE ~plan.owned
        <5>1. q = Pulled(job.pull_gop, job.next_gop, l.g) /\ l.g \in Int
          BY <1>2, <1>6, <4>2
        <5> QED
          <6>1. \A i \in 1..job.next_gop + 1 :
                  q[i] = IF i <= Len(job.pull_gop) THEN job.pull_gop[i]
                         ELSE IF l.g < NGops THEN l.g ELSE None
            BY ONLY <3>1, <5>1, PulledTyped
          <6> QED
            BY <3>1, <6>1
      <4> QED
        BY <4>1, <4>2
    <3>3. n \in Nat /\ n >= job.next_gop
      BY <1>6, <3>1
    <3> QED
      BY <1>1, <1>8, <3>2, <3>3, FrozenOnward
  <2> QED
    BY <1>8, <2>1, ExpectedStays, SameFrames DEF OInv
<1>10. Places'
  <2> SUFFICES ASSUME env.abr
               PROVE  /\ \A i \in 1..n :
                           /\ q[i] = None \/ (i <= NGops /\ q[i] = Given(i - 1))
                           /\ plan.known /\ i <= NGops => q[i] # None
                      /\ \A v \in Workers : pc'[v] \in AtWork =>
                           IF plan.owned THEN loc'[v].k = None
                           ELSE loc'[v].k \in 0..n - 1 /\ loc'[v].g = FromQueue(loc'[v].k)
    BY <1>1, <1>8, <1>9 DEF Places, AtWork, Busy
  <2>1. Places
    BY <1>5 DEF CInv
  <2>2. CASE plan.owned
    BY <1>2, <1>3, <1>4, <1>6, <2>1, <2>2 DEF Places
  <2>3. CASE ~plan.owned
    <3>1. /\ job.pull_gop \in Seq(Int) /\ job.next_gop \in Nat /\ Len(job.pull_gop) = job.next_gop
          /\ NGops \in Int /\ l.g \in Int /\ n = job.next_gop + 1
          /\ l.k = job.next_gop /\ l.g = FromQueue(job.next_gop)
          /\ q = Pulled(job.pull_gop, job.next_gop, l.g)
      BY <1>1, <1>2, <1>6, <2>3, Lengths DEF OInv, Handouts, Job
    <3>2. /\ job.next_gop < NGops => l.g = Given(job.next_gop) /\ Known(l.g)
          /\ job.next_gop >= NGops => l.g >= NGops
      <4>1. CASE job.next_gop < NGops
        <5>1. l.g = Given(job.next_gop)
          BY <3>1, <4>1 DEF FromQueue, Given
        <5>2. job.next_gop \in 0..NGops - 1
          BY <3>1, <4>1
        <5>3. Known(Given(job.next_gop))
          BY <5>2, PlaceOfGiven
        <5> QED
          BY <3>1, <4>1, <5>1, <5>3
      <4>2. CASE ~(job.next_gop < NGops)
        BY <3>1, <4>2 DEF FromQueue
      <4> QED
        BY <3>1, <4>1, <4>2
    <3>3. ASSUME NEW i \in 1..n
          PROVE  /\ q[i] = None \/ (i <= NGops /\ q[i] = Given(i - 1))
                 /\ plan.known /\ i <= NGops => q[i] # None
      <4>1. q[i] = IF i <= Len(job.pull_gop) THEN job.pull_gop[i]
                   ELSE IF l.g < NGops THEN l.g ELSE None
        BY ONLY <3>1, i \in 1..n, PulledTyped
      <4>2. CASE i = n
        <5>1. i - 1 = job.next_gop /\ ~(i <= Len(job.pull_gop))
          BY <3>1, <4>2
        <5>2. i <= NGops <=> job.next_gop < NGops
          BY <3>1, <4>2
        <5>3. CASE job.next_gop < NGops
          <6>1. l.g = Given(i - 1) /\ l.g < NGops /\ l.g # None
            BY <3>1, <3>2, <5>1, <5>3 DEF Known, None
          <6> QED
            BY <4>1, <5>1, <5>2, <5>3, <6>1
        <5>4. CASE ~(job.next_gop < NGops)
          <6>1. ~(l.g < NGops)
            BY <3>1, <3>2, <5>4
          <6> QED
            BY <4>1, <5>1, <5>2, <5>4, <6>1
        <5> QED
          BY <5>3, <5>4
      <4>3. CASE i # n
        <5>1. i \in 1..job.next_gop /\ i <= Len(job.pull_gop)
          BY <3>1, <4>3
        <5> QED
          BY <2>1, <4>1, <5>1 DEF Places
      <4> QED
        BY <4>2, <4>3
    <3>4. ASSUME NEW v \in Workers, pc'[v] \in AtWork
          PROVE  loc'[v].k \in 0..n - 1 /\ loc'[v].g = FromQueue(loc'[v].k)
      <4>1. CASE v = w
        BY <1>3, <1>4, <3>1, <4>1
      <4>2. CASE v # w
        <5>1. pc'[v] = pc[v] /\ loc'[v] = loc[v]
          BY <1>4, <4>2
        <5> QED
          BY <2>1, <2>3, <3>1, <3>4, <5>1 DEF Places
      <4> QED
        BY <4>1, <4>2
    <3> QED
      BY <2>3, <3>3, <3>4
  <2> QED
    BY <2>2, <2>3
<1>11. Imports'
  BY <1>1, <1>5, <1>8, <1>9 DEF CInv, Imports, Frozen
<1>12. Held'
  BY <1>4, <1>5, <1>8, <1>9 DEF CInv, Held, Frozen
<1>13. Done' /\ Sent'
  BY <1>1, <1>5, <1>8, <1>9 DEF CInv, Done, Sent, Frozen, Emitted
<1> QED
  BY <1>10, <1>11, <1>12, <1>13 DEF CInv

LEMMA PublishEmptyCarry ==
  ASSUME OInv, OInv', CInv, NEW w \in Workers, PublishEmpty(w) PROVE CInv'
<1>1. /\ pc[w] = "empty" /\ UNCHANGED <<env, loc, plan, out>> /\ job \in Job /\ TypeOK
      /\ pc' = [pc EXCEPT ![w] = "claim"] /\ Stands("empty", loc[w])
      /\ job.n_read \in Nat
  BY DEF PublishEmpty, Runs, Goes, OInv, TypeOK, Work, Job
<1>2. PICK g : g = loc[w].g
  OBVIOUS
<1>3. Known(g) /\ Nothing(g) /\ GopStart(g) \in Nat
  <2>1. Known(g) /\ Nothing(g)
    BY <1>1, <1>2 DEF Stands
  <2> QED
    BY <1>1, <2>1, Lengths
<1>4. job' = [job EXCEPT !.gop_done = job.gop_done \cup {g}, !.rc_ready = job.rc_ready \cup {g}]
  BY <1>2 DEF PublishEmpty
<1>5. /\ Frozen /\ job'.next_gop = job.next_gop /\ job'.pull_gop = job.pull_gop
      /\ job'.rc_ready = job.rc_ready \cup {g}
      /\ job'.gop_data = job.gop_data /\ job'.rc_state = job.rc_state
  BY ONLY <1>1, <1>4 DEF Job, Frozen
<1>6. \A v \in Workers : pc'[v] \in AtWork => pc'[v] = pc[v]
  <2>1. "claim" \notin AtWork
    BY DEF AtWork, Busy
  <2> QED
    BY <1>1, <2>1, Cast DEF TypeOK
<1>7. ~Unstarted
  BY <1>1 DEF OInv, Flow
<1>8. /\ \A x, c : Expected(x, c) => Expected(x, c)'
      /\ NGops' = NGops /\ \A k : Given(k)' = Given(k) /\ FromQueue(k)' = FromQueue(k)
      /\ \A p : GopStart(p)' = GopStart(p) /\ (Opens(p)' <=> Opens(p))
      /\ \A p : Nothing(p)' <=> Nothing(p)
  BY <1>1, <1>5, Still
<1>9. Places'
  BY <1>1, <1>5, <1>6, <1>7, <1>8 DEF CInv, Places
<1>10. Imports'
  <2> SUFFICES ASSUME env.abr, ~job.abort, NEW p \in job.rc_ready \cup {g}
               PROVE  \/ p \in job.rc_state /\ Opens(p) /\ GopStart(p) < job.n_read
                      \/ p \notin job.rc_state /\ (Nothing(p) \/ ~Opens(p))
    BY <1>1, <1>5, <1>8 DEF Imports, Frozen
  <2>1. Imports
    BY <1>7 DEF CInv
  <2>2. CASE p \in job.rc_ready
    BY <2>1, <2>2 DEF Imports
  <2>3. CASE p \notin job.rc_ready
    BY <1>3, <2>3 DEF OInv, Published
  <2> QED
    BY <2>2, <2>3
<1>11. Held'
  BY <1>1, <1>5, <1>6, <1>7, <1>8 DEF CInv, Held, Frozen, Opened, AtWork
<1>12. Done' /\ Sent'
  BY <1>1, <1>5, <1>7, <1>8 DEF CInv, Done, Sent, Frozen, Emitted
<1> QED
  BY <1>9, <1>10, <1>11, <1>12 DEF CInv

\* What the worker imports when it opens its encoder.
LEMMA Opening ==
  ASSUME OInv, CInv, NEW w \in Workers, pc[w] = "carry", ~job.abort,
         Pred(w) = None \/ Pred(w) \in job.rc_ready,
         NEW c, c = IF Opens(loc[w].g) /\ Pred(w) # None /\ Pred(w) \in job.rc_state
                    THEN <<Pred(w), Ahead(w)>> ELSE <<>>
  PROVE  Expected(loc[w].g, c)
<1>1. /\ TypeOK /\ Known(loc[w].g) /\ pc[w] \in AtWork /\ loc[w] \in Local /\ plan.g \in Nat
      /\ ~Unstarted /\ NGops \in Int
  BY Lengths DEF OInv, TypeOK, Work, Stands, AtWork, Busy, Settings, Flow
<1>2. CASE ~env.abr
  BY <1>2 DEF Expected, Pred
<1>3. CASE env.abr /\ plan.owned
  <2>1. loc[w].k = None
    BY <1>1, <1>3 DEF CInv, Places
  <2>2. Pred(w) = None
    BY <1>1, <2>1 DEF Pred, None
  <2> QED
    BY <1>3, <2>2 DEF Expected
<1>4. CASE env.abr /\ ~plan.owned
  <2>1. Places /\ Imports /\ job.next_gop \in Nat
    BY <1>1 DEF CInv, TypeOK, Job
  <2>2. PICK k \in Nat : k = loc[w].k /\ k \in 0..job.next_gop - 1 /\ loc[w].g = FromQueue(k)
    BY <1>1, <1>4, <2>1 DEF Places
  <2>3. k \in 0..NGops - 1 /\ loc[w].g = Given(k)
    BY <1>1, <2>2 DEF Known, FromQueue, Given
  <2>4. Place(loc[w].g) = k
    BY <2>3, PlaceOfGiven
  <2>5. CASE k < plan.g \/ ~Opens(loc[w].g)
    BY <2>2, <2>4, <2>5 DEF Expected, Pred
  <2>6. CASE ~(k < plan.g \/ ~Opens(loc[w].g))
    <3>1. PICK p : p = Handed(k - plan.g)
      OBVIOUS
    <3>2. Pred(w) = p
      BY <1>4, <2>2, <2>6, <3>1 DEF Pred
    <3>3. Ahead(w) = Span(k)
      BY <2>2 DEF Ahead, Span
    <3>4. p = None \/ Known(p)
      <4>1. (k - plan.g) + 1 \in 1..job.next_gop
        BY <1>1, <2>1, <2>2, <2>6
      <4> QED
        BY <3>1, <4>1 DEF Handed, OInv, Handouts
    <3>5. p # None => \/ p \in job.rc_state /\ Opens(p) /\ GopStart(p) < job.n_read
                      \/ p \notin job.rc_state /\ (Nothing(p) \/ ~Opens(p))
      BY <1>4, <2>1, <3>2 DEF Imports
    <3>6. From(k - plan.g, Span(k), c)
      BY <2>6, <3>1, <3>2, <3>3, <3>4, <3>5 DEF From
    <3>7. k < NGops
      BY <1>1, <2>3
    <3> QED
      BY <1>4, <2>2, <2>4, <2>6, <3>6, <3>7 DEF Expected
  <2> QED
    BY <2>5, <2>6
<1> QED
  BY <1>2, <1>3, <1>4

LEMMA CarryCarry == ASSUME OInv, OInv', CInv, NEW w \in Workers, Carry(w) PROVE CInv'
<1>1. /\ pc[w] = "carry" /\ UNCHANGED <<env, job, plan, out>> /\ loc[w] \in Local /\ TypeOK
      /\ Frozen /\ pc[w] \in AtWork
  BY DEF Carry, Runs, OInv, TypeOK, Frozen, AtWork, Busy
<1>2. CASE UNCHANGED <<loc, pc>>
  <2>1. /\ loc' = [loc EXCEPT ![w] = loc[w]] /\ pc' = [pc EXCEPT ![w] = "carry"]
        /\ "carry" \notin Opened
    BY <1>1, <1>2, Cast DEF TypeOK, Opened
  <2> QED
    BY <1>1, <2>1, WorkerKept
<1>3. CASE ~UNCHANGED <<loc, pc>>
  <2>1. PICK c, b :
          /\ c = IF Opens(loc[w].g) /\ Pred(w) # None /\ Pred(w) \in job.rc_state
                 THEN <<Pred(w), Ahead(w)>> ELSE <<>>
          /\ loc' = [loc EXCEPT ![w].carry = c, ![w].bytes = b]
          /\ pc' = [pc EXCEPT ![w] = "feed"]
          /\ Pred(w) = None \/ job.abort \/ Pred(w) \in job.rc_ready
    BY <1>3 DEF Carry, Goes, Waits
  <2>2. ~job.abort => Expected(loc[w].g, c)
    BY <1>1, <2>1, Opening
  <2>3. PICK l : l = [loc[w] EXCEPT !.carry = c, !.bytes = b]
    OBVIOUS
  <2>4. l.g = loc[w].g /\ l.k = loc[w].k /\ l.carry = c
    BY ONLY <1>1, <2>3 DEF Local
  <2>5. /\ pc'[w] = "feed" /\ loc'[w] = l
        /\ \A v \in Workers \ {w} : pc'[v] = pc[v] /\ loc'[v] = loc[v]
    BY <1>1, <2>1, <2>3, Cast DEF TypeOK
  <2>6. ~Unstarted
    BY <1>1 DEF OInv, Flow
  <2>7. /\ \A x, e : Expected(x, e) => Expected(x, e)'
        /\ NGops' = NGops /\ \A k : Given(k)' = Given(k) /\ FromQueue(k)' = FromQueue(k)
        /\ \A p : GopStart(p)' = GopStart(p) /\ (Opens(p)' <=> Opens(p))
        /\ \A p : Nothing(p)' <=> Nothing(p)
    BY <1>1, Still
  <2>8. Places'
    <3> SUFFICES ASSUME env.abr, NEW v \in Workers, pc'[v] \in AtWork
                 PROVE  IF plan.owned THEN loc'[v].k = None
                        ELSE loc'[v].k \in 0..job.next_gop - 1 /\ loc'[v].g = FromQueue(loc'[v].k)
      BY <1>1, <2>6, <2>7 DEF CInv, Places, AtWork, Busy
    <3>1. pc[v] \in AtWork /\ loc'[v].k = loc[v].k /\ loc'[v].g = loc[v].g
      BY <1>1, <2>4, <2>5
    <3> QED
      BY <2>6, <3>1 DEF CInv, Places
  <2>9. Imports'
    BY <1>1, <2>6, <2>7 DEF CInv, Imports
  <2>10. Held'
    <3> SUFFICES ASSUME ~job.abort, NEW v \in Workers, pc'[v] \in Opened
                 PROVE  Expected(loc[v].g, loc[v].carry)'
      BY <1>1 DEF Held, Opened, Busy
    <3>1. PICK g, e : g = loc'[v].g /\ e = loc'[v].carry
      OBVIOUS
    <3>2. Expected(g, e)
      <4>1. CASE v = w
        BY <2>2, <2>4, <2>5, <3>1, <4>1
      <4>2. CASE v # w
        BY <2>5, <2>6, <3>1, <4>2 DEF CInv, Held
      <4> QED
        BY <4>1, <4>2
    <3>3. Expected(g, e)'
      BY <2>7, <3>2
    <3> QED
      BY <3>1, <3>3
  <2>11. Done' /\ Sent'
    BY <1>1, <2>6, <2>7 DEF CInv, Done, Sent, Emitted
  <2> QED
    BY <2>8, <2>9, <2>10, <2>11 DEF CInv
<1> QED
  BY <1>2, <1>3

LEMMA PublishCarry == ASSUME OInv, OInv', CInv, NEW w \in Workers, Publish(w) PROVE CInv'
<1>1. /\ pc[w] = "publish" /\ UNCHANGED <<env, loc, plan, out>> /\ job \in Job /\ TypeOK
      /\ pc' = [pc EXCEPT ![w] = "claim"] /\ Stands("publish", loc[w])
      /\ job.n_read \in Nat /\ pc[w] \in Opened /\ loc[w] \in Local
  BY DEF Publish, Runs, Goes, OInv, TypeOK, Work, Job, Opened, Busy
<1>2. PICK g : g = loc[w].g
  OBVIOUS
<1>3. Known(g) /\ GopStart(g) < job.n_read
  BY <1>1, <1>2 DEF Stands, Busy
<1>4. PICK d : d = [g |-> loc[w].g, first |-> loc[w].first, end |-> loc[w].i,
                   carry |-> loc[w].carry, bytes |-> loc[w].bytes \cup Flushed(loc[w].g)]
  OBVIOUS
<1>5. PICK data, state :
        /\ data = Stored(job.gop_data, g, d)
        /\ state = IF env.abr /\ Opens(g) THEN job.rc_state \cup {g} ELSE job.rc_state
  OBVIOUS
<1>6. job' = [job EXCEPT !.rc_state = state, !.rc_ready = job.rc_ready \cup {g},
                         !.gop_data = data, !.gop_done = job.gop_done \cup {g}]
  BY <1>2, <1>4, <1>5 DEF Publish
<1>7. /\ Frozen /\ job'.next_gop = job.next_gop /\ job'.pull_gop = job.pull_gop
      /\ job'.rc_ready = job.rc_ready \cup {g}
      /\ job'.gop_data = data /\ job'.rc_state = state
  BY ONLY <1>1, <1>6 DEF Job, Frozen
<1>8. \A v \in Workers : pc'[v] \in AtWork => pc'[v] = pc[v]
  <2>1. "claim" \notin AtWork
    BY DEF AtWork, Busy
  <2> QED
    BY <1>1, <2>1, Cast DEF TypeOK
<1>9. ~Unstarted
  BY <1>1 DEF OInv, Flow, Opened, Busy
<1>10. /\ \A x, c : Expected(x, c) => Expected(x, c)'
       /\ NGops' = NGops /\ \A k : Given(k)' = Given(k) /\ FromQueue(k)' = FromQueue(k)
       /\ \A p : GopStart(p)' = GopStart(p) /\ (Opens(p)' <=> Opens(p))
       /\ \A p : Nothing(p)' <=> Nothing(p)
  BY <1>1, <1>7, Still
<1>11. Places'
  BY <1>1, <1>7, <1>8, <1>9, <1>10 DEF CInv, Places
<1>12. Imports'
  <2> SUFFICES ASSUME env.abr, ~job.abort, NEW p \in job.rc_ready \cup {g}
               PROVE  \/ p \in state /\ Opens(p) /\ GopStart(p) < job.n_read
                      \/ p \notin state /\ (Nothing(p) \/ ~Opens(p))
    BY <1>1, <1>7, <1>10 DEF Imports, Frozen
  <2>1. Imports /\ state = IF Opens(g) THEN job.rc_state \cup {g} ELSE job.rc_state
    BY <1>5, <1>9 DEF CInv
  <2>2. g \in job.rc_ready \/ g \notin job.rc_state
    BY DEF OInv, Published
  <2> QED
    BY <1>3, <2>1, <2>2 DEF Imports
<1>13. Held'
  BY <1>1, <1>7, <1>8, <1>9, <1>10 DEF CInv, Held, Frozen, Opened, AtWork
<1>14. Done'
  <2> SUFFICES ASSUME ~job.abort, NEW x \in DOMAIN data
               PROVE  Expected(x, data[x].carry)'
    BY <1>7 DEF Done, Frozen
  <2>1. PICK e : e = data[x].carry
    OBVIOUS
  <2>2. Expected(x, e)
    <3>1. CASE x = g
      <4>1. data[x] = d
        BY <1>5, <3>1 DEF Stored
      <4>2. e = loc[w].carry
        BY <1>4, <2>1, <4>1
      <4> QED
        BY <1>1, <1>2, <1>9, <3>1, <4>2 DEF CInv, Held
    <3>2. CASE x # g
      <4>1. x \in DOMAIN job.gop_data /\ data[x] = job.gop_data[x]
        BY <1>5, <3>2 DEF Stored
      <4> QED
        BY <1>9, <2>1, <4>1 DEF CInv, Done
    <3> QED
      BY <3>1, <3>2
  <2>3. Expected(x, e)'
    BY <1>10, <2>2
  <2>4. e = data[x].carry /\ job'.gop_data = data
    BY <1>7, <2>1
  <2> QED
    BY <2>3, <2>4
<1>15. Sent'
  BY <1>1, <1>9, <1>10 DEF CInv, Sent, Emitted
<1> QED
  BY <1>11, <1>12, <1>13, <1>14, <1>15 DEF CInv

LEMMA WriteCarry == ASSUME OInv, OInv', CInv, Write, out' # out PROVE CInv'
<1>1. /\ pc[Main] = "write" /\ pc \in [Threads -> Labels] /\ job \in Job /\ TypeOK
      /\ out \in Seq(Outputs) /\ UNCHANGED <<env, job, loc, plan>> /\ Frozen /\ ~Unstarted
  BY DEF OInv, TypeOK, Write, Runs, Frozen, Unstarted
<1>2. PICK l : pc' = [pc EXCEPT ![Main] = l]
  BY DEF Write, Goes
<1>3. \A w \in Workers : pc'[w] = pc[w]
  BY <1>1, <1>2, Cast
<1>4. PICK e \in Nat : e = Emitted
  BY <1>1 DEF Emitted
<1>5. PICK x : x = IF e \in DOMAIN job.gop_data THEN job.gop_data[e] ELSE [g |-> e]
  OBVIOUS
<1>6. ~job.abort /\ out' = Append(out, x)
  BY <1>4, <1>5 DEF Write, WriterDone
<1>7. /\ \A y, c : Expected(y, c) => Expected(y, c)'
      /\ NGops' = NGops /\ \A k : Given(k)' = Given(k) /\ FromQueue(k)' = FromQueue(k)
      /\ \A p : GopStart(p)' = GopStart(p) /\ (Opens(p)' <=> Opens(p))
      /\ \A p : Nothing(p)' <=> Nothing(p)
  BY <1>1, Still
<1>8. Places' /\ Imports' /\ Held' /\ Done'
  BY <1>1, <1>3, <1>7 DEF CInv, Places, Imports, Held, Done
<1>9. x \in Bytes => e \in DOMAIN job.gop_data
  <2>1. "first" \notin DOMAIN [g |-> e]
    OBVIOUS
  <2>2. x \in Bytes => "first" \in DOMAIN x
    BY DEF Bytes
  <2> QED
    BY <1>5, <2>1, <2>2
<1>10. x \in Bytes => Expected(e, x.carry)
  BY <1>1, <1>5, <1>6, <1>9 DEF CInv, Done
<1>11. x \in Outputs
  <2>1. out' \in Seq(Outputs) /\ Len(out') = Len(out) + 1 /\ out'[Len(out) + 1] = x
    BY <1>1, <1>6 DEF OInv, TypeOK
  <2> QED
    BY <1>1, <2>1
<1>12. /\ Len(out') = e + 1 /\ \A i \in 1..e : out'[i] = out[i]
       /\ out'[e + 1] = x
  BY <1>1, <1>4, <1>6, <1>11 DEF Emitted
<1>13. Sent'
  <2> SUFFICES ASSUME NEW i \in 1..e + 1, out'[i] \in Bytes
               PROVE  \A c : c = out'[i].carry => Expected(i - 1, c)'
    BY <1>12 DEF Sent, Emitted, Bytes
  <2>1. \A c : c = out'[i].carry => Expected(i - 1, c)
    <3>1. CASE i = e + 1
      BY <1>10, <1>12, <3>1
    <3>2. CASE i # e + 1
      BY <1>1, <1>4, <1>12, <3>2 DEF CInv, Sent
    <3> QED
      BY <3>1, <3>2
  <2> QED
    BY <1>7, <2>1
<1> QED
  BY <1>8, <1>13 DEF CInv

LEMMA NextCInv == ASSUME OInv, OInv', CInv, [Next]_vars PROVE CInv'
<1>1. CASE Unstarted /\ Next
  BY <1>1, Fresh
<1>2. CASE ~Unstarted /\ Next
  <2>1. ~Split /\ ~Abandon /\ ~Plan
    BY <1>2 DEF Unstarted, Split, Abandon, Plan, Runs
  <2>2. CASE \E w \in Workers : WorkerStep(w)
    BY <2>2, ClaimCarry, SeekAgainCarry, PublishEmptyCarry, CarryCarry, FeedCarry, CodeCarry,
       PublishCarry, LeaveCarry DEF WorkerStep
  <2>3. CASE ~(\E w \in Workers : WorkerStep(w))
    <3>1. CASE Write /\ out' # out
      BY <3>1, WriteCarry
    <3>2. CASE ~(Write /\ out' # out)
      <4>1. ReaderStep \/ Write \/ WriteFails \/ Join \/ (\E t \in Threads : SpuriousWake(t)) \/ Returned
        BY <1>2, <2>1, <2>3 DEF Next, MainStep
      <4>2. out' = out
        BY <3>2, <4>1 DEF ReaderStep, ReadHeader, ReadRoom, ReadFrame, ReadTail, WriteFails, Join,
           SpuriousWake, Returned, vars
      <4>3. ~Unstarted
        BY <1>2
      <4> QED
        BY ONLY OInv, OInv', CInv, <4>1, <4>2, <4>3, OthersCarry
    <3> QED
      BY <3>1, <3>2
  <2> QED
    BY <2>2, <2>3
<1>3. CASE UNCHANGED vars
  <2>1. CASE Unstarted
    <3>1. Unstarted'
      BY <1>3, <2>1 DEF Unstarted, vars
    <3> QED
      BY ONLY <3>1 DEF CInv
  <2>2. CASE ~Unstarted
    BY <1>3, <2>2, OthersCarry DEF vars
  <2> QED
    BY <2>1, <2>2
<1> QED
  BY <1>1, <1>2, <1>3

\* What the invariant says of the carries that are written.
LEMMA CarryWritten == OInv /\ CInv => CarryByHandout
<1> SUFFICES ASSUME OInv, CInv, NEW i \in 1..Emitted, "first" \in DOMAIN out[i]
             PROVE  out[i].carry = CarryOf(out[i].g)
  BY DEF CarryByHandout
<1>1. out \in Seq(Outputs) /\ TypeOK /\ job.n_read \in Nat /\ Emitted = Len(out)
  BY DEF OInv, TypeOK, Job, Emitted
<1>2. out[i] \in Bytes /\ out[i].g = i - 1 /\ out[i].g \in Nat
  <2>1. out[i] \in Outputs
    BY <1>1
  <2>2. out[i] \notin [g : Nat]
    <3>1. ASSUME out[i] \in [g : Nat] PROVE FALSE
      <4>1. DOMAIN out[i] = {"g"}
        BY <3>1
      <4> QED
        BY <4>1
    <3> QED
      BY <3>1
  <2>3. out[i] \in Bytes /\ out[i].g = i - 1
    BY <2>1, <2>2 DEF Outputs, OInv, Written, Good
  <2> QED
    BY <2>3 DEF Bytes
<1>3. ~Unstarted
  <2>1. out # <<>>
    BY <1>1
  <2> QED
    BY <2>1 DEF OInv, Flow
<1>4. PICK g, c : g = out[i].g /\ c = out[i].carry
  OBVIOUS
<1>5. Expected(g, c)
  BY <1>2, <1>3, <1>4 DEF CInv, Sent
<1>6. PICK k, p : k = Place(g) /\ p = Given(k - plan.g)
  OBVIOUS
<1>7. CASE ~env.abr \/ plan.owned \/ k < plan.g \/ ~Opens(g)
  BY <1>4, <1>5, <1>6, <1>7 DEF Expected, CarryOf
<1>8. CASE ~(~env.abr \/ plan.owned \/ k < plan.g \/ ~Opens(g))
  <2>1. k \in 0..job.next_gop - 1 /\ k < NGops /\ From(k - plan.g, Span(k), c)
    BY <1>5, <1>6, <1>8 DEF Expected
  <2>2. /\ job.next_gop \in Nat /\ plan.g \in Nat /\ NGops \in Int /\ plan.g <= k /\ k \in Nat
    BY <1>1, <1>8, <2>1, Lengths DEF TypeOK, Job, Settings
  <2>3. ASSUME NEW j \in (k - plan.g)..k
        PROVE  (Named(j) <=> Handed(j) # None) /\ (Named(j) => Handed(j) = Given(j))
    <3>1. j + 1 \in 1..job.next_gop /\ j + 1 <= NGops /\ (j + 1) - 1 = j
      BY <2>1, <2>2
    <3>2. /\ Handed(j) = None \/ Handed(j) = Given(j)
          /\ plan.known => Handed(j) # None
      BY <1>3, <1>8, <3>1 DEF CInv, Places, Handed
    <3> QED
      BY <3>2 DEF Named
  <2>4. PICK m : m = SumFunction([x \in {y \in (k - plan.g + 1)..(k - 1) : Named(y)} |-> GopLen(Given(x))])
    OBVIOUS
  <2>5. Span(k) = m
    <3>1. PICK D : D = {y \in (k - plan.g + 1)..(k - 1) : Named(y)}
      OBVIOUS
    <3>2. \A y \in (k - plan.g + 1)..(k - 1) : y \in (k - plan.g)..k
      BY <2>2
    <3>3. D = {y \in (k - plan.g + 1)..(k - 1) : Handed(y) # None}
      BY <2>3, <3>1, <3>2
    <3>4. [x \in D |-> GopLen(Given(x))] = [x \in D |-> GopLen(Handed(x))]
      BY <2>3, <3>1, <3>2
    <3>5. Span(k) = SumFunction([x \in D |-> GopLen(Handed(x))])
      BY <3>3 DEF Span
    <3>6. m = SumFunction([x \in D |-> GopLen(Given(x))])
      BY <2>4, <3>1
    <3> QED
      BY <3>4, <3>5, <3>6
  <2>6. k - plan.g \in (k - plan.g)..k
    BY <2>2
  <2>7. CarryOf(g) = IF ~Named(k - plan.g) \/ ~Opens(p) \/ GopStart(p) >= job.n_read
                     THEN <<>> ELSE <<p, m>>
    BY <1>6, <1>8, <2>4 DEF CarryOf
  <2>8. CASE ~Named(k - plan.g)
    <3>1. Handed(k - plan.g) = None
      BY <2>3, <2>6, <2>8
    <3>2. c = <<>>
      <4>1. ~Known(None)
        BY <2>2 DEF Known, None
      <4> QED
        BY <2>1, <3>1, <4>1 DEF From
    <3> QED
      BY <1>4, <2>7, <2>8, <3>2
  <2>9. CASE Named(k - plan.g)
    <3>1. Handed(k - plan.g) = p /\ p # None
      BY <1>6, <2>3, <2>6, <2>9
    <3>2. /\ Known(p)
          /\ \/ Opens(p) /\ GopStart(p) < job.n_read /\ c = <<p, m>>
             \/ (Nothing(p) \/ ~Opens(p)) /\ c = <<>>
      BY <2>1, <2>5, <3>1 DEF From
    <3>3. GopStart(p) \in Nat
      BY <1>1, <3>2, Lengths
    <3>4. c = CarryOf(g)
      BY <1>1, <2>7, <2>9, <3>2, <3>3 DEF Nothing
    <3> QED
      BY <1>4, <3>4
  <2> QED
    BY <2>8, <2>9
<1> QED
  BY <1>7, <1>8

\* The rate control of a GOP that is written depends on the hand-out alone, for
\* every input and whatever fails.
THEOREM CarryFollowsHandout == Spec => []CarryByHandout
<1>1. Init => CInv
  BY DEF Init, CInv, Unstarted, Main, Threads, Reader
<1>2. OInv /\ OInv' /\ CInv /\ [Next]_vars => CInv'
  BY NextCInv
<1> QED
  BY <1>1, <1>2, Invariant, CarryWritten, PTL DEF Spec
=============================================================================
