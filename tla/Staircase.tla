------------------------------ MODULE Staircase ------------------------------
(***************************************************************************)
(* The staircase of src/src/encoder/encoder.c: a mini-GOP (an anchor and   *)
(* the B's buffered before it) is coded as a burst, whose anchor, pipelined *)
(* reference B and leaves are analysed at once, row behind row, and up to  *)
(* K bursts overlap.  The threads are the API thread (stair_run_burst,     *)
(* stair_launch, stair_drain), per burst a chain driver (stair_chain), a   *)
(* runner and a trailer for the anchor and another pair for the reference  *)
(* B; what they share is the decoded picture buffer, the ring of bursts    *)
(* with its row watermarks, and the pool of picture buffers.               *)
(*                                                                         *)
(* A picture is <<n, kind>>: the anchor "A", the reference B "R" or the    *)
(* leaves "L" (one, or a sibling pair coded together) of mini-GOP n.  A    *)
(* buffer is a number; holds says which picture was last written into it   *)
(* and fin how many rows of a picture are final, two things no thread can  *)
(* read.  A wait on a condition variable or an ntp_bg_sync is a guard.     *)
(* Left out: the synchronous flavour (depth off), mini-GOPs with several   *)
(* reference B's, the rate controller's drains, a prep that bails.         *)
(***************************************************************************)
EXTENDS Integers, Sequences, FiniteSets

CONSTANTS
    K,              \* Y264_STAIR_K, the bursts in the ring
    MaxRef,         \* the clip on max_num_ref_frames (15)
    Shapes          \* encoders and what they are given: [rows, lag, bframes,
                    \* nref, wide, tight, pool, script, fail]; rows is hmb,
                    \* lag stair_lag, tight the window of the DPB, pool a cap
                    \* on the bags, script[n] the number of B's of mini-GOP n
                    \* or Idr, fail the picture whose bits overflow, or NoPic

Idr == -1
None == -1
NoPic == <<None, "none">>
Kinds == {"A", "R", "L"}
Ring == 0 .. K - 1

ASSUME StairAssumption ==
    /\ K \in Nat \ {0, 1} /\ MaxRef \in Nat /\ MaxRef >= 4
    /\ \A c \in Shapes : /\ c.rows \in Nat \ {0, 1} /\ c.lag \in 1 .. c.rows
                         /\ c.bframes \in {2, 3}
                         /\ c.nref \in Nat \ {0} /\ c.pool \in Nat
                         /\ c.wide \in BOOLEAN /\ c.tight \in BOOLEAN
                         /\ c.wide => ~c.tight
                         /\ c.script \in Seq({Idr} \cup 0 .. c.bframes)

VARIABLES
    cfg,
    apc, n,         \* the API thread, the mini-GOP it is at
    bur,            \* st->bur: the ring of bursts, each with its chain
    cur, fly, nlive, seq,
    dpb, nfn, rec, leafrec, free, parked,   \* e->dpb, next_frame_num, e->rec,
                                            \* each chain's leaf[i]->rec, the pool
    holds, fin, out, failed

ctx == <<cur, fly, nlive, seq>>
store == <<dpb, nfn, rec, leafrec, free, parked>>
vars == <<cfg, apc, n, bur, ctx, store, holds, fin, out, failed>>

Least(a, b) == IF a < b THEN a ELSE b
Rows == cfg.rows
Lag == cfg.lag

\* max_num_ref_frames: the wide window charges every B frame, the tight one
\* only the B's the pyramid marks (one, for two or three B's).
Mrf == Least(cfg.nref + 1 + (IF cfg.tight THEN 1 ELSE cfg.bframes), MaxRef)
Slots == 0 .. Mrf
PoolWant == IF cfg.wide THEN Least(2 * K, cfg.pool) ELSE 0

Plane(i) == i
Grid(i) == 100 + i
RecBuf == Mrf + 1
LeafBuf(k, i) == Mrf + 2 + 2 * k + i
PoolBuf(i) == Mrf + 2 + 2 * K + i
Planes == 0 .. Mrf + 1 + 2 * K + PoolWant
Grids == {Grid(i) : i \in Slots} \cup {Grid(PoolBuf(i)) : i \in 0 .. PoolWant - 1}

IdleJob == [st |-> "off", arow |-> 0, pub |-> -1, pl |-> None, x |-> None,
            refs |-> {}, gates |-> {}]
NoBurst == [n |-> 0, nb |-> 0, live |-> FALSE, fired |-> FALSE, pc |-> "idle",
            A |-> IdleJob, R |-> IdleJob, L |-> IdleJob, refb_done |-> 0,
            prevP |-> None, rbgate |-> None, rbseq |-> 0, reads |-> {},
            col |-> None, err |-> FALSE]

Pics == (0 .. Len(cfg.script)) \X Kinds

\* The stream opens with an IDR picture, coded and stored.
Init ==
    /\ cfg \in Shapes
    /\ apc = "ready" /\ n = 1
    /\ bur = [k \in Ring |-> NoBurst]
    /\ cur = 0 /\ fly = None /\ nlive = 0 /\ seq = 0
    /\ dpb = [s \in Slots |-> [used |-> s = 0, pic |-> IF s = 0 THEN <<0, "A">> ELSE NoPic,
                               fn |-> 0, pl |-> Plane(s), x |-> Grid(s)]]
    /\ nfn = 1 /\ rec = RecBuf
    /\ leafrec = [k \in Ring |-> [i \in {0, 1} |-> LeafBuf(k, i)]]
    /\ free = {[pl |-> PoolBuf(i), x |-> Grid(PoolBuf(i))] : i \in 0 .. PoolWant - 1}
    /\ parked = {}
    /\ holds = [b \in Planes \cup Grids |-> IF b \in {Plane(0), Grid(0)} THEN <<0, "A">>
                                            ELSE NoPic]
    /\ fin = [p \in Pics |-> IF p = <<0, "A">> THEN Rows ELSE -1]
    /\ out = << <<0, "A">> >> /\ failed = FALSE

-----------------------------------------------------------------------------
(* The decoded picture buffer.                                              *)

Used == {s \in Slots : dpb[s].used}
HasRef(b) == IF b.nb > 1 THEN 1 ELSE 0          \* B->nrefb (stair_plan_hier)
Live == {k \in Ring : bur[k].live}
Oldest == CHOOSE k \in Live : \A j \in Live : bur[k].n <= bur[j].n

\* The pictures the leaves of mini-GOP m stand for, in display order.
Poc(p, nb) == 4 * p[1] - (CASE p[2] = "A" -> 0
                            [] p[2] = "R" -> IF nb = 3 THEN 2 ELSE 1)
LeafPocs(m, nb) == {4 * m - i : i \in CASE nb = 1 -> {1} [] nb = 2 -> {2} [] nb = 3 -> {1, 3}}
SlotPoc(s) == Poc(dpb[s].pic, IF dpb[s].pic[1] = 0 THEN 0 ELSE cfg.script[dpb[s].pic[1]])

Ref(s, part) == [p |-> dpb[s].pl, x |-> dpb[s].x, pic |-> dpb[s].pic, part |-> part]

\* The m greatest of the slots S under the key.
Top(S, m, key(_)) == {s \in S : Cardinality({t \in S : key(t) > key(s)}) < m}

\* build_list0 for an anchor: the previous anchor pinned first, then the
\* newest references.
AnchorSlot == CHOOSE s \in Used : dpb[s].pic = <<n - 1, "A">>
List0P == {AnchorSlot} \cup Top(Used \ {AnchorSlot}, cfg.nref - 1, LAMBDA s : dpb[s].fn)

\* build_list0 and dpb_find for a B at this POC.
List0B(poc) == Top({s \in Used : SlotPoc(s) < poc}, cfg.nref, SlotPoc)
Past(poc) == CHOOSE s \in Used : s \in Top({t \in Used : SlotPoc(t) < poc}, 1, SlotPoc)
Future(poc) == CHOOSE s \in Used : s \in Top({t \in Used : SlotPoc(t) > poc}, 1,
                                             LAMBDA t : -SlotPoc(t))

\* The sliding window: at max_num_ref_frames the oldest frame_num goes.
Evict(d) ==
    LET u == {s \in Slots : d[s].used}
        v == CHOOSE s \in u : \A t \in u : d[s].fn <= d[t].fn
    IN  IF Cardinality(u) >= Mrf THEN [d EXCEPT ![v].used = FALSE] ELSE d
FirstUnused(d) == CHOOSE s \in Slots : ~d[s].used /\ \A t \in Slots : t < s => d[t].used
Target == FirstUnused(Evict(dpb))

\* dpbp_sweep: a parked bag is free once the bursts live when it was parked
\* have drained.
Sweepable_WithOldest(g) == Live = {} \/ g.n <= bur[Oldest].n
Sweepable(g) == Live = {} \/ g.n < bur[Oldest].n
Swept == {g \in parked : Sweepable(g)}
Freed == {[pl |-> g.pl, x |-> g.x] : g \in Swept}
Sweep == free \cup Freed
Pooled == PoolWant > 0 /\ Sweep # {}

\* The pool is a stack: what the sweep has just freed is taken first.
Bag == IF Freed # {} THEN CHOOSE g \in Freed : TRUE ELSE CHOOSE g \in free : TRUE

\* stair_slot_readers_wait: without a bag the slot's buffers are rewritten in
\* place, after every older burst that reads the picture in it has finished.
SlotReadersDone(before) ==
    \A k \in Live : bur[k].n < before /\ dpb[Target].pl \in bur[k].reads
                    => bur[k].pc = "idle" /\ bur[k].A.st = "done"

\* The bookkeeping of stair_dpb_begin and stair_dpb_commit_begin: buffer pl
\* becomes the plane of picture p; Back is what its owner writes next.
Back_Slot == dpb[Target].pl
Back == IF Pooled THEN Bag.pl ELSE dpb[Target].pl
NewX == IF Pooled THEN Bag.x ELSE dpb[Target].x
Commit(pl, p) ==
    /\ dpb' = [Evict(dpb) EXCEPT ![Target] =
                 [used |-> TRUE, pic |-> p, fn |-> nfn, pl |-> pl, x |-> NewX]]
    /\ nfn' = nfn + 1
    /\ IF PoolWant = 0
       THEN UNCHANGED <<free, parked>>
       ELSE /\ free' = IF Pooled THEN Sweep \ {Bag} ELSE Sweep
            /\ parked' = (parked \ Swept) \cup
                 (IF Pooled THEN {[pl |-> dpb[Target].pl, x |-> dpb[Target].x, n |-> seq]}
                            ELSE {})

-----------------------------------------------------------------------------
(* A picture being coded: the rows of its analysis, its trailer, its bits.  *)

Job(k, j) == bur[k][j]
Pub(g) == bur[g[1]][g[2]].pub                   \* a gate is <<burst, kind>>

\* stair_row_ready.
RowReady_Unclamped(k, j) == \A g \in Job(k, j).gates : Pub(g) >= Job(k, j).arow + Lag
RowReady(k, j) == \A g \in Job(k, j).gates : Pub(g) >= Least(Job(k, j).arow + Lag, Rows)

Analyze(k, j) ==
    /\ Job(k, j).st = "run" /\ Job(k, j).arow < Rows
    /\ RowReady(k, j)
    /\ bur' = [bur EXCEPT ![k][j].arow = @ + 1]
    /\ holds' = IF Job(k, j).arow = 0 THEN [holds EXCEPT ![Job(k, j).pl] = <<bur[k].n, j>>]
                                      ELSE holds
    /\ UNCHANGED <<cfg, apc, n, ctx, store, fin, out, failed>>

\* One row of stair_trailer_task: deblocked once the row below has been
\* analysed, borders, half-pel band and motion written, then published.
TrailReady(k, j, r) == Job(k, j).arow >= (IF r = Rows - 1 THEN Rows ELSE r + 2)

Trail(k, j) ==
    LET r == Job(k, j).pub + 1
        p == <<bur[k].n, j>>
        w == IF r = Rows - 1 THEN Rows ELSE r
    IN  /\ j \in {"A", "R"} /\ Job(k, j).st = "run" /\ r < Rows
        /\ TrailReady(k, j, r)
        /\ bur' = [bur EXCEPT ![k][j].pub = w,
                              ![k].refb_done = IF j = "R" /\ w = Rows THEN @ + 1 ELSE @]
        /\ fin' = [fin EXCEPT ![p] = w]
        /\ holds' = IF r = 0 THEN [holds EXCEPT ![Job(k, j).x] = p] ELSE holds
        /\ UNCHANGED <<cfg, apc, n, ctx, store, out, failed>>

\* The runner's emit, once the trailer has published everything.
Emit(k, j) ==
    /\ j \in {"A", "R"} /\ Job(k, j).st = "run"
    /\ Job(k, j).arow = Rows /\ Job(k, j).pub = Rows
    /\ bur' = [bur EXCEPT ![k][j].st = "done"]
    /\ UNCHANGED <<cfg, apc, n, ctx, store, holds, fin, out, failed>>

-----------------------------------------------------------------------------
(* The chain of burst k, on its driver.                                     *)

Chain(k, pc) == bur[k].pc = pc
HasR(k) == HasRef(bur[k]) = 1
A(k) == <<bur[k].n, "A">>

\* stair_pub_wait_all on prev_P, before the first prep of a wide burst.
PrevPublished(k) == bur[k].prevP # None => bur[bur[k].prevP].A.pub = Rows

\* stair_prep_b at this POC: its references, and the gates of those of its
\* nearest references that belong to the burst and still stream.
BRefs(k, poc) ==
    {Ref(s, dpb[s].pic[1] = bur[k].n) : s \in List0B(poc) \cup {Future(poc)}}
BGates(k, poc) ==
    (IF dpb[Future(poc)].pic = A(k) THEN {<<k, "A">>} ELSE {}) \cup
    (IF <<bur[k].n, "R">> \in {dpb[Future(poc)].pic, dpb[Past(poc)].pic}
        THEN {<<k, "R">>} ELSE {})
PlanesOf(refs) == {r.p : r \in refs}

\* The reference B: prep, then stair_dpb_commit_begin and the arming of rprog.
PrepR(k) ==
    LET poc == Poc(<<bur[k].n, "R">>, bur[k].nb)
    IN  /\ Chain(k, "prep") /\ HasR(k)
        /\ PrevPublished(k)
        /\ Pooled \/ SlotReadersDone(bur[k].n)
        /\ bur' = [bur EXCEPT
                     ![k].R = [st |-> "ready", arow |-> 0, pub |-> -1,
                               pl |-> leafrec[k][0], x |-> NewX,
                               refs |-> BRefs(k, poc), gates |-> BGates(k, poc)],
                     ![k].reads = @ \cup PlanesOf(BRefs(k, poc)),
                     ![k].pc = "prepL"]
        /\ Commit(leafrec[k][0], <<bur[k].n, "R">>)
        /\ leafrec' = [leafrec EXCEPT ![k][0] = Back]
        /\ UNCHANGED <<cfg, apc, n, ctx, rec, holds, fin, out, failed>>

\* The leaves' preps, then stair_serial_fire: col is the field the last prep
\* named, its list-1 picture's.
PrepL(k) ==
    LET pocs == LeafPocs(bur[k].n, bur[k].nb)
        last == CHOOSE q \in pocs : \A r \in pocs : r <= q
        refs == UNION {BRefs(k, q) : q \in pocs}
    IN  /\ IF HasR(k) THEN Chain(k, "prepL") ELSE Chain(k, "prep") /\ PrevPublished(k)
        /\ bur' = [bur EXCEPT
                     ![k].L = [st |-> "ready", arow |-> 0, pub |-> -1,
                               pl |-> leafrec[k][HasRef(bur[k])], x |-> None, refs |-> refs,
                               gates |-> UNION {BGates(k, q) : q \in pocs}],
                     ![k].reads = @ \cup PlanesOf(refs),
                     ![k].col = Future(last), ![k].fired = TRUE, ![k].pc = "rbgate"]
        /\ UNCHANGED <<cfg, apc, n, ctx, store, holds, fin, out, failed>>

\* The wait for the reference B the launch gated on instead of waiting for,
\* unless its slot holds another burst by now.
RbGateOpen(k) ==
    LET F == bur[bur[k].rbgate]
    IN  bur[k].rbgate # None /\ F.n = bur[k].rbseq => F.refb_done >= HasRef(F)

\* stair_launch_refb and the leaves' analysis.
Encode(k) ==
    /\ Chain(k, "rbgate") /\ RbGateOpen(k)
    /\ bur' = [bur EXCEPT ![k].R.st = IF HasR(k) THEN "run" ELSE @, ![k].L.st = "run",
                          ![k].pc = "leaf"]
    /\ UNCHANGED <<cfg, apc, n, ctx, store, holds, fin, out, failed>>

\* The leaves are analysed; stair_refb_join retires the reference B, whose
\* bits come first.
LeafDone(k) ==
    /\ Chain(k, "leaf") /\ bur[k].L.arow = Rows
    /\ HasR(k) => bur[k].R.st = "done"
    /\ bur' = [bur EXCEPT ![k].L.st = "done", ![k].pc = "join",
                          ![k].err = cfg.fail = <<bur[k].n, "R">>]
    /\ UNCHANGED <<cfg, apc, n, ctx, store, holds, fin, out, failed>>

\* stair_join_compute and the end of the chain.  A leaf whose bits overflow
\* returns before the anchor is synced.
LeafLost(k) == cfg.fail = <<bur[k].n, "L">> /\ ~bur[k].err
Join(k) ==
    /\ Chain(k, "join")
    /\ LeafLost(k) \/ bur[k].A.st = "done"
    /\ bur' = [bur EXCEPT ![k].err = @ \/ LeafLost(k) \/ cfg.fail = A(k),
                          ![k].refb_done = HasRef(bur[k]), ![k].pc = "idle",
                          ![k].R.pub = IF HasR(k) THEN Rows ELSE @]
    /\ UNCHANGED <<cfg, apc, n, ctx, store, holds, fin, out, failed>>

-----------------------------------------------------------------------------
(* The API thread.                                                          *)

Arriving == n <= Len(cfg.script)
Serial == cfg.script[n] \in {Idr, 0}
SerialDone_NoWait == TRUE
SerialDone == fly # None => bur[fly].fired              \* stair_serial_wait
Next_slot == (cur + 1) % K
RingRoom_OneMore == cfg.wide => nlive <= K
RingRoom == cfg.wide => nlive < K

\* The launch's waits on reference B's: every live one when list 0 is deep
\* (the weight estimate reads its pixels), but the fly's, which is gated by
\* rows; and the one whose motion the colocated field resolves to.
Gated(F) == F = fly /\ HasR(F) /\ cfg.wide /\ cfg.nref > 1
HasCol == fly # None /\ bur[fly].col # None             \* stair_col_src_get
ColIsR(F) == HasCol /\ F = fly /\ dpb[bur[fly].col].pic[2] = "R"
RefbWaited_Deep ==
    \A F \in Live : HasR(F) /\ cfg.nref > 1 /\ ~Gated(F) => bur[F].refb_done >= 1
RefbWaited ==
    \A F \in Live : HasR(F) /\ ((cfg.nref > 1 /\ ~Gated(F)) \/ ColIsR(F))
                    => bur[F].refb_done >= 1

\* The pictures the anchor's vertical clamp covers (clamp_set): the previous
\* anchor and, at width with a deep list 0, the one before and the newest
\* reference B.
Clamped == {<<n - 1, "A">>} \cup
           (IF cfg.wide /\ cfg.nref > 1 THEN {<<n - 2, "A">>, <<n - 1, "R">>} ELSE {})

\* The slot's burst as stair_launch sets it up; g says that it is gated on the
\* reference B of the burst in flight.
Prepared(b, refs, gates, reads, g) ==
    [b EXCEPT !.A = [@ EXCEPT !.st = "ready", !.pl = rec, !.refs = refs, !.gates = gates],
              !.R.st = "off", !.L.st = "off", !.nb = cfg.script[n],
              !.prevP = IF cfg.wide THEN fly ELSE None,
              !.rbgate = IF g THEN fly ELSE None, !.rbseq = IF g THEN bur[fly].n ELSE 0,
              !.reads = reads, !.col = None, !.err = FALSE]

\* stair_launch, up to the anchor's prep.
Prep ==
    LET refs == {Ref(s, dpb[s].pic \in Clamped) : s \in List0P}
        \* the previous burst's colocated field, read in its slot
        col == IF HasCol THEN {Ref(bur[fly].col, dpb[bur[fly].col].pic[2] = "A")} ELSE {}
        g == fly # None /\ Gated(fly)
        gates == IF fly = None THEN {}
                 ELSE {<<fly, "A">>} \cup (IF g THEN {<<fly, "R">>} ELSE {})
    IN  /\ apc = "ready" /\ Arriving /\ ~Serial
        /\ SerialDone
        /\ RingRoom
        /\ RefbWaited
        /\ bur' = [bur EXCEPT ![Next_slot] = Prepared(@, refs \cup col, gates, PlanesOf(refs), g)]
        /\ apc' = "begin"
        /\ UNCHANGED <<cfg, n, ctx, store, holds, fin, out, failed>>

\* The burst that gates its rows on the watermark about to be recycled has
\* analysed them all.
GaterDone ==
    LET g == IF cfg.wide THEN (Next_slot + 1) % K ELSE fly
    IN  (IF cfg.wide THEN bur[g].live ELSE fly # None) => bur[g].A.arow = Rows

\* stair_chain_arm, and the driver's submission.
Armed(b) == [b EXCEPT !.fired = FALSE, !.pc = "prep"]
Launched(b) == [b EXCEPT !.A.st = "run", !.A.arow = 0, !.A.pub = -1, !.A.x = NewX,
                         !.n = n, !.live = TRUE, !.refb_done = 0]
Waits == ~cfg.wide /\ nlive > 0         \* a predecessor is to be retired first

\* The rest of stair_launch.
Begin ==
    LET k == Next_slot
    IN  /\ apc = "begin"
        /\ GaterDone
        /\ Pooled \/ SlotReadersDone(n)
        /\ bur' = [bur EXCEPT ![k] = IF Waits THEN Launched(@) ELSE Armed(Launched(@))]
        /\ Commit(rec, <<n, "A">>) /\ rec' = Back
        /\ cur' = k /\ fly' = k /\ nlive' = nlive + 1 /\ seq' = n
        /\ apc' = IF Waits THEN "retire" ELSE "ready"
        /\ n' = IF Waits THEN n ELSE n + 1
        /\ UNCHANGED <<cfg, leafrec, holds, fin, out, failed>>

\* What the replay hands out: the planes as they are now.
Played(b) == <<holds[b.A.pl]>>
             \o (IF HasRef(b) = 1 THEN <<holds[b.R.pl]>> ELSE << >>) \o <<holds[b.L.pl]>>

\* stair_drain: the oldest burst, after its driver.  A failed burst fails the
\* call; the predecessor of a narrow launch does so once that one is armed.
DrainDue ==
    \/ apc = "retire"
    \/ apc = "ready" /\ nlive > 0
       /\ (Arriving => IF Serial THEN TRUE ELSE SerialDone /\ ~RingRoom)

Drain ==
    LET k == Oldest
    IN  /\ DrainDue
        /\ bur[k].pc = "idle"
        /\ bur' = [j \in Ring |-> IF j = k THEN [bur[j] EXCEPT !.live = FALSE]
                                  ELSE IF apc = "retire" /\ j = fly THEN Armed(bur[j])
                                  ELSE bur[j]]
        /\ nlive' = nlive - 1 /\ fly' = IF nlive = 1 THEN None ELSE fly
        /\ failed' = bur[k].err
        /\ out' = IF bur[k].err THEN out ELSE out \o Played(bur[k])
        /\ apc' = IF bur[k].err THEN "failing" ELSE "ready"
        /\ n' = IF apc = "retire" THEN n + 1 ELSE n
        /\ UNCHANGED <<cfg, cur, seq, store, holds, fin>>

\* An anchor without B's, or an IDR picture: everything in flight is retired,
\* then it is coded and stored on this thread (dpb_reset, dpb_store).
CodeSerial ==
    LET idr == cfg.script[n] = Idr
        d == IF idr THEN [s \in Slots |-> [dpb[s] EXCEPT !.used = FALSE]] ELSE dpb
        fn == IF idr THEN 0 ELSE nfn
        t == FirstUnused(Evict(d))
        p == <<n, "A">>
    IN  /\ apc = "ready" /\ Arriving /\ Serial /\ nlive = 0
        /\ dpb' = [Evict(d) EXCEPT ![t] = [used |-> TRUE, pic |-> p, fn |-> fn, pl |-> rec,
                                         x |-> dpb[t].x]]
        /\ rec' = dpb[t].pl /\ nfn' = fn + 1
        /\ holds' = [holds EXCEPT ![rec] = p, ![dpb[t].x] = p]
        /\ fin' = [fin EXCEPT ![p] = Rows]
        /\ out' = Append(out, p)
        /\ n' = n + 1
        /\ UNCHANGED <<cfg, apc, bur, ctx, leafrec, free, parked, failed>>

\* yah264_encoder_close: every live chain and its tasks are synced.
Close ==
    /\ apc = "failing" \/ (apc = "ready" /\ ~Arriving /\ nlive = 0)
    /\ \A k \in Live : bur[k].pc = "idle" /\ bur[k].A.st = "done"
    /\ apc' = "closed"
    /\ UNCHANGED <<cfg, n, bur, ctx, store, holds, fin, out, failed>>

Closed == apc = "closed" /\ UNCHANGED vars

Next ==
    \/ Prep \/ Begin \/ Drain \/ CodeSerial \/ Close \/ Closed
    \/ \E k \in Ring : PrepR(k) \/ PrepL(k) \/ Encode(k) \/ LeafDone(k) \/ Join(k)
    \/ \E k \in Ring, j \in Kinds : Analyze(k, j) \/ Trail(k, j) \/ Emit(k, j)

\* The API thread, and the threads of each burst, run when they can.
Api == Prep \/ Begin \/ Drain \/ CodeSerial \/ Close
Threads(k) ==
    \/ PrepR(k) \/ PrepL(k) \/ Encode(k) \/ LeafDone(k) \/ Join(k)
    \/ \E j \in Kinds : Analyze(k, j) \/ Trail(k, j) \/ Emit(k, j)
Fairness == WF_vars(Api) /\ \A k \in Ring : WF_vars(Threads(k))
Spec == Init /\ [][Next]_vars /\ Fairness

-----------------------------------------------------------------------------
\* Once a reference has begun to publish, the plane and the grids captured for
\* it hold that picture until the reader's analysis ends: no store, swap or
\* pooled bag hands them to another writer under it.
ReferencesIntact ==
    \A k \in Ring, j \in Kinds : Job(k, j).st \in {"ready", "run"} /\ Job(k, j).arow < Rows =>
        \A r \in Job(k, j).refs :
            fin[r.pic] >= 0 => holds[r.p] = r.pic /\ holds[r.x] = r.pic

\* No row reads pixels that are not final: within the clamp for a reference
\* that may stream, anywhere for every other one, whose pixels the anchor's
\* prep reads as well (the weight estimate).
ReadsFinal ==
    \A k \in Ring, j \in Kinds : \A r \in Job(k, j).refs :
        LET a == Job(k, j).arow
        IN  IF r.part
            THEN Job(k, j).st = "run" /\ a > 0 => fin[r.pic] >= Least(a - 1 + Lag, Rows)
            ELSE (Job(k, j).st = "run" /\ a > 0) \/ (Job(k, j).st = "ready" /\ j = "A")
                 => fin[r.pic] = Rows

\* Coding order over the reference pictures, and those of p's IDR period that
\* come before p in it.
RefPics == {p \in Pics : p[2] = "A" \/ (p[2] = "R" /\ p[1] > 0 /\ cfg.script[p[1]] > 1)}
Precedes(q, p) == q[1] < p[1] \/ (q[1] = p[1] /\ q[2] = "A" /\ p[2] = "R")
Earlier(p) == {q \in RefPics : Precedes(q, p) /\ \A i \in q[1] + 1 .. p[1] : cfg.script[i] # Idr}

\* Whatever the overlap, the buffer is what a decoder has after some picture,
\* the last one stored: the newest max_num_ref_frames references of the coding
\* order, with their frame_nums.
DpbCodingOrder ==
    \E last \in RefPics :
        /\ nfn = Cardinality(Earlier(last)) + 1
        /\ \A s \in Used : /\ dpb[s].pic \in Earlier(last) \cup {last}
                           /\ dpb[s].fn = Cardinality(Earlier(dpb[s].pic))
        /\ \A p \in Earlier(last) \cup {last} :
               Cardinality(Earlier(p)) >= nfn - Mrf => \E s \in Used : dpb[s].pic = p
        /\ Cardinality(Used) = Least(nfn, Mrf)

\* The output is the coding order, and each picture replayed from its own
\* buffer at the drain is still in it.
RefsOf(i) == IF i > 0 /\ cfg.script[i] > 1 THEN << <<i, "A">>, <<i, "R">> >> ELSE << <<i, "A">> >>
Burst(i) == IF i = 0 \/ cfg.script[i] < 1 THEN << <<i, "A">> >>
            ELSE RefsOf(i) \o << <<i, "L">> >>
CodingOrder[m \in 0 .. Len(cfg.script)] ==
    IF m = 0 THEN Burst(0) ELSE CodingOrder[m - 1] \o Burst(m)
OutputOrder == out = SubSeq(CodingOrder[Len(cfg.script)], 1, Len(out))

\* Every plane has one owner: a slot, the next anchor, a chain's leaf, a bag
\* of the pool; so has every set of grids, a slot or a bag.
LeafPlanes == {leafrec[k][i] : k \in Ring, i \in {0, 1}}
Bags == free \cup {[pl |-> g.pl, x |-> g.x] : g \in parked}
BuffersDisjoint ==
    /\ \A s, t \in Slots : s # t => dpb[s].pl # dpb[t].pl /\ dpb[s].x # dpb[t].x
    /\ \A s \in Slots : dpb[s].pl # rec /\ dpb[s].pl \notin LeafPlanes
    /\ \A s \in Slots, g \in Bags : dpb[s].pl # g.pl /\ dpb[s].x # g.x
    /\ rec \notin LeafPlanes /\ \A g \in Bags : g.pl # rec /\ g.pl \notin LeafPlanes
    /\ \A k, m \in Ring, i, j \in {0, 1} : leafrec[k][i] = leafrec[m][j] => k = m /\ i = j
    /\ \A g, h \in Bags : g # h => g.pl # h.pl /\ g.x # h.x
    /\ \A g, h \in parked : g # h => g.pl # h.pl
    /\ \A g \in parked : [pl |-> g.pl, x |-> g.x] \notin free

\* Every picture comes out and every task ends, or the call fails.
AllOut == <>(apc = "closed" /\ (failed \/ out = CodingOrder[Len(cfg.script)]))
=============================================================================
