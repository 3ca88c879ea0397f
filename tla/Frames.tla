-------------------------------- MODULE Frames --------------------------------
(***************************************************************************)
(* The frame path of src/src/encoder/encoder.c without the staircase: an   *)
(* arrived frame becomes a B that waits or an anchor; an anchor, its       *)
(* hierarchy of B's and the tail P's are coded one by one, or two leaf B's *)
(* at once (Y264_FPIPE); the entropy emit of a frame runs on a background  *)
(* thread while the next one is analysed (Y264_W2), and is drained, its    *)
(* NAL appended and its bits handed to the rate control, when the next     *)
(* frame needs it; at the end flush calls bring out what is left.          *)
(*                                                                         *)
(* The reference lists are those of module RefLists, the rate control's    *)
(* ledger that of RcLedger.  Frame types come from the lookahead (module   *)
(* LaThread); here any legal sequence arrives.  The staircase is not       *)
(* engaged (stair_ready is 0), so stair_serial_wait and stair_drain_all    *)
(* find nothing to do.  Analysis, transform and entropy coding are left    *)
(* out: a slice is the header it carries, the frame whose data it was      *)
(* written from, the QP it was coded at, and whether it overflowed.        *)
(***************************************************************************)
EXTENDS RefLists, RcLedger

CONSTANTS
    Retries,        \* times a bounded frame is coded again (4)
    MaxLost,        \* slices that overflow on the background thread
    Envs            \* the encoders: RefLists' parameters and the switches below

\* rc: no rate control, the ledger (rcp), or the serial kind; bound: which frames
\* are held to their measured size; nodrain: Y264_RCP_NODRAIN; la: frames in the
\* lookahead when the film ends; film: its frames at most.
ASSUME FramesAssumption ==
    /\ Retries \in Nat /\ MaxLost \in Nat /\ RCP_WARM \in Nat
    /\ StairK \in Nat \ {0} /\ RCP_MAX \in Nat \ {0}
    /\ \A v \in Envs :
         /\ DOMAIN v = {"pyr", "nref", "window", "maxfn", "bframes", "w2", "fp", "rc", "lag",
                        "nodrain", "vbv", "bound", "bails", "la", "film"}
         /\ {v.nref, v.window, v.maxfn, v.bframes, v.lag, v.la, v.film} \subseteq Nat
         /\ v.pyr = (v.bframes >= 2) /\ v.window < v.maxfn
         /\ {v.w2, v.fp, v.nodrain, v.vbv, v.bails} \subseteq BOOLEAN
         /\ v.rc \in {"none", "rcp", "serial"} /\ v.bound \in {"off", "first", "all"}
         /\ v.lag > 0 => v.rc = "rcp" /\ ~v.vbv      \* stair_wide_capable
         /\ v.bound # "off" => v.vbv
         /\ v.vbv => v.rc # "none"

VARIABLES
    env,            \* the encoder opened
    n, buf, left,   \* frames arrived, the buffered B's, frames in the lookahead at the end
    mode, at,       \* feeding, flushing, closed or failed; where the API thread is
    todo, cur,      \* what the call still has to code; the frame (or pair) in hand
    off,            \* NALs this call has returned
    rl,             \* the references (RefLists)
    led, decided,   \* the ledger (RcLedger); per decision: what it was for and saw
    qp, rcf,        \* e->qp; the frame whose complexity e->rc_cplx is
    acct,           \* what the serial rate control accounted
    tight, first,   \* rcp_vbv_tight, vbv_first_bound
    predecided,     \* rcp_predecided
    gen, w2_gen,    \* which frame's data a generation's grids hold; the next one
    pipe, bg,       \* the pending emit; the background thread that runs it
    fp,             \* the thread of the second leaf
    out, order,     \* the NALs; the display indices of yah264_encoder_frame_order
    lost            \* slices dropped because they outgrew their buffer

input == <<env, n, buf, left, mode, off>>
rate == <<led, decided, qp, rcf, acct, tight, first, predecided>>
emit == <<gen, w2_gen, pipe, bg, fp>>
stream == <<out, order, lost>>
vars == <<input, at, todo, cur, rl, rate, emit, stream>>

Rcp == env.rc = "rcp"
IsAnchor(kind) == kind \notin {"b", "refb"}        \* type # 2: a tail P decides as one

NoHeader == [kind |-> "b", pic |-> 0, fn |-> 0, diff |-> 0, l0 |-> << >>, l1 |-> << >>]
NAL(h, q, seen) == [hdr |-> h, qp |-> q, seen |-> seen]
NoQp == [of |-> 0, up |-> 0]

Init ==
    /\ env \in Envs
    /\ n = 0 /\ buf = << >> /\ left = 0 /\ mode = "feed" /\ at = "idle" /\ off = 0
    /\ todo = << >> /\ cur = [hdr |-> NoHeader, waits |-> FALSE, up |-> 0, pair |-> << >>]
    /\ rl = NoRefs /\ led = NewLedger(env.lag) /\ decided = << >>
    /\ qp = NoQp /\ rcf = 0 /\ acct = << >>
    /\ tight = FALSE /\ first = (env.bound = "first") /\ predecided = 0
    /\ gen = [g \in {0, 1} |-> 0] /\ w2_gen = 0
    /\ pipe = [active |-> FALSE, nal |-> NAL(NoHeader, NoQp, {}), g |-> 0]
    /\ bg = [st |-> "idle", seen |-> {}, ok |-> TRUE] /\ fp = [st |-> "idle", ok |-> TRUE, own |-> TRUE]
    /\ out = << >> /\ order = << >> /\ lost = << >>

-----------------------------------------------------------------------------
(* Arrival: a B waits, an anchor starts the coding of its group *)

Item(kind, pic) == [kind |-> kind, pic |-> pic, two |-> 0]

\* code_b_hier over the buffered B's [a, b): the middle one first; two leaves that
\* are left over on either side of it may run at once (a fork).
Hier[a \in 0 .. 7, b \in 0 .. 7] ==
    LET m == (a + b) \div 2
        mid == Item(IF m > a \/ m + 1 < b THEN "refb" ELSE "b", m)
    IN CASE a >= b -> << >>
         [] b - a = 3 -> <<mid, [kind |-> "fork", pic |-> a, two |-> a + 2]>>
         [] OTHER -> <<mid>> \o Hier[a, m] \o Hier[m + 1, b]

InBuf(it) == [it EXCEPT !.pic = buf[it.pic + 1],
                        !.two = IF it.kind = "fork" THEN buf[it.two + 1] ELSE 0]
Each(kind) == [i \in DOMAIN buf |-> Item(kind, buf[i])]

Group(t, pic) ==
    LET bs == CASE t = "idr" -> << >>
                [] env.pyr -> [i \in DOMAIN Hier[0, Len(buf)] |-> InBuf(Hier[0, Len(buf)][i])]
                [] OTHER -> Each("b")
    IN (IF t = "idr" THEN Each("tailp") ELSE << >>) \o <<Item(t, pic)>> \o bs
         \o (IF env.pyr THEN << >> ELSE <<Item("push", 0)>>)

Returned == IF mode = "feed" THEN "idle" ELSE "flush"

Arrive(t) ==
    /\ n' = n + 1
    /\ n = 0 => t = "idr"
    /\ IF t = "b"
       THEN /\ Len(buf) < env.bframes
            /\ buf' = Append(buf, n + 1) /\ at' = Returned /\ UNCHANGED todo
       ELSE /\ buf' = << >> /\ todo' = Group(t, n + 1)
            /\ at' = IF Rcp /\ env.vbv THEN "gate" ELSE "item"
    /\ UNCHANGED <<env, cur, rl, rate, emit, stream>>

\* yah264_encoder_encode with a picture.
Encode == \E t \in {"idr", "p", "b"} :
    /\ at = "idle" /\ mode = "feed" /\ n < env.film
    /\ off' = 0
    /\ Arrive(t) /\ UNCHANGED <<left, mode>>

\* yah264_encoder_encode without one: the lookahead's frames until something
\* comes out, then the B's without an anchor, then the pending emit.
Flush ==
    /\ at = "idle" /\ mode \in {"feed", "flush"} /\ n > 0
    /\ mode' = "flush" /\ at' = "flush" /\ off' = 0
    /\ left' \in (IF mode = "flush" THEN {left}
                  ELSE {k \in 0 .. env.la : k <= env.film - n})
    /\ UNCHANGED <<env, n, buf, todo, cur, rl, rate, emit, stream>>

FlushPop == \E t \in {"idr", "p", "b"} :
    /\ at = "flush" /\ off = 0 /\ left > 0
    /\ left' = left - 1
    /\ Arrive(t) /\ UNCHANGED <<mode, off>>

FlushTail ==
    /\ at = "flush" /\ (off > 0 \/ left = 0)
    /\ todo' = (IF off = 0 THEN Each("tailp") ELSE << >>) \o <<Item("end", 0)>>
    /\ buf' = IF off = 0 THEN << >> ELSE buf
    /\ at' = "item"
    /\ UNCHANGED <<env, n, left, mode, off, cur, rl, rate, emit, stream>>

-----------------------------------------------------------------------------
(* The background threads *)

EmitStart ==
    /\ bg.st = "todo"
    /\ bg' = [bg EXCEPT !.st = "run", !.seen = {pipe.nal.hdr.pic, gen[pipe.g]}]
    /\ UNCHANGED <<input, at, todo, cur, rl, rate, gen, w2_gen, pipe, fp, stream>>

EmitEnd ==
    /\ bg.st = "run"
    /\ \E ok \in {TRUE} \cup {b \in {FALSE} : Len(lost) < MaxLost} :
         bg' = [st |-> "done", seen |-> bg.seen \cup {pipe.nal.hdr.pic, gen[pipe.g]}, ok |-> ok]
    /\ UNCHANGED <<input, at, todo, cur, rl, rate, gen, w2_gen, pipe, fp, stream>>

LeafEnd ==
    /\ fp.st = "todo"
    /\ \E ok \in BOOLEAN : fp' = [fp EXCEPT !.st = "done", !.ok = ok]
    /\ UNCHANGED <<input, at, todo, cur, rl, rate, gen, w2_gen, pipe, bg, stream>>

-----------------------------------------------------------------------------
(* Draining the pending emit: w2_drain, at each place that calls it *)

LeavesThen_Joined == "join"                     \* mutant: append before the parent's NAL
LeavesThen == "leaves"                          \* after code_b_pair's own leaf

DrainTo == [gate |-> "gated", pre |-> "decide", mid |-> "publish", tail |-> "stored",
            leaves |-> "join", end |-> "terminal"]

\* The serial rate control charges whatever frame it last priced.
rc_account(pic) == Append(acct, [pic |-> pic, rcf |-> rcf, qp |-> qp])

Drain ==
    /\ at \in DOMAIN DrainTo
    /\ at' = DrainTo[at]
    /\ IF ~pipe.active THEN UNCHANGED <<off, led, acct, pipe, bg, out, lost>>
       ELSE LET nal == [pipe.nal EXCEPT !.seen = bg.seen]
            IN /\ bg.st = "done"
               /\ pipe' = [pipe EXCEPT !.active = FALSE] /\ bg' = [bg EXCEPT !.st = "idle"]
               /\ IF bg.ok
                  THEN /\ out' = Append(out, nal) /\ off' = off + 1 /\ UNCHANGED lost
                       /\ led' = IF Rcp THEN rcp_fill(led, Bits(nal.hdr.pic, nal.qp)) ELSE led
                       /\ acct' = IF env.rc = "serial" THEN rc_account(nal.hdr.pic) ELSE acct
                  ELSE /\ lost' = Append(lost, nal.hdr) /\ UNCHANGED <<out, off, acct>>
                       /\ led' = IF Rcp THEN rcp_drop(led) ELSE led
    /\ UNCHANGED <<env, n, buf, left, mode, todo, cur, rl, decided, qp, rcf, tight, first,
                   predecided, gen, w2_gen, fp, order>>

\* rcp_vbv_gate: the burst an anchor opens may lag, unless warm, at an IDR, or if
\* the buffer could underflow, which is any answer here.
Gate ==
    /\ at = "gated" /\ at' = "item"
    /\ led' = rcp_flush_all(led)
    /\ tight' \in IF rcp_warm(led) \/ \E i \in DOMAIN todo : todo[i].kind = "idr"
                  THEN {TRUE} ELSE BOOLEAN
    /\ UNCHANGED <<input, todo, cur, rl, decided, qp, rcf, acct, first, predecided, emit, stream>>

-----------------------------------------------------------------------------
(* One frame: emit_frame, and emit_frame_w2 when the emit is pipelined *)

Bounded == env.bound = "all" \/ (env.bound = "first" /\ first)
Pipelined == env.w2 /\ ~Bounded

rc_waits(kind) ==
    /\ env.rc # "none"
    /\ \/ ~Rcp
       \/ rcp_warm(led)
       \/ IsAnchor(kind) /\ ~(env.nodrain /\ env.lag > 0 /\ ~env.vbv)
       \/ env.vbv /\ tight

Start ==
    /\ at = "item" /\ todo # << >> /\ Head(todo).kind \in Kinds
    /\ LET it == Head(todo) d == Begun(env, rl, it.kind) w == Pipelined /\ rc_waits(it.kind)
       IN /\ rl' = d
          /\ cur' = [hdr |-> Header(env, d, it.kind, it.pic), waits |-> w, up |-> 0, pair |-> << >>]
          /\ at' = IF w THEN "pre" ELSE "decide"
    /\ todo' = Tail(todo)
    /\ UNCHANGED <<input, rate, emit, stream>>

\* A decision, and what it saw of the earlier ones.
Decision(l, kind, pic) ==
    [pic |-> pic, anchor |-> IsAnchor(kind), tight |-> env.vbv /\ tight,
     saw |-> Len(Settled(l, IsAnchor(kind)).done)]
Push(l, kind, pic) == rcp_decide(l, IsAnchor(kind), pic, env.vbv /\ tight)

\* rcp_head: an entry that a bailed pair has pushed already is used as it is.
Priced ==
    LET h == cur.hdr back == Len(led.q) - predecided
    IN IF Rcp /\ predecided > 0
       THEN /\ predecided' = predecided - 1
            /\ qp' = [of |-> led.q[(IF back < 0 THEN 0 ELSE back) + 1].pic, up |-> 0]
            /\ UNCHANGED <<led, decided, rcf>>
       ELSE /\ qp' = [of |-> h.pic, up |-> 0]
            /\ rcf' = IF Rcp THEN rcf ELSE h.pic
            /\ led' = IF Rcp THEN Push(led, h.kind, h.pic) ELSE led
            /\ decided' = IF Rcp THEN Append(decided, Decision(led, h.kind, h.pic)) ELSE decided
            /\ UNCHANGED predecided

\* The decision, and under W2 the analysis too, into this generation's grids; its
\* display index is noted before its NAL exists.
Decide ==
    /\ at = "decide"
    /\ Priced
    /\ IF Pipelined
       THEN /\ gen' = [gen EXCEPT ![w2_gen] = cur.hdr.pic]
            /\ order' = Append(order, cur.hdr.pic)
            /\ at' = IF cur.waits THEN "publish" ELSE "mid"
       ELSE at' = "size" /\ UNCHANGED <<gen, order>>
    /\ UNCHANGED <<input, todo, cur, rl, acct, tight, first, w2_gen, pipe, bg, fp, out, lost>>

NextGen_Same == w2_gen                          \* mutant: one generation of grids
NextGen == 1 - w2_gen

Publish ==
    /\ at = "publish"
    /\ pipe' = [active |-> TRUE, nal |-> NAL(cur.hdr, qp, {}), g |-> w2_gen]
    /\ bg' = [st |-> "todo", seen |-> {}, ok |-> TRUE]
    /\ w2_gen' = NextGen
    /\ at' = IF cur.waits /\ ~(Rcp /\ env.nodrain) THEN "tail" ELSE "stored"
    /\ UNCHANGED <<input, todo, cur, rl, rate, gen, fp, stream>>

\* The serial path: a slice that overflows fails the call, ...
Overflow ==
    /\ at = "size"
    /\ at' = "failed" /\ mode' = "failed"
    /\ lost' = Append(lost, cur.hdr)
    /\ UNCHANGED <<env, n, buf, left, off, todo, cur, rl, rate, emit, out, order>>

\* ... one that is too large for the buffer is coded again at a higher QP, ...
Retry ==
    /\ at = "size" /\ Bounded /\ cur.up < Retries
    /\ cur' = [cur EXCEPT !.up = @ + 1]
    /\ qp' = [qp EXCEPT !.up = @ + 1]
    /\ led' = IF Rcp THEN rcp_reqp(led, qp') ELSE led
    /\ UNCHANGED <<input, at, todo, rl, decided, rcf, acct, tight, first, predecided, emit, stream>>

\* ... and its NAL and bits are delivered at once.
Deliver ==
    /\ at = "size" /\ at' = "stored"
    /\ first' = FALSE
    /\ out' = Append(out, NAL(cur.hdr, qp, {cur.hdr.pic})) /\ off' = off + 1
    /\ order' = Append(order, cur.hdr.pic)
    /\ led' = IF Rcp THEN rcp_fill(led, Bits(cur.hdr.pic, qp)) ELSE led
    /\ acct' = IF env.rc = "serial" THEN rc_account(cur.hdr.pic) ELSE acct
    /\ UNCHANGED <<env, n, buf, left, mode, todo, cur, rl, decided, qp, rcf, tight, predecided,
                   emit, lost>>

\* The picture becomes a reference.
Stored ==
    /\ at = "stored" /\ at' = "item"
    /\ rl' = Coded(env, rl, cur.hdr.kind, cur.hdr.pic)
    /\ UNCHANGED <<input, todo, cur, rate, emit, stream>>

\* A flat group is over: its anchor becomes the newest list-0 reference.
PushRing ==
    /\ at = "item" /\ todo # << >> /\ Head(todo).kind = "push"
    /\ rl' = refring_push(env, rl) /\ todo' = Tail(todo)
    /\ UNCHANGED <<input, at, cur, rate, emit, stream>>

Return ==
    /\ at = "item" /\ todo = << >> /\ at' = Returned
    /\ UNCHANGED <<input, todo, cur, rl, rate, emit, stream>>

-----------------------------------------------------------------------------
(* Two leaves at once: code_b_pair *)

AtFork == at = "item" /\ todo # << >> /\ Head(todo).kind = "fork"

fpipe_ready ==
    /\ env.fp /\ env.bound # "all"
    /\ env.rc = "none" \/ (Rcp /\ ~rcp_warm(led) /\ ~(env.vbv /\ tight))

Leaves == <<Item("b", Head(todo).pic), Item("b", Head(todo).two)>>

ForkSerial ==
    /\ AtFork /\ ~fpipe_ready
    /\ todo' = Leaves \o Tail(todo)
    /\ UNCHANGED <<input, at, cur, rl, rate, emit, stream>>

\* The leaves prepared, in coding order, each with its decision; after k of them.
AfterPreps(k) ==
    LET a == Push(led, "b", Leaves[1].pic)
    IN CASE k = 1 -> [led |-> a, log |-> <<Decision(led, "b", Leaves[1].pic)>>]
         [] k = 2 -> [led |-> Push(a, "b", Leaves[2].pic),
                      log |-> <<Decision(led, "b", Leaves[1].pic), Decision(a, "b", Leaves[2].pic)>>]

Prepped(k) ==
    IF Rcp THEN /\ led' = AfterPreps(k).led /\ decided' = decided \o AfterPreps(k).log
                /\ qp' = [of |-> Leaves[k].pic, up |-> 0]
    ELSE UNCHANGED <<led, decided, qp>>

Fork ==
    /\ AtFork /\ fpipe_ready
    /\ Prepped(2)
    /\ cur' = [cur EXCEPT !.pair = [k \in 1 .. 2 |-> Header(env, rl, "b", Leaves[k].pic)]]
    /\ fp' = [st |-> "todo", ok |-> TRUE, own |-> TRUE]
    /\ at' = "leaf" /\ todo' = Tail(todo)
    /\ UNCHANGED <<input, rl, rcf, acct, tight, first, predecided, gen, w2_gen, pipe, bg, stream>>

\* The k-th preparation bails out: both leaves are coded serially, on the
\* decisions already made.
ForkBails == \E k \in {1, 2} :
    /\ AtFork /\ fpipe_ready /\ env.bails
    /\ Prepped(k)
    /\ predecided' = IF Rcp THEN k ELSE predecided
    /\ todo' = Leaves \o Tail(todo)
    /\ UNCHANGED <<input, at, cur, rl, rcf, acct, tight, first, emit, stream>>

\* The caller's own leaf, which may overflow as well.
Leaf ==
    /\ at = "leaf" /\ at' = LeavesThen
    /\ \E ok \in BOOLEAN : fp' = [fp EXCEPT !.own = ok]
    /\ UNCHANGED <<input, todo, cur, rl, rate, gen, w2_gen, pipe, bg, stream>>

LeafNAL(k) == NAL(cur.pair[k], [of |-> cur.pair[k].pic, up |-> 0], {cur.pair[k].pic})
LeafFill(l, k) == IF Rcp THEN rcp_fill(l, Bits(cur.pair[k].pic, LeafNAL(k).qp)) ELSE l

JoinLeaves ==
    /\ at = "join" /\ fp.st = "done"
    /\ fp' = [fp EXCEPT !.st = "idle"]
    /\ LET good == CASE ~fp.own -> 0 [] fp.own /\ ~fp.ok -> 1 [] OTHER -> 2
       IN /\ out' = out \o [k \in 1 .. good |-> LeafNAL(k)] /\ off' = off + good
          /\ order' = order \o [k \in 1 .. good |-> cur.pair[k].pic]
          /\ led' = CASE good = 0 -> led
                       [] good = 1 -> LeafFill(led, 1)
                       [] OTHER -> LeafFill(LeafFill(led, 1), 2)
          /\ lost' = lost \o [k \in 1 .. 2 - good |-> cur.pair[good + k]]
          /\ IF good = 2 THEN at' = "item" /\ UNCHANGED mode
             ELSE at' = "failed" /\ mode' = "failed"
    /\ UNCHANGED <<env, n, buf, left, todo, cur, rl, decided, qp, rcf, acct, tight, first,
                   predecided, gen, w2_gen, pipe, bg>>

-----------------------------------------------------------------------------
(* The end of a flush call *)

FlushEnd ==
    /\ at = "item" /\ todo # << >> /\ Head(todo).kind = "end"
    /\ at' = "end" /\ todo' = Tail(todo)
    /\ UNCHANGED <<input, cur, rl, rate, emit, stream>>

\* A call that returned nothing is the last one: the ledger is settled.
Terminal ==
    /\ at = "terminal"
    /\ IF off = 0
       THEN /\ led' = IF Rcp THEN rcp_flush_all(led) ELSE led
            /\ at' = "closed" /\ mode' = "closed"
       ELSE at' = "idle" /\ UNCHANGED <<led, mode>>
    /\ UNCHANGED <<env, n, buf, left, off, todo, cur, rl, decided, qp, rcf, acct, tight, first,
                   predecided, emit, stream>>

ApiThread ==
    \/ Encode \/ Flush \/ FlushPop \/ FlushTail \/ Drain \/ Gate \/ Start \/ Decide \/ Publish
    \/ Overflow \/ Retry \/ Deliver \/ Stored \/ PushRing \/ Return
    \/ ForkSerial \/ Fork \/ ForkBails \/ Leaf \/ JoinLeaves \/ FlushEnd \/ Terminal
EmitThread == EmitStart \/ EmitEnd

Next == ApiThread \/ EmitThread \/ LeafEnd

Spec == Init /\ [][Next]_vars
\* The caller flushes until a call returns nothing, and threads are scheduled.
FairSpec == Spec /\ WF_vars(ApiThread) /\ WF_vars(EmitThread) /\ WF_vars(LeafEnd)

-----------------------------------------------------------------------------
(* Properties *)

\* A decoder that reads the NALs in the order they come finds no gap in FrameNum
\* and builds, from its own sliding window and the list commands, the very lists
\* each slice was coded with (the comments of fn_wrap, dpb_store and build_list0;
\* a FrameNum that wraps, reference B's, tail P's).  Once a reference has been
\* dropped for its size the two part, which no header repairs.
MirrorsDecoder ==
    \/ \E i \in DOMAIN lost : IsRef(lost[i].kind)
    \/ LET D[i \in 0 .. Len(out)] ==
             IF i = 0 THEN NoPictures ELSE Marked(env, D[i - 1], out[i].hdr)
       IN \A i \in DOMAIN out : ReadsAsCoded(env, D[i - 1], out[i].hdr)

\* What the k-th decision may have seen, from the coding order alone.
AnchorsBefore(k) == {i \in 1 .. k - 1 : decided[i].anchor}
Bound(k) ==
    LET kept == {a \in AnchorsBefore(k) : Cardinality({b \in AnchorsBefore(k) : b > a}) >=
                                          (IF env.lag < StairK THEN env.lag ELSE StairK)}
    IN IF kept = {} THEN 0 ELSE CHOOSE a \in kept : \A b \in kept : b <= a
Scheduled(k) ==
    IF decided[k].anchor /\ env.lag = 0 THEN k - 1
    ELSE LET due(i) == i < Bound(k) \/ i <= RCP_WARM \/ decided[i].tight
         IN CHOOSE j \in 0 .. k - 1 :
               /\ \A i \in 1 .. j : due(i)
               /\ j < k - 1 => ~due(j + 1)

\* Left out is the edge of the warm-up of the pipelined path, where the schedule
\* depends on the frame's type.
WarmEdge == IF ~env.w2 THEN {} ELSE {RCP_WARM + 1} \cup {k \in {RCP_WARM + 2} : env.fp}

\* Bits are charged to the frame they were coded for, at the QP it was coded at:
\* the ledger's fills, which only take the next open entry, stay in step over
\* dropped slices, pairs, bailed preparations and frames coded again, and the
\* serial rate control is drained before it prices another frame (w2_drain,
\* rcp_fill, rcp_drop, rcp_reqp, rcp_head).  And every QP is decided on exactly
\* the frames the schedule names, whatever the threads were doing and whichever
\* path coded them (the comments above rcp_pop_bound and rcp_pop_ready).
LedgerKept ==
    /\ \A en \in Range(led.done) \cup Range(led.q) :
          en.filled /\ ~en.dropped => en.bits = Bits(en.pic, en.qp)
    /\ \A a \in Range(acct) : a.rcf = a.pic /\ a.qp.of = a.pic
    /\ \A k \in DOMAIN decided \ WarmEdge : decided[k].saw = Scheduled(k)

\* A slice is written from the header and the grids of its own frame from the
\* first bit to the last, while the next frame is analysed (w2_snapshot_grids,
\* the two generations, the copied pending record).
EmitIntact ==
    /\ \A i \in DOMAIN out : out[i].seen = {out[i].hdr.pic}
    /\ bg.st \in {"run", "done"} => bg.seen = {pipe.nal.hdr.pic}

\* The encode ends, and unless a call failed every frame that arrived is in the
\* stream once, in the order its display index was reported and references were
\* counted, less the slices dropped for their size; no B waits for an anchor, no
\* emit is pending and no ledger entry is open (the flush path, w2_flush before
\* the NALs of a pair, the deferred NAL of the last frame).
Whole ==
    /\ buf = << >> /\ left = 0 /\ ~pipe.active /\ led.q = << >>
    /\ LET gone == {lost[i].pic : i \in DOMAIN lost}
       IN [i \in DOMAIN out |-> out[i].hdr.pic] = SelectSeq(order, LAMBDA p : p \notin gone)
    /\ Range(order) = 1 .. n /\ Len(order) = n
AllOut == <>(mode = "failed" \/ (mode = "closed" /\ Whole))
=============================================================================
