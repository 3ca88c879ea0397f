------------------------------- MODULE LaThread -------------------------------
(***************************************************************************)
(* The decoupled lookahead of src/src/encoder/encoder.c: the ring of       *)
(* low-resolution frames, the thread that runs the per-frame chain         *)
(* (la_th_main, la_chain_step, la_finalize), the API thread that pads,     *)
(* pushes, pops and walks the window for the macroblock tree, and the      *)
(* thread that computes parts of that walk ahead (mbt_pre_main, warm mode).*)
(*                                                                         *)
(* A frame is its push number, 1, 2, ...; low-res planes and pictures are  *)
(* the number of the frame they come from, motion legs the pair of POCs    *)
(* they connect.  What the pixels decide (is this a cut, a flash, a frame  *)
(* that bidirectional prediction does not help) is the film, fixed at the  *)
(* start and unknown to the code.                                          *)
(*                                                                         *)
(* A condition variable whose predicate changes only under the mutex and   *)
(* with a broadcast is a guard.  Left out: the legs to the previous frame  *)
(* (written with the low-res plane), the GPU paths, the whole-anchor       *)
(* prefetch (off by default), a staircase of several live bursts (with it  *)
(* mbt_warm_launch stands down).                                           *)
(***************************************************************************)
EXTENDS Integers, Sequences, FiniteSets

CONSTANTS
    Frames,         \* bound: the pictures the caller has
    Shapes,         \* what an encoder may be opened with: [bframes, depth, buf,
                    \* keyint, scmin (keyint_min), badapt]
    Films           \* Films[f][k]: "calm", "cut", "flash" or "dear"

ASSUME LaAssumption ==
    /\ Frames \in Nat
    /\ Shapes \subseteq [bframes : Nat, depth : Nat, buf : Nat, keyint : Nat \ {0},
                         scmin : Nat, badapt : BOOLEAN]
    /\ \A c \in Shapes : c.depth >= c.bframes + 3             \* the engage gate
    /\ Films \subseteq [1 .. Frames -> {"calm", "cut", "flash", "dear"}]

VARIABLES
    cfg, film,
    apc, cur,               \* the API thread, and the slot of the popped entry
    la_head, la_n, pushed, pop_seq, flushing,
    plane, ring, q,         \* per slot: en->plane, the entry, lt->q
    memo,                   \* per slot: the mbt_pa_* fields
    bbuf,                   \* the buffered B's, with their stolen memos
    panchor,                \* code_panchor: the last anchor walked
    cpc, done, exit, ch,    \* the chain thread, lt->done, lt->exit, its own state
    wpc, wi, wpoc,          \* the mb-tree thread, the offset it is at, anc[0].poc
    req, mdone, mexit, job, \* mp->req, done, exit and the window captured
    plain                   \* (history) the memos of an encoder without the
                            \* mb-tree thread

api == <<apc, cur, la_head, la_n, pushed, pop_seq, flushing, bbuf, panchor>>
chain == <<cpc, done, ch>>
warm == <<wpc, wi, wpoc>>
post == <<req, mdone, mexit, job>>
vars == <<cfg, film, api, plane, ring, q, memo, chain, exit, warm, post, plain>>

None == -1                                 \* no slot, no POC
Least(a, b) == IF a < b THEN a ELSE b

Cap == cfg.depth + cfg.buf                                    \* la_cap
Slots == 0 .. Cap - 1
At(h, i) == (h + i) % Cap                  \* the slot at ring offset i from h

Blank == [fr |-> 0, typed |-> FALSE, anchor |-> FALSE, idr |-> FALSE, since |-> 0,
          cleared |-> FALSE, bleg |-> << >>, aleg |-> None]
NoMemo == [valid |-> FALSE, past |-> None, fut |-> None, data |-> <<0, 0, 0>>,
           seed |-> << >>]
NoAnchor == [poc |-> None, fr |-> 0]
Poc(en) == 2 * en.since

Init ==
    /\ cfg \in Shapes /\ film \in Films
    /\ apc = "ready" /\ cur = None
    /\ la_head = 0 /\ la_n = 0 /\ pushed = 0 /\ pop_seq = 0 /\ flushing = FALSE
    /\ plane = [s \in Slots |-> 0] /\ ring = [s \in Slots |-> Blank]
    /\ q = [s \in Slots |-> None]
    /\ memo = [s \in Slots |-> NoMemo] /\ plain = memo
    /\ bbuf = << >> /\ panchor = NoAnchor
    /\ cpc = "idle" /\ done = 0 /\ exit = FALSE
    /\ ch = [prev |-> None, have |-> FALSE, since |-> 0, brun |-> 0, apoc |-> None]
    /\ wpc = "idle" /\ wi = 0 /\ wpoc = None
    /\ req = FALSE /\ mdone = FALSE /\ mexit = FALSE
    /\ job = [head |-> 0, navail |-> 0, popseq |-> 0, pushed |-> 0]

-----------------------------------------------------------------------------
(* The chain's decisions.                                                   *)

\* la_finalize(p, n): p's type is decided; n is its successor's slot or None.
\* An anchor that is not an IDR gets its own leg to the last anchor and fills
\* the two legs of every B between (lowres_bleg_me).
Finalized(p, n) ==
    LET en == ring[p]
        raw == ch.have /\ ~en.cleared /\ ch.since >= cfg.scmin
                 /\ film[en.fr] \in {"cut", "flash"}
        flash == raw /\ film[en.fr] = "flash" /\ cfg.bframes > 0 /\ n # None
        since == IF raw /\ ~flash THEN 0 ELSE ch.since
        idr == since = 0
        anchor == \/ idr
                  \/ ~cfg.badapt /\ since % (cfg.bframes + 1) = 0
                  \/ cfg.badapt /\ (ch.brun >= cfg.bframes \/ n = None \/ film[en.fr] = "dear")
        linked == anchor /\ ~idr /\ ch.apoc # None
        Leaf(b) == b.typed /\ ~b.anchor /\ ~b.idr
                     /\ ch.apoc < Poc(b) /\ Poc(b) < 2 * since
        leaves == {At(p, Cap - j) : j \in {k \in 1 .. ch.brun :
                       \A i \in 1 .. k : Leaf(ring[At(p, Cap - i)])}}
    IN  [ring |-> [s \in Slots |->
             IF s = p
             THEN [en EXCEPT !.typed = TRUE, !.anchor = anchor, !.idr = idr, !.since = since,
                             !.aleg = IF ~anchor THEN @ ELSE IF linked THEN ch.apoc ELSE None]
             ELSE IF linked /\ s \in leaves
             THEN [ring[s] EXCEPT !.bleg = <<ch.apoc, 2 * since>>]
             ELSE [ring[s] EXCEPT !.cleared = @ \/ (flash /\ s = n)]],
         ch |-> [prev |-> n, have |-> TRUE, since |-> (since + 1) % cfg.keyint,
                 brun |-> IF anchor THEN 0 ELSE ch.brun + 1,
                 apoc |-> IF anchor THEN 2 * since ELSE ch.apoc]]

-----------------------------------------------------------------------------
(* The lookahead thread: la_th_main around la_chain_step.                   *)

Step == done + 1
Entry == q[Step % Cap]

ChainTake ==
    /\ cpc = "idle" /\ ~exit /\ done < pushed
    /\ cpc' = "analyse"
    /\ UNCHANGED <<cfg, film, api, plane, ring, q, memo, done, ch, exit, warm, post, plain>>

\* The downscale and the row analysis, then the entry's fields are reset.
ChainAnalyse ==
    /\ cpc = "analyse"
    /\ ring' = [ring EXCEPT ![Entry] =
                   [Blank EXCEPT !.fr = plane[Entry], !.aleg = ring[Entry].aleg]]
    /\ cpc' = "finalize"
    /\ UNCHANGED <<cfg, film, api, plane, q, memo, done, ch, exit, warm, post, plain>>

\* The entry before gets its type, now that its successor is known.
ChainFinalize ==
    /\ cpc = "finalize"
    /\ LET f == Finalized(ch.prev, Entry) IN
         IF ch.prev = None
         THEN ch' = [ch EXCEPT !.prev = Entry] /\ ring' = ring
         ELSE ch' = f.ch /\ ring' = f.ring
    /\ cpc' = "publish"
    /\ UNCHANGED <<cfg, film, api, plane, q, memo, done, exit, warm, post, plain>>

ChainPublish ==
    /\ cpc = "publish"
    /\ done' = Step /\ cpc' = "idle"
    /\ UNCHANGED <<cfg, film, api, plane, ring, q, memo, ch, exit, warm, post, plain>>

ChainExit ==                               \* what is pushed and not taken is abandoned
    /\ cpc = "idle" /\ exit
    /\ cpc' = "gone"
    /\ UNCHANGED <<cfg, film, api, plane, ring, q, memo, done, ch, exit, warm, post, plain>>

-----------------------------------------------------------------------------
(* The macroblock tree's window.                                            *)

wcap == cfg.depth - 2

\* The walk's loop from offset i: up to the first untyped entry or IDR, or hi.
Reach(h, i, hi) ==
    LET stop == {k \in i .. hi - 1 : LET en == ring[At(h, k)] IN ~en.typed \/ en.idr}
    IN  IF stop = {} THEN hi ELSE CHOOSE k \in stop : \A j \in stop : k <= j

Anchors(h, i, r) ==
    LET win == [k \in 1 .. r - i |-> ring[At(h, i + k - 1)]]
        anc == SelectSeq(win, LAMBDA en : en.anchor)
    IN  [k \in DOMAIN anc |-> [poc |-> Poc(anc[k]), fr |-> anc[k].fr]]

\* The bracketing anchors of a source: nearest by POC, the first of equals.
Past(A, p) ==
    LET S == {a \in DOMAIN A : A[a].poc < p}
    IN  IF S = {} THEN NoAnchor
        ELSE A[CHOOSE a \in S : \A b \in S : A[b].poc < A[a].poc \/ (A[b].poc = A[a].poc /\ a <= b)]
Future(A, p) ==
    LET S == {a \in DOMAIN A : A[a].poc > p}
    IN  IF S = {} THEN NoAnchor
        ELSE A[CHOOSE a \in S : \A b \in S : A[b].poc > A[a].poc \/ (A[b].poc = A[a].poc /\ a <= b)]

\* What mbt_pa_source takes from the chain's legs: << >> if the source is past
\* the settled bound and searches afresh.
Legs(en) == IF en.anchor THEN <<en.aleg>> ELSE en.bleg
Seed(en, settled) == IF settled THEN <<Legs(en)>> ELSE << >>

\* The source's memo after mbt_pa_source: kept if its key matches.
Refreshed(m, fr, past, fut, seed) ==
    IF m.valid /\ m.past = past.poc /\ m.fut = fut.poc THEN m
    ELSE [valid |-> TRUE, past |-> past.poc, fut |-> fut.poc,
          data |-> <<fr, past.fr, fut.fr>>, seed |-> seed]

SettledOff_NoReachBack == cfg.depth - 4    \* (mutant) forgets the leaves' later legs
SettledOff == cfg.depth - 4 - cfg.bframes

\* compute_mbtree_wholebuf of the anchor in cur, over the memos M of the ring.
WindowMemos(M) ==
    LET r == Reach(la_head, 0, Least(la_n, wcap))
        A == <<[poc |-> Poc(ring[cur]), fr |-> ring[cur].fr]>> \o Anchors(la_head, 0, r)
    IN  [s \in Slots |->
           LET i == (s + Cap - la_head) % Cap
               en == ring[s]
           IN  IF i < r THEN Refreshed(M[s], en.fr, Past(A, Poc(en)), Future(A, Poc(en)),
                                       Seed(en, i <= SettledOff))
               ELSE M[s]]

\* The same for a buffered B: its past anchor is the anchor coded before, or the
\* reference B promoted to an anchor (the second of two or three).
BufferMemo(m, b) ==
    LET r == Reach(la_head, 0, Least(la_n, wcap))
        refb == IF Len(bbuf) \in {2, 3} THEN <<[poc |-> bbuf[2].poc, fr |-> bbuf[2].fr]>> ELSE << >>
        A == <<[poc |-> Poc(ring[cur]), fr |-> ring[cur].fr]>> \o Anchors(la_head, 0, r) \o refb
        past == IF Past(A, b.poc) = NoAnchor THEN panchor ELSE Past(A, b.poc)
    IN  Refreshed(m, b.fr, past, Future(A, b.poc), <<b.seed>>)

-----------------------------------------------------------------------------
(* The API thread: yah264_encoder_encode.                                   *)

Waited_Unclamped(need) == done >= need     \* (mutant) waits for steps never pushed
Waited(need) == done >= Least(need, pushed)                   \* la_th_wait

PadSlot == At(la_head, la_n)

\* A picture arrives; the slot's last hosted step must be over before padding.
EncodeCall ==
    /\ apc = "ready" /\ ~flushing /\ pushed < Frames
    /\ Waited(pushed + 1 - Cap)
    /\ apc' = "pad"
    /\ UNCHANGED <<cfg, film, cur, la_head, la_n, pushed, pop_seq, flushing, plane, ring,
                   q, memo, bbuf, panchor, chain, exit, warm, post, plain>>

\* The ring must be full before anything is popped.
Filling == la_n + 1 < Cap

\* pad_input_to, then la_push: the memo dies with the slot's old frame.
Push ==
    /\ apc = "pad"
    /\ plane' = [plane EXCEPT ![PadSlot] = pushed + 1]
    /\ memo' = [memo EXCEPT ![PadSlot].valid = FALSE]
    /\ plain' = [plain EXCEPT ![PadSlot].valid = FALSE]
    /\ q' = [q EXCEPT ![(pushed + 1) % Cap] = PadSlot]
    /\ la_n' = la_n + 1 /\ pushed' = pushed + 1
    /\ apc' = IF Filling THEN "ready" ELSE "pop"
    /\ UNCHANGED <<cfg, film, cur, la_head, pop_seq, flushing, ring, bbuf, panchor, chain,
                   exit, warm, post>>

Popped ==
    /\ cur' = la_head
    /\ la_head' = At(la_head, 1) /\ la_n' = la_n - 1 /\ pop_seq' = pop_seq + 1

Pop ==
    /\ apc = "pop"
    /\ Popped /\ apc' = "popwait"
    /\ UNCHANGED <<cfg, film, pushed, flushing, plane, ring, q, memo, bbuf, panchor, chain,
                   exit, warm, post, plain>>

PopNeed == pop_seq + cfg.bframes + 2

PopWait ==
    /\ apc = "popwait"
    /\ Waited(PopNeed)
    /\ apc' = "take"
    /\ UNCHANGED <<cfg, film, cur, la_head, la_n, pushed, pop_seq, flushing, plane, ring,
                   q, memo, bbuf, panchor, chain, exit, warm, post, plain>>

\* A flush drains the chain, then pops without waiting; an empty ring ends it.
FlushCall ==
    /\ apc = "ready"
    /\ Waited(pushed)
    /\ flushing' = TRUE
    /\ IF la_n > 0 THEN Popped /\ apc' = "take"
       ELSE UNCHANGED <<apc, cur, la_head, la_n, pop_seq>>
    /\ UNCHANGED <<cfg, film, pushed, plane, ring, q, memo, bbuf, panchor, chain, exit, warm,
                   post, plain>>

\* The untyped tail of the stream is finalized here, the chain being idle.
TakeTail ==
    /\ apc = "take" /\ ~ring[cur].typed
    /\ LET f == Finalized(cur, None) IN ring' = f.ring /\ ch' = [f.ch EXCEPT !.prev = ch.prev]
    /\ UNCHANGED <<cfg, film, api, plane, q, memo, cpc, done, exit, warm, post, plain>>

\* stash_lr_seed and the B half of encode_frame_core: the B is copied out of the
\* ring with its legs, and its memo stolen.
TakeB ==
    LET en == ring[cur]
        fits == en.bleg # << >> /\ en.bleg[1] < Poc(en) /\ Poc(en) < en.bleg[2]
    IN
    /\ apc = "take" /\ en.typed /\ ~en.anchor
    /\ bbuf' = Append(bbuf, [poc |-> Poc(en), fr |-> en.fr, memo |-> memo[cur],
                             plain |-> plain[cur], seed |-> IF fits THEN en.bleg ELSE << >>])
    /\ memo' = [memo EXCEPT ![cur].valid = FALSE]
    /\ plain' = [plain EXCEPT ![cur].valid = FALSE]
    /\ apc' = "ready"
    /\ UNCHANGED <<cfg, film, cur, la_head, la_n, pushed, pop_seq, flushing, plane, ring, q,
                   panchor, chain, exit, warm, post>>

\* An anchor; B's before an IDR are coded as P's and do not reach its walk.
TakeAnchor ==
    /\ apc = "take" /\ ring[cur].typed /\ ring[cur].anchor
    /\ bbuf' = IF ring[cur].idr THEN << >> ELSE bbuf
    /\ panchor' = IF ring[cur].idr THEN NoAnchor ELSE panchor
    /\ apc' = "treewait"
    /\ UNCHANGED <<cfg, film, cur, la_head, la_n, pushed, pop_seq, flushing, plane, ring, q,
                   memo, chain, exit, warm, post, plain>>

TreeNeed_Short == pop_seq + cfg.depth - 2  \* (mutant) a step too early
TreeNeed == pop_seq + cfg.depth - 1        \* la_th_wait_mbtree; Phase A waits again for it

TreeWait ==
    /\ apc = "treewait"
    /\ Waited(TreeNeed)
    /\ apc' = "join"
    /\ UNCHANGED <<cfg, film, cur, la_head, la_n, pushed, pop_seq, flushing, plane, ring, q,
                   memo, bbuf, panchor, chain, exit, warm, post, plain>>

Retired == req => mdone

WarmJoin ==                                                   \* mbt_warm_join
    /\ apc = "join"
    /\ Retired
    /\ req' = FALSE /\ mdone' = FALSE
    /\ apc' = "walk"
    /\ UNCHANGED <<cfg, film, cur, la_head, la_n, pushed, pop_seq, flushing, plane, ring, q,
                   memo, bbuf, panchor, chain, exit, warm, mexit, job, plain>>

Walk ==
    /\ apc = "walk"
    /\ memo' = WindowMemos(memo) /\ plain' = WindowMemos(plain)
    /\ bbuf' = [k \in DOMAIN bbuf |-> [bbuf[k] EXCEPT !.memo = BufferMemo(@, bbuf[k]),
                                                      !.plain = BufferMemo(@, bbuf[k])]]
    /\ panchor' = [poc |-> Poc(ring[cur]), fr |-> ring[cur].fr]
    /\ apc' = "launch"
    /\ UNCHANGED <<cfg, film, cur, la_head, la_n, pushed, pop_seq, flushing, plane, ring, q,
                   chain, exit, warm, post>>

\* mbt_warm_launch; the mini-GOP is coded and the buffer emptied.
WarmLaunch ==
    /\ apc = "launch"
    /\ req' = TRUE /\ mdone' = FALSE
    /\ job' = [head |-> la_head, navail |-> la_n, popseq |-> pop_seq, pushed |-> pushed]
    /\ bbuf' = << >>
    /\ apc' = "ready"
    /\ UNCHANGED <<cfg, film, cur, la_head, la_n, pushed, pop_seq, flushing, plane, ring, q,
                   memo, panchor, chain, exit, warm, mexit, plain>>

-----------------------------------------------------------------------------
(* The mb-tree thread: mbt_pre_main in its default mode, mbt_warm_window.   *)

lo == cfg.bframes + 2
Lim == LET room == job.pushed - job.popseq - 2
       IN  Least(job.navail, IF room < 0 THEN 0 ELSE room)

WarmTake ==
    /\ wpc = "idle" /\ ~mexit /\ req /\ ~mdone
    /\ IF Lim <= lo THEN mdone' = TRUE /\ wpc' = wpc ELSE wpc' = "wait" /\ mdone' = mdone
    /\ UNCHANGED <<cfg, film, api, plane, ring, q, memo, chain, exit, wi, wpoc, req, mexit,
                   job, plain>>

WarmNeed_Short == job.popseq + Lim         \* (mutant) the last entry still untyped
WarmNeed == job.popseq + Lim + 1

\* la_th_wait_step; exit is not set while the API thread waits for this thread.
WarmWait ==
    /\ wpc = "wait" /\ done >= WarmNeed
    /\ wpc' = "scan" /\ wi' = 0
    /\ UNCHANGED <<cfg, film, api, plane, ring, q, memo, chain, exit, wpoc, post, plain>>

\* The search for the next anchor, from offset 0: `typed', and in a second read
\* `is_anchor', of entries the pops since the launch may have handed back.
WarmScan ==
    /\ wpc = "scan"
    /\ IF wi >= Lim \/ ~ring[At(job.head, wi)].typed
       THEN mdone' = TRUE /\ wpc' = "idle"
       ELSE mdone' = mdone /\ wpc' = "look"
    /\ UNCHANGED <<cfg, film, api, plane, ring, q, memo, chain, exit, wi, wpoc, req, mexit,
                   job, plain>>

WarmLook ==
    LET en == ring[At(job.head, wi)] IN
    /\ wpc = "look"
    /\ IF en.anchor THEN wpc' = "phaseA" /\ wpoc' = Poc(en) /\ wi' = wi
       ELSE wpc' = "scan" /\ wi' = wi + 1 /\ wpoc' = wpoc
    /\ UNCHANGED <<cfg, film, api, plane, ring, q, memo, chain, exit, post, plain>>

\* How far a source may be from the head: settled here, and in the next walk too.
WarmBound_OwnOnly(settled) == settled      \* (mutant) only what is settled here
WarmBound(settled) == Least(settled, wi + cfg.depth - 4 - cfg.bframes)

\* Phase A of the walk the anchor at offset wi will run.
WarmPhaseA ==
    LET h == job.head
        settled == Lim - 2 - cfg.bframes
        r == Reach(h, wi + 1, Least(Lim, wi + wcap + 1))
        A == <<[poc |-> wpoc, fr |-> ring[At(h, wi)].fr]>> \o Anchors(h, wi + 1, r)
    IN
    /\ wpc = "phaseA"
    /\ memo' = [s \in Slots |->
           LET i == (s + Cap - h) % Cap
               en == ring[s]
           IN  IF i > wi /\ i < r /\ i >= lo /\ i <= WarmBound(settled)
               THEN Refreshed(memo[s], en.fr, Past(A, Poc(en)), Future(A, Poc(en)),
                              Seed(en, i <= settled))
               ELSE memo[s]]
    /\ mdone' = TRUE /\ wpc' = "idle"
    /\ UNCHANGED <<cfg, film, api, plane, ring, q, chain, exit, wi, wpoc, req, mexit, job, plain>>

WarmExit ==
    /\ wpc = "idle" /\ mexit
    /\ wpc' = "gone"
    /\ UNCHANGED <<cfg, film, api, plane, ring, q, memo, chain, exit, wi, wpoc, post, plain>>

-----------------------------------------------------------------------------
(* yah264_encoder_close, after any call: first the mb-tree thread, which may*)
(* need the chain, then the chain.                                          *)

CloseCall ==
    /\ apc = "ready" /\ apc' = "close"
    /\ UNCHANGED <<cfg, film, cur, la_head, la_n, pushed, pop_seq, flushing, plane, ring, q,
                   memo, bbuf, panchor, chain, exit, warm, post, plain>>

CloseTree ==
    /\ apc = "close" /\ ~mexit /\ Retired
    /\ mexit' = TRUE
    /\ UNCHANGED <<cfg, film, api, plane, ring, q, memo, chain, exit, warm, req, mdone, job, plain>>

CloseChain ==
    /\ apc = "close" /\ wpc = "gone" /\ ~exit
    /\ exit' = TRUE
    /\ UNCHANGED <<cfg, film, api, plane, ring, q, memo, chain, warm, post, plain>>

Closed ==
    /\ apc = "close" /\ cpc = "gone"
    /\ apc' = "closed"
    /\ UNCHANGED <<cfg, film, cur, la_head, la_n, pushed, pop_seq, flushing, plane, ring, q,
                   memo, bbuf, panchor, chain, exit, warm, post, plain>>

Over == apc = "closed" /\ UNCHANGED vars

ChainStep == ChainTake \/ ChainAnalyse \/ ChainFinalize \/ ChainPublish \/ ChainExit
WarmStep == WarmTake \/ WarmWait \/ WarmScan \/ WarmLook \/ WarmPhaseA \/ WarmExit
ApiStep == Push \/ Pop \/ PopWait \/ TakeTail \/ TakeB \/ TakeAnchor \/ TreeWait
             \/ WarmJoin \/ Walk \/ WarmLaunch \/ CloseTree \/ CloseChain \/ Closed
Caller == EncodeCall \/ FlushCall \/ CloseCall

Next == ChainStep \/ WarmStep \/ ApiStep \/ Caller \/ Over

\* The threads are scheduled; the caller need not call.
Spec == Init /\ [][Next]_vars /\ WF_vars(ChainStep) /\ WF_vars(WarmStep) /\ WF_vars(ApiStep)

-----------------------------------------------------------------------------
(* Properties.                                                              *)

\* The chain reads the picture that was pushed: until its step is over, the
\* slot's plane is not padded with a later one (the wait before pad_input_to,
\* and the ring's rotation by la_cap).
PlaneKept == \A s \in done + 1 .. pushed : plane[q[s % Cap]] = s

\* The slots each thread may be writing or reading where it stands.  The legs of
\* the leaves are apart: a finalize writes them long after the leaf's type, and
\* the readers stay below the settled bound for them.
ChainWrites == CASE cpc = "analyse" -> {Entry}
                 [] cpc = "finalize" /\ ch.prev # None -> {ch.prev}
                 [] OTHER -> {}
Leaves(p, n) == {s \in Slots : Finalized(p, n).ring[s].bleg # ring[s].bleg}
ChainLegs == IF cpc = "finalize" /\ ch.prev # None THEN Leaves(ch.prev, Entry) ELSE {}
ApiWrites == CASE apc = "pad" -> {PadSlot}
               [] apc = "take" -> IF ~ring[cur].typed THEN {cur} \cup Leaves(cur, None)
                                  ELSE IF ring[cur].anchor THEN {} ELSE {cur}
               [] OTHER -> {}
WalkReads(hi) == IF apc = "walk" THEN {At(la_head, i) : i \in 0 .. Least(la_n, hi) - 1} ELSE {}
WarmReads(hi) == IF wpc = "phaseA"
                 THEN {At(job.head, i) : i \in lo .. Least(Lim, hi) - 1} ELSE {}
Outside == Slots \ ({At(la_head, i) : i \in 0 .. la_n - 1}
                      \cup (IF apc = "popwait" THEN {cur} ELSE {}))

\* No thread writes a ring entry another is using: the chain is through with an
\* entry when it leaves the window, with its type before the walk or the
\* prefetch reads it and with its legs before they read those, and the API
\* thread neither reuses nor steals from the prefetch's range.  (Its search for
\* the anchor starts below that range and is left out.)
RaceFree ==
    /\ PlaneKept
    /\ ChainWrites \cap (Outside \cup WalkReads(wcap) \cup WarmReads(wi + wcap + 1)) = {}
    /\ ChainLegs \cap (Outside \cup WalkReads(SettledOff + 1)
                         \cup WarmReads(WarmBound(Lim - 2 - cfg.bframes) + 1)) = {}
    /\ ApiWrites \cap WarmReads(wi + wcap + 1) = {}

\* The walk's window is a function of the stream, not of how far the chain got:
\* each entry in reach holds its frame, typed, but for the stream's last frame.
WalkSeesWindow ==
    apc = "walk" =>
      \A i \in 0 .. Least(la_n, wcap) - 1 :
        LET en == ring[At(la_head, i)] IN
        /\ en.fr = pop_seq + i + 1
        /\ en.typed \/ (en.fr = pushed /\ flushing)

\* Legs that were taken as final are final: as long as the frame is in the ring,
\* the chain does not change what a memo was computed from, or what a buffered B
\* carried away.  (A flushed tail may link to B's already popped.)
SeedFinal ==
    /\ \A s \in Slots :
         memo[s].valid /\ memo[s].data[1] = ring[s].fr /\ memo[s].seed # << >>
           => memo[s].seed = <<Legs(ring[s])>>
    /\ ~flushing => \A k \in DOMAIN bbuf :
         LET en == ring[(bbuf[k].fr - 1) % Cap] IN en.fr = bbuf[k].fr => bbuf[k].seed = en.bleg

\* Computing ahead changes no result: when an anchor's walk is over, every memo
\* it used is the one an encoder without the mb-tree thread would have used
\* ("this can cost speed, never bits", above mbt_warm_window).
WarmChangesNothing ==
    apc = "launch" =>
      /\ \A i \in 0 .. Reach(la_head, 0, Least(la_n, wcap)) - 1 :
           memo[At(la_head, i)] = plain[At(la_head, i)]
      /\ \A k \in DOMAIN bbuf : bbuf[k].memo = bbuf[k].plain

\* Every call returns, a close with both threads gone.
CallsReturn == (apc # "ready") ~> (apc = "ready" \/ (apc = "closed" /\ wpc = "gone" /\ cpc = "gone"))
===============================================================================
