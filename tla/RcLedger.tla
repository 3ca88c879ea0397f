------------------------------- MODULE RcLedger -------------------------------
(***************************************************************************)
(* The rate control's ledger of src/src/encoder/encoder.c (Y264_RC_PIPE),  *)
(* as pure operators.  Every QP decision pushes an entry; the coded bits   *)
(* fill the oldest unfilled one; entries are accounted, oldest first, on a *)
(* schedule that is a function of the coding order alone.                  *)
(*                                                                         *)
(* A ledger is [q, done, seq, anchor, hist, lag]: the pending entries, the *)
(* ones accounted or dropped so far, rcp_seq, rcp_anchor_seq,              *)
(* rcp_anchor_hist and rcp_lag.  The bits model, the buffer law and the    *)
(* QP arithmetic are left out: a QP is the frame it was decided for and    *)
(* how often it has been raised since, bits are the frame they belong to   *)
(* and the QP it was coded at.                                             *)
(***************************************************************************)
EXTENDS Integers, Sequences

CONSTANTS
    RCP_WARM,       \* decisions before feedback may lag (12)
    RCP_MAX,        \* ring size (Y264_STAIR_K * 8 + 8)
    StairK          \* length of rcp_anchor_hist (Y264_STAIR_K)

Bits(pic, qp) == [pic |-> pic, qp |-> qp]
NoBits == Bits(0, [of |-> 0, up |-> 0])

NewLedger(lag) == [q |-> << >>, done |-> << >>, seq |-> 0, anchor |-> 0,
                   hist |-> [i \in 1 .. StairK |-> 0], lag |-> lag]

rcp_warm(l) == l.seq < RCP_WARM

\* Retire the longest prefix of the pending entries that all satisfy May.
Popped(l, May(_)) ==
    LET n == CHOOSE k \in 0 .. Len(l.q) :
                /\ \A i \in 1 .. k : May(l.q[i])
                /\ k < Len(l.q) => ~May(l.q[k + 1])
    IN [l EXCEPT !.q = SubSeq(@, n + 1, Len(@)), !.done = @ \o SubSeq(l.q, 1, n)]

rcp_flush_all(l) == Popped(l, LAMBDA en : en.filled)

rcp_pop_bound_Newest(l) == l.anchor             \* mutant: the newest anchor, whatever the lag
rcp_pop_bound(l) ==
    IF l.lag = 0 THEN l.anchor ELSE l.hist[IF l.lag < StairK THEN l.lag ELSE StairK]

rcp_pop_ready(l) ==
    Popped(l, LAMBDA en : /\ en.filled
                          /\ en.seq < rcp_pop_bound(l) \/ en.seq <= RCP_WARM \/ en.tight)

\* The oldest unfilled entry becomes f of itself.
Filled(l, f(_)) ==
    LET open == {i \in DOMAIN l.q : ~l.q[i].filled}
        k == CHOOSE i \in open : \A j \in open : i <= j
    IN rcp_pop_ready(IF open = {} THEN l ELSE [l EXCEPT !.q[k] = f(@)])

rcp_fill(l, bits) == Filled(l, LAMBDA en : [en EXCEPT !.filled = TRUE, !.bits = bits])

rcp_drop_Forgotten(l) == l                      \* mutant: a lost frame leaves its entry open
rcp_drop(l) == Filled(l, LAMBDA en : [en EXCEPT !.filled = TRUE, !.dropped = TRUE])

\* The newest entry, not yet filled, takes the QP the frame is coded again at.
rcp_reqp(l, qp) ==
    IF l.q = << >> \/ l.q[Len(l.q)].filled THEN l
    ELSE [l EXCEPT !.q[Len(l.q)].qp = qp]

\* An anchor's decision retires everything filled when there is no lag budget.
Settled(l, anchor) == IF anchor /\ l.lag = 0 THEN rcp_flush_all(l) ELSE l

rcp_decide(l, anchor, pic, tight) ==
    LET s == Settled(l, anchor)
        en == [seq |-> s.seq + 1, pic |-> pic, qp |-> [of |-> pic, up |-> 0], tight |-> tight,
               filled |-> FALSE, dropped |-> FALSE, bits |-> NoBits]
        a == IF anchor
             THEN [s EXCEPT !.hist = [i \in 1 .. StairK |-> IF i = 1 THEN s.anchor ELSE s.hist[i - 1]],
                            !.anchor = s.seq + 1]
             ELSE s
    IN rcp_pop_ready([a EXCEPT !.seq = @ + 1,
                               !.q = IF Len(@) < RCP_MAX THEN Append(@, en) ELSE @])
=============================================================================
