------------------------------- MODULE RefLists -------------------------------
(***************************************************************************)
(* The reference pictures of src/src/encoder/encoder.c, as pure operators: *)
(* FrameNum, the sliding window of the decoded picture buffer (B pyramid)  *)
(* or of the reference ring (flat coding), the lists each slice is coded   *)
(* with and the list command it carries; and, beside it, what a decoder    *)
(* does with those headers (H.264 8.2.4 and 8.2.5), which is no code of    *)
(* this repository but what the encoder's comments say it mirrors.         *)
(*                                                                         *)
(* A picture is its display index; POC restarts at an IDR, and so do the   *)
(* references, so inside one buffer the two order pictures alike.  The     *)
(* buffer is the SET of its used slots: which slot a picture sits in is    *)
(* module Staircase's subject.  A parameter record c gives                 *)
(*   c.pyr     b_pyramid (two B's or more may be buffered)                 *)
(*   c.nref    e->nref                                                     *)
(*   c.window  sps.max_num_ref_frames                                      *)
(*   c.maxfn   MaxFrameNum, larger than the window                         *)
(***************************************************************************)
EXTENDS Integers, Sequences, FiniteSets, SequencesExt

Kinds == {"idr", "p", "tailp", "refb", "b"}
IsRef(kind) == kind \in {"idr", "p", "refb"}

NoPin == -1
UpTo(n, s) == SubSeq(s, 1, IF n < Len(s) THEN n ELSE Len(s))
Pics(s) == [i \in DOMAIN s |-> s[i].pic]

\* refs: the used DPB slots; next, last: next_frame_num, last_ref_fn; prev: the
\* previous anchor (prev_anchor_poc).  ring, ref1, aseq, afn: refring (its valid
\* part), the future anchor, anchor_seq, anchor_fn.
NoRefs == [refs |-> {}, next |-> 0, last |-> 0, prev |-> 0,
           ring |-> << >>, ref1 |-> 0, aseq |-> 0, afn |-> 0]

-----------------------------------------------------------------------------
(* The encoder: the sliding window *)

FnWrap_Raw(c, fn, next) == fn                   \* mutant: evict by the raw FrameNum
FnWrap(c, fn, next) == IF fn > next THEN fn - c.maxfn ELSE fn

Victim(c, d) == CHOOSE r \in d.refs : \A s \in d.refs :
                   FnWrap(c, r.fn, d.next) <= FnWrap(c, s.fn, d.next)

Kept(c, d) == IF Cardinality(d.refs) >= c.window THEN d.refs \ {Victim(c, d)} ELSE d.refs

dpb_store(c, d, pic) ==
    [d EXCEPT !.refs = Kept(c, d) \cup {[fn |-> d.next, pic |-> pic]},
              !.last = d.next, !.next = (d.next + 1) % c.maxfn]

refring_push(c, d) == [d EXCEPT !.ring = UpTo(c.nref, <<d.ref1>> \o d.ring)]

\* What a frame's coding does to the references: before its header is written,
\* and once it is coded.
Begun(c, d, kind) ==
    IF c.pyr THEN IF kind = "idr" THEN [d EXCEPT !.refs = {}, !.next = 0] ELSE d
    ELSE CASE kind = "idr" -> [d EXCEPT !.ring = << >>, !.afn = 0, !.aseq = 1]
           [] kind = "p" -> [d EXCEPT !.afn = d.aseq % c.maxfn, !.aseq = d.aseq + 1]
           [] OTHER -> d

Coded(c, d, kind, pic) ==
    LET a == IF kind \in {"idr", "p"} THEN [d EXCEPT !.prev = pic, !.ref1 = pic] ELSE d
    IN IF c.pyr /\ IsRef(kind) THEN dpb_store(c, a, pic) ELSE a

-----------------------------------------------------------------------------
(* The encoder: lists and header *)

Past(refs, pic) == SetToSortSeq({r \in refs : r.pic < pic}, LAMBDA r, s : r.pic > s.pic)
Future(refs, pic) == SetToSortSeq({r \in refs : r.pic > pic}, LAMBDA r, s : r.pic < s.pic)

ByDistance(c, refs, fn) ==
    SetToSortSeq(refs, LAMBDA r, s : (fn - r.fn) % c.maxfn < (fn - s.fn) % c.maxfn)

\* The first of the wanted ones, or any reference if there is none.
OneOf(wanted, refs) == IF wanted # << >> THEN Head(wanted) ELSE CHOOSE r \in refs : TRUE

MovedFirst(s, IsIt(_)) == SelectSeq(s, IsIt) \o SelectSeq(s, LAMBDA r : ~IsIt(r))

frame_num(c, d, kind) ==
    IF ~c.pyr THEN d.afn ELSE IF IsRef(kind) THEN d.next ELSE d.last

\* cur_ref_l0_fn: an anchor is coded from the previous anchor, a B left over at
\* the end from the nearest past reference.
cur_ref_l0_fn(c, d, kind, pic) ==
    CASE c.pyr /\ kind = "p" ->
            OneOf(SelectSeq(SetToSeq(d.refs), LAMBDA r : r.pic = d.prev), d.refs).fn
      [] c.pyr /\ kind = "tailp" -> OneOf(Past(d.refs, pic), d.refs).fn
      [] OTHER -> NoPin

build_list0(c, d, kind, pic, fn, pin) ==
    CASE kind = "idr" -> << >>
      [] ~c.pyr -> d.ring
      [] c.pyr /\ kind \in {"p", "tailp"} ->
            Pics(UpTo(c.nref, MovedFirst(ByDistance(c, d.refs, fn), LAMBDA r : r.fn = pin)))
      [] OTHER -> Pics(UpTo(c.nref, Past(d.refs, pic)))

list1(c, d, kind, pic) ==
    IF kind \notin {"b", "refb"} THEN << >>
    ELSE IF c.pyr THEN <<OneOf(Future(d.refs, pic), d.refs).pic>> ELSE <<d.ref1>>

\* The slice header; "diff" is the abs_diff_pic_num of the list command, 0 for none.
Header(c, d, kind, pic) ==
    LET fn == frame_num(c, d, kind)
        pin == cur_ref_l0_fn(c, d, kind, pic)
    IN [kind |-> kind, pic |-> pic, fn |-> fn,
        diff |-> IF pin = NoPin THEN 0 ELSE (fn - pin) % c.maxfn,
        l0 |-> build_list0(c, d, kind, pic, fn, pin),
        l1 |-> list1(c, d, kind, pic)]

-----------------------------------------------------------------------------
(* The decoder *)

NoPictures == [refs |-> {}, prev |-> 0]

PicNum(c, r, fn) == IF r.fn > fn THEN r.fn - c.maxfn ELSE r.fn

DefaultList0(c, refs, h) ==
    IF h.kind \in {"p", "tailp"}
    THEN SetToSortSeq(refs, LAMBDA r, s : PicNum(c, r, h.fn) > PicNum(c, s, h.fn))
    ELSE Past(refs, h.pic) \o Future(refs, h.pic)

DefaultList1(refs, h) ==
    LET l1 == Future(refs, h.pic) \o Past(refs, h.pic)
        l0 == Past(refs, h.pic) \o Future(refs, h.pic)
    IN IF Len(l1) > 1 /\ l1 = l0 THEN <<l1[2], l1[1]>> \o SubSeq(l1, 3, Len(l1)) ELSE l1

DecodedList0(c, refs, h) ==
    LET n == Len(h.l0)                          \* num_ref_idx_l0_active
        initial == UpTo(n, DefaultList0(c, refs, h))
        named(r) == PicNum(c, r, h.fn) = h.fn - h.diff
    IN IF h.diff = 0 THEN initial
       ELSE UpTo(n, SelectSeq(SetToSeq(refs), named) \o
                    SelectSeq(initial, LAMBDA r : ~named(r)))

\* Reads the header as the encoder meant it: no gap in FrameNum, same lists.
ReadsAsCoded(c, d, h) ==
    \/ h.kind = "idr"
    \/ /\ h.fn \in {d.prev, (d.prev + 1) % c.maxfn}
       /\ Pics(DecodedList0(c, d.refs, h)) = h.l0
       /\ h.l1 # << >> => Pics(UpTo(1, DefaultList1(d.refs, h))) = h.l1

Marked(c, d, h) ==
    LET oldest == CHOOSE r \in d.refs : \A s \in d.refs :
                     PicNum(c, r, h.fn) <= PicNum(c, s, h.fn)
        new == [fn |-> h.fn, pic |-> h.pic]
    IN CASE h.kind = "idr" -> [refs |-> {new}, prev |-> 0]
         [] h.kind \in {"p", "refb"} ->
               [refs |-> (IF Cardinality(d.refs) = c.window THEN d.refs \ {oldest} ELSE d.refs)
                            \cup {new},
                prev |-> h.fn]
         [] OTHER -> d
=============================================================================
