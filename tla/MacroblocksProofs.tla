------------------------- MODULE MacroblocksProofs -------------------------
(***************************************************************************)
(* The estimators of the analysis wavefront agree with the serial order,   *)
(* in every picture at least two macroblocks wide and for every decision   *)
(* of the search.  The one-macroblock-wide case is excluded because it is  *)
(* wrong there: MCMacroblocks with Cols = 1 finds EstAsSerial violated.    *)
(***************************************************************************)
EXTENDS Macroblocks, TLAPS

Sizes == cur \in [RowSet -> 0..Cols] /\ DOMAIN rec = MBs /\ DOMAIN lane = RowSet /\ DOMAIN wpp = RowSet
\* A row is behind the row above by two macroblocks, or by none at its end.
Behind == \A r \in RowSet : r > 0 /\ cur[r] > 0 =>
            cur[r - 1] >= IF cur[r] + 1 < Cols THEN cur[r] + 1 ELSE Cols
LaneAdapted == \A r \in RowSet : cur[r] > 0 => lane[r] = EstOf(cur[r], r)
WppHanded == \A r \in RowSet : cur[r] >= 2 => wpp[r] = EstOf(2, r)
Seeded == \A mb \in MBs : rec[mb] # Absent => rec[mb].est = EstOf(mb[1], mb[2])
EstInv == Sizes /\ Behind /\ LaneAdapted /\ WppHanded /\ Seeded

\* One more macroblock of the row.
LEMMA EstAppend ==
  ASSUME NEW c \in Nat, NEW r \in Nat
  PROVE  Append(EstOf(c, r), <<c, r>>) = EstOf(c + 1, r)
<1> DEFINE e == EstOf(c, r)  n == 2 * r + c
<1>1. n \in Nat /\ 2 * r + (c + 1) = n + 1
  OBVIOUS
<1>2. e \in Seq(Int \X Int) /\ Len(e) = n
  <2>1. \A i \in 1..n : e[i] \in Int \X Int
    BY <1>1 DEF EstOf
  <2>2. e = [i \in 1..n |-> e[i]]
    BY DEF EstOf
  <2>3. e \in [1..n -> Int \X Int]
    BY <2>1, <2>2
  <2> QED
    BY <1>1, <2>3
<1>3. Append(e, <<c, r>>) = [i \in 1..(n + 1) |-> IF i = n + 1 THEN <<c, r>> ELSE e[i]]
  BY <1>1, <1>2
<1>4. \A i \in 1..(n + 1) : (IF i = n + 1 THEN <<c, r>> ELSE e[i]) = EstOf(c + 1, r)[i]
  <2> SUFFICES ASSUME NEW i \in 1..(n + 1)
               PROVE  (IF i = n + 1 THEN <<c, r>> ELSE e[i]) = EstOf(c + 1, r)[i]
    OBVIOUS
  <2>1. EstOf(c + 1, r)[i] = IF i <= 2 * r THEN <<(i - 1) % 2, (i - 1) \div 2>> ELSE <<i - 1 - 2 * r, r>>
    BY <1>1 DEF EstOf
  <2>2. CASE i = n + 1
    <3>1. ~(i <= 2 * r) /\ i - 1 - 2 * r = c
      BY <2>2
    <3> QED
      BY <2>1, <2>2, <3>1
  <2>3. CASE i # n + 1
    <3>1. i \in 1..n
      BY <2>3, <1>1
    <3> QED
      BY <2>1, <2>3, <3>1 DEF EstOf
  <2> QED
    BY <2>2, <2>3
<1>5. EstOf(c + 1, r) = [i \in 1..(n + 1) |-> EstOf(c + 1, r)[i]]
  BY <1>1 DEF EstOf
<1> QED
  BY <1>3, <1>4, <1>5

\* The estimator handed down is that of the start of the row below.
LEMMA EstHandDown ==
  ASSUME NEW r \in Nat
  PROVE  EstOf(2, r) = EstOf(0, r + 1)
<1>1. 2 * r + 2 = 2 * (r + 1) + 0
  OBVIOUS
<1>2. \A i \in 1..(2 * r + 2) : EstOf(2, r)[i] = EstOf(0, r + 1)[i]
  <2> SUFFICES ASSUME NEW i \in 1..(2 * r + 2) PROVE EstOf(2, r)[i] = EstOf(0, r + 1)[i]
    OBVIOUS
  <2>1. EstOf(0, r + 1)[i] = <<(i - 1) % 2, (i - 1) \div 2>>
    BY <1>1 DEF EstOf
  <2>2. CASE i <= 2 * r
    BY <2>1, <2>2 DEF EstOf
  <2>3. CASE ~(i <= 2 * r)
    <3>1. EstOf(2, r)[i] = <<i - 1 - 2 * r, r>>
      BY <2>3 DEF EstOf
    <3>2. (i - 1) % 2 = i - 1 - 2 * r /\ (i - 1) \div 2 = r
      BY <2>3
    <3> QED
      BY <2>1, <3>1, <3>2
  <2> QED
    BY <2>2, <2>3
<1> QED
  BY <1>1, <1>2 DEF EstOf

LEMMA EstStart == EstOf(0, 0) = << >>
  BY DEF EstOf

LEMMA EstInvInit == Init => EstInv
<1> SUFFICES ASSUME Init PROVE EstInv
  OBVIOUS
<1>1. Sizes
  BY SizeAssumption DEF Init, Sizes, RowSet
<1>2. \A r \in RowSet : cur[r] = 0
  BY DEF Init
<1>3. \A mb \in MBs : rec[mb] = Absent
  BY DEF Init
<1> QED
  BY <1>1, <1>2, <1>3 DEF EstInv, Behind, LaneAdapted, WppHanded, Seeded

\* A step of the wavefront: the estimator of the macroblock is the serial one.
LEMMA CellSeed ==
  ASSUME Cols > 1, EstInv, NEW r \in RowSet, cur[r] < Cols, Ready(r)
  PROVE  EstSeed(r) = EstOf(cur[r], r)
<1>1. r \in Nat /\ cur[r] \in 0..Cols /\ Cols \in Nat
  BY SizeAssumption DEF RowSet, EstInv, Sizes
<1>2. CASE cur[r] > 0
  BY <1>1, <1>2 DEF EstSeed, EstInv, LaneAdapted
<1>3. CASE cur[r] = 0 /\ r = 0
  BY <1>3, EstStart DEF EstSeed, Seed
<1>4. CASE cur[r] = 0 /\ r > 0
  <2>1. r - 1 \in RowSet /\ r - 1 \in Nat
    BY <1>1, <1>4, SizeAssumption DEF RowSet
  <2>2. cur[r - 1] >= 2
    BY <1>1, <1>4, <2>1 DEF Ready, EstInv, Sizes
  <2>3. wpp[r - 1] = EstOf(2, r - 1)
    BY <2>1, <2>2 DEF EstInv, WppHanded
  <2>4. EstOf(2, r - 1) = EstOf(0, r)
    <3>1. EstOf(2, r - 1) = EstOf(0, (r - 1) + 1)
      BY <2>1, EstHandDown
    <3> QED
      BY <3>1, <1>1
  <2> QED
    BY <1>1, <1>4, <2>3, <2>4 DEF EstSeed, Seed
<1> QED
  BY <1>1, <1>2, <1>3, <1>4

LEMMA CellKeeps ==
  ASSUME Cols > 1, EstInv, NEW r \in RowSet, Cell(r)
  PROVE  EstInv'
<1> DEFINE mb == <<cur[r], r>>  d == analyze_mb(mb, film.dec[mb])
<1>1. /\ r \in Nat /\ Rows \in Nat /\ Cols \in Nat /\ cur[r] \in Nat /\ cur[r] < Cols
      /\ cur \in [RowSet -> 0..Cols] /\ mb \in MBs
  BY SizeAssumption DEF RowSet, EstInv, Sizes, Cell, MBs
<1>2. /\ Ready(r)
      /\ cur' = [cur EXCEPT ![r] = @ + 1]
      /\ rec' = [rec EXCEPT ![mb] = PricedWith(EstSeed(r), d)]
      /\ lane' = [lane EXCEPT ![r] = Append(EstSeed(r), mb)]
      /\ wpp' = IF cur[r] = 1 THEN [wpp EXCEPT ![r] = Append(EstSeed(r), mb)] ELSE wpp
  BY DEF Cell, Decided
<1>3. EstSeed(r) = EstOf(cur[r], r)
  BY <1>1, <1>2, CellSeed
<1>4. Append(EstSeed(r), mb) = EstOf(cur[r] + 1, r)
  BY <1>1, <1>3, EstAppend
<1>5. Sizes'
  BY <1>1, <1>2 DEF EstInv, Sizes
<1>6. Behind'
  <2> SUFFICES ASSUME NEW q \in RowSet, q > 0, cur'[q] > 0
               PROVE  cur'[q - 1] >= IF cur'[q] + 1 < Cols THEN cur'[q] + 1 ELSE Cols
    BY DEF Behind
  <2>1. q - 1 \in RowSet /\ q \in Int
    BY SizeAssumption DEF RowSet
  <2>2. CASE q = r
    BY <1>1, <1>2, <2>1, <2>2 DEF Ready
  <2>3. CASE q # r
    <3>1. cur'[q] = cur[q] /\ cur'[q - 1] >= cur[q - 1] /\ cur[q] \in Int /\ cur[q - 1] \in Int /\ cur'[q - 1] \in Int
      BY <1>1, <1>2, <2>1, <2>3
    <3> QED
      BY <1>1, <3>1 DEF EstInv, Behind
  <2> QED
    BY <2>2, <2>3
<1>7. LaneAdapted'
  <2> SUFFICES ASSUME NEW q \in RowSet, cur'[q] > 0 PROVE lane'[q] = EstOf(cur'[q], q)
    BY DEF LaneAdapted, EstOf
  <2>1. CASE q = r
    BY <1>1, <1>2, <1>4, <2>1 DEF EstInv, Sizes
  <2>2. CASE q # r
    BY <1>1, <1>2, <2>2 DEF EstInv, Sizes, LaneAdapted
  <2> QED
    BY <2>1, <2>2
<1>8. WppHanded'
  <2> SUFFICES ASSUME NEW q \in RowSet, cur'[q] >= 2 PROVE wpp'[q] = EstOf(2, q)
    BY DEF WppHanded, EstOf
  <2>1. CASE q = r /\ cur[r] = 1
    BY <1>1, <1>2, <1>4, <2>1 DEF EstInv, Sizes
  <2>2. CASE q = r /\ cur[r] # 1
    BY <1>1, <1>2, <2>2 DEF EstInv, WppHanded
  <2>3. CASE q # r
    BY <1>1, <1>2, <2>3 DEF EstInv, WppHanded, Sizes
  <2> QED
    BY <2>1, <2>2, <2>3
<1>9. Seeded'
  <2> SUFFICES ASSUME NEW m \in MBs, rec'[m] # Absent PROVE rec'[m].est = EstOf(m[1], m[2])
    BY DEF Seeded, EstOf, Absent
  <2>1. CASE m = mb
    <3>1. rec'[m] = PricedWith(EstSeed(r), d)
      BY <1>1, <1>2, <2>1 DEF EstInv, Sizes
    <3>2. PricedWith(EstSeed(r), d)["est"] = EstSeed(r)
      BY DEF PricedWith
    <3> QED
      BY <1>3, <2>1, <3>1, <3>2
  <2>2. CASE m # mb
    BY <1>1, <1>2, <2>2 DEF EstInv, Sizes, Seeded
  <2> QED
    BY <2>1, <2>2
<1> QED
  BY <1>5, <1>6, <1>7, <1>8, <1>9 DEF EstInv

LEMMA EstInvStep ==
  ASSUME Cols > 1, EstInv, [Next]_vars
  PROVE  EstInv'
<1>1. CASE \E r \in RowSet : Cell(r)
  BY <1>1, CellKeeps
<1>2. ASSUME UNCHANGED <<cur, rec, lane, wpp>> PROVE EstInv'
  BY <1>2 DEF EstInv, Sizes, Behind, LaneAdapted, WppHanded, Seeded, EstOf, Absent
<1>3. CASE \E r \in RowSet : y264_deblock_rows(r)
  BY <1>2, <1>3 DEF y264_deblock_rows
<1>4. CASE Resolve
  BY <1>2, <1>4 DEF Resolve
<1>5. CASE y264_frame_emit
  BY <1>2, <1>5 DEF y264_frame_emit
<1>6. CASE UNCHANGED vars
  BY <1>2, <1>6 DEF vars
<1> QED
  BY <1>1, <1>3, <1>4, <1>5, <1>6 DEF Next

\* Every macroblock is priced with the estimator the serial order of wavefront
\* parallel processing gives it: pcb_wf_cell, bcb_wf_cell and icb_wf_cell are
\* exact to est_ctx_mode 2, whatever the pace of the rows.
THEOREM EstimatorsAsSerial == Cols > 1 => (Spec => []EstAsSerial)
<1> SUFFICES ASSUME Cols > 1 PROVE Spec => []EstAsSerial
  OBVIOUS
<1>1. Init => EstInv
  BY EstInvInit
<1>2. EstInv /\ [Next]_vars => EstInv'
  BY EstInvStep
<1>3. EstInv => EstAsSerial
  BY DEF EstInv, Seeded, EstAsSerial
<1> QED
  BY <1>1, <1>2, <1>3, PTL DEF Spec

\* The pace that needs: a row has decided a macroblock only when the row above
\* is one ahead of it, or done.
THEOREM RowsBehind == Cols > 1 => (Spec => []Behind)
<1> SUFFICES ASSUME Cols > 1 PROVE Spec => []Behind
  OBVIOUS
<1>1. EstInv => Behind
  BY DEF EstInv
<1> QED
  BY EstInvInit, EstInvStep, <1>1, PTL DEF Spec
=============================================================================
