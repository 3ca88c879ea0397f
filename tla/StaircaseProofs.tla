--------------------------- MODULE StaircaseProofs ---------------------------
(***************************************************************************)
(* For every ring, encoder and script: each picture buffer of the staircase *)
(* has one owner at any time, whatever the stores, swaps, parked bags and   *)
(* sweeps do; the decoded picture buffer always has a slot to give, and     *)
(* what it holds is, at any time, what a serial coder would have stored,    *)
(* in coding order; and no row is analysed against rows that are not final. *)
(***************************************************************************)
EXTENDS Staircase, FiniteSetTheorems, WellFoundedInduction, TLAPS

LEMMA MrfNat == ASSUME cfg \in Shapes PROVE Mrf \in Nat /\ Mrf > 0
  <1>1. /\ cfg.nref \in Nat \ {0} /\ cfg.bframes \in {2, 3} /\ MaxRef \in Nat /\ MaxRef >= 4
    BY StairAssumption, Zenon DEF StairAssumption
  <1> QED BY <1>1 DEF Mrf, Least

-----------------------------------------------------------------------------
(* The window.                                                              *)

\* A slot of the decoded picture buffer, with the fields an action writes.
IsSlot(r) == /\ r = [used |-> r.used, pic |-> r.pic, fn |-> r.fn, pl |-> r.pl, x |-> r.x]
             /\ r.used \in BOOLEAN /\ r.fn \in Nat
IsDpb(d) == d = [s \in Slots |-> d[s]] /\ \A s \in Slots : IsSlot(d[s])

\* A non-empty set of naturals has a least element.
LEMMA LeastOf == ASSUME NEW S, NEW f, \A s \in S : f[s] \in Nat, S # {}
                 PROVE  \E s \in S : \A t \in S : f[s] <= f[t]
  <1> DEFINE V == {f[s] : s \in S}
  <1>1. V \subseteq Nat /\ V # {}
    OBVIOUS
  <1>2. PICK v \in V : \A w \in V : ~ (<<w, v>> \in OpToRel(<, Nat))
    BY <1>1, WFMin, NatLessThanWellFounded, Zenon
  <1>3. ASSUME NEW w \in V PROVE v <= w
    <2>1. ~ (w < v)
      <3>1. w \in Nat /\ v \in Nat
        BY <1>1
      <3>2. w < v => <<w, v>> \in OpToRel(<, Nat)
        <4> HIDE DEF V
        <4> QED BY <3>1, Zenon DEF OpToRel
      <3> QED BY <1>2, <3>2, Zenon
    <2> QED BY <1>1, <2>1
  <1> QED BY <1>3

\* Evict clears at most the used mark of one slot, and leaves one clear.
LEMMA EvictSlots ==
  ASSUME cfg \in Shapes, NEW d, IsDpb(d)
  PROVE  /\ IsDpb(Evict(d))
         /\ \A s \in Slots : /\ Evict(d)[s].pl = d[s].pl
                             /\ Evict(d)[s].x = d[s].x
         /\ \E s \in Slots : ~Evict(d)[s].used
  <1> DEFINE u == {s \in Slots : d[s].used}
             v == CHOOSE s \in u : \A t \in u : d[s].fn <= d[t].fn
  <1>1. IsFiniteSet(Slots) /\ Cardinality(Slots) = Mrf + 1
    BY MrfNat, FS_Interval DEF Slots
  <1>2. IsFiniteSet(u) /\ Cardinality(u) \in Nat
    BY <1>1, FS_Subset, FS_CardinalityType
  <1>3. CASE Cardinality(u) >= Mrf
    <2>1. u # {}
      BY <1>3, MrfNat, FS_EmptySet
    <2>2. \E s \in u : \A t \in u : d[s].fn <= d[t].fn
      <3> DEFINE f == [s \in u |-> d[s].fn]
      <3>1. \A s \in u : f[s] \in Nat
        BY DEF IsDpb, IsSlot
      <3>2. \E s \in u : \A t \in u : f[s] <= f[t]
        <4> HIDE DEF f, u
        <4> QED BY <3>1, <2>1, LeastOf
      <3> QED BY <3>2
    <2>3. v \in u
      BY <2>2
    <2>4. Evict(d) = [d EXCEPT ![v].used = FALSE]
      BY <1>3 DEF Evict
    <2> HIDE DEF v
    <2>5. \A s \in Slots : Evict(d)[s] = IF s = v THEN [d[s] EXCEPT !.used = FALSE] ELSE d[s]
      BY <2>3, <2>4 DEF IsDpb
    <2>6. IsDpb(Evict(d))
      BY <2>3, <2>4, <2>5 DEF IsDpb, IsSlot
    <2> QED BY <2>3, <2>5, <2>6 DEF IsDpb, IsSlot
  <1>4. CASE ~(Cardinality(u) >= Mrf)
    <2>1. Evict(d) = d
      BY <1>4 DEF Evict
    <2>2. u # Slots
      <3>1. ~ (Mrf + 1 >= Mrf) => FALSE
        BY MrfNat
      <3> HIDE DEF u
      <3> QED BY <1>1, <1>4, <3>1
    <2> QED BY <2>1, <2>2 DEF IsDpb, IsSlot
  <1> QED BY <1>3, <1>4

\* There is always a slot to take.
LEMMA TakesSlot ==
  ASSUME cfg \in Shapes, NEW d, IsDpb(d)
  PROVE  FirstUnused(Evict(d)) \in Slots
  <1> DEFINE g == Evict(d)
             U == {s \in Slots : ~g[s].used}
  <1>1. U # {} /\ U \subseteq Nat
    BY EvictSlots, MrfNat DEF Slots
  <1>2. PICK s \in U : \A t \in U : s <= t
    <2> DEFINE f == [s \in U |-> s]
    <2>1. \A s \in U : f[s] \in Nat
      BY <1>1
    <2>2. \E s \in U : \A t \in U : f[s] <= f[t]
      <3> HIDE DEF f, U
      <3> QED BY <1>1, <2>1, LeastOf
    <2> QED BY <2>2
  <1>3. \A t \in Slots : t < s => g[t].used
    BY <1>1, <1>2, MrfNat DEF Slots
  <1>4. \E r \in Slots : ~g[r].used /\ \A t \in Slots : t < r => g[t].used
    BY <1>2, <1>3
  <1> HIDE DEF g
  <1>5. FirstUnused(g) \in Slots
    BY <1>4 DEF FirstUnused
  <1> QED BY <1>5 DEF g

-----------------------------------------------------------------------------
(* Ownership.                                                               *)

Typing ==
    /\ cfg \in Shapes /\ nfn \in Nat
    /\ IsDpb(dpb)
    /\ leafrec = [k \in Ring |-> [i \in {0, 1} |-> leafrec[k][i]]]
    /\ \A g \in free : g = [pl |-> g.pl, x |-> g.x]

\* Typing and ownership, what a step has to preserve.
IInv == Typing /\ BuffersDisjoint

Pair(g) == [pl |-> g.pl, x |-> g.x]
Old == [pl |-> dpb[Target].pl, x |-> dpb[Target].x]

\* The bag a store takes is one of the pool's.
LEMMA BagOfPool ==
  ASSUME Typing, Pooled PROVE Bag \in Sweep /\ Bag \in Bags /\ Bag = Pair(Bag)
  <1>1. Bag \in Sweep
    BY DEF Pooled, Sweep, Bag
  <1>2. \A g \in Sweep : g = Pair(g) /\ g \in Bags
    BY DEF Sweep, Freed, Swept, Typing, Pair, Bags
  <1> QED BY <1>1, <1>2

\* What a store does to the slots.
LEMMA CommitSlots ==
  ASSUME Typing, NEW pl, NEW p, Commit(pl, p), cfg' = cfg
  PROVE  /\ Slots' = Slots /\ Target \in Slots /\ nfn' \in Nat /\ IsDpb(dpb)'
         /\ \A s \in Slots : /\ dpb'[s].pl = IF s = Target THEN pl ELSE dpb[s].pl
                             /\ dpb'[s].x = IF s = Target THEN NewX ELSE dpb[s].x
  <1>1. Target \in Slots
    BY TakesSlot DEF Typing, Target
  <1>2. Slots' = Slots
    BY DEF Slots, Mrf
  <1> DEFINE d == Evict(dpb)
             r == [used |-> TRUE, pic |-> p, fn |-> nfn, pl |-> pl, x |-> NewX]
  <1>3. /\ IsDpb(d)
        /\ \A s \in Slots : d[s].pl = dpb[s].pl /\ d[s].x = dpb[s].x
    BY EvictSlots DEF Typing
  <1>4. dpb' = [d EXCEPT ![Target] = r] /\ nfn' = nfn + 1
    BY DEF Commit
  <1> HIDE DEF d
  <1>5. IsSlot(r) /\ r.pl = pl /\ r.x = NewX
    BY DEF IsSlot, Typing
  <1> HIDE DEF r
  <1>6. /\ dpb' = [s \in Slots |-> IF s = Target THEN r ELSE d[s]]
    BY <1>1, <1>3, <1>4 DEF IsDpb
  <1>7. IsDpb(dpb)'
    BY <1>2, <1>3, <1>5, <1>6 DEF IsDpb, IsSlot
  <1> QED BY <1>1, <1>2, <1>3, <1>4, <1>5, <1>6, <1>7 DEF Typing

\* What a store does to the pool.
LEMMA CommitBags ==
  ASSUME Typing, BuffersDisjoint, NEW pl, NEW p, Commit(pl, p), cfg' = cfg
  PROVE  /\ Bags' = IF Pooled THEN (Bags \ {Bag}) \cup {Old} ELSE Bags
         /\ \A g \in free' : g = Pair(g)
         /\ \A g, h \in parked' : g # h => g.pl # h.pl
         /\ \A g \in parked' : Pair(g) \notin free'
  <1>1. Target \in Slots
    BY CommitSlots
  <1>2. /\ \A g \in free : g = Pair(g)
        /\ \A g, h \in parked : g # h => g.pl # h.pl
        /\ \A g \in parked : Pair(g) \notin free
        /\ Bags = free \cup {Pair(g) : g \in parked}
        /\ Bags' = free' \cup {Pair(g) : g \in parked'}
    BY DEF Typing, BuffersDisjoint, Pair, Bags
  <1>3. CASE PoolWant = 0
    <2>1. free' = free /\ parked' = parked /\ ~Pooled
      BY <1>3 DEF Commit, Pooled
    <2> QED BY <1>2, <2>1
  <1>4. CASE PoolWant # 0 /\ ~Pooled
    <2>1. Sweep = {}
      <3>1. PoolWant \in Nat
        <4>1. cfg.pool \in Nat /\ K \in Nat
          BY StairAssumption, Zenon DEF StairAssumption, Typing
        <4> QED BY <4>1 DEF PoolWant, Least
      <3> QED BY <1>4, <3>1 DEF Pooled
    <2>2. free' = Sweep /\ parked' = parked \ Swept
      BY <1>4 DEF Commit
    <2>3. free = {} /\ Swept = {}
      BY <2>1 DEF Sweep, Freed
    <2> QED BY <1>2, <1>4, <2>1, <2>2, <2>3
  <1>5. CASE PoolWant # 0 /\ Pooled
    <2> DEFINE new == [pl |-> dpb[Target].pl, x |-> dpb[Target].x, n |-> seq]
    <2>1. free' = Sweep \ {Bag} /\ parked' = (parked \ Swept) \cup {new}
      BY <1>5 DEF Commit
    <2>2. Pair(new) = Old /\ new.pl = dpb[Target].pl
      BY DEF Pair, Old
    <2> HIDE DEF new
    <2>3. \A g \in Bags : g.pl # new.pl
      BY <1>1, <2>2 DEF BuffersDisjoint
    <2>4. Sweep = free \cup {Pair(g) : g \in Swept} /\ Swept \subseteq parked
      BY DEF Sweep, Freed, Swept, Pair
    <2>5. Bag \in Sweep
      BY <1>5, BagOfPool
    <2>6. \A g : Pair(g).pl = g.pl
      BY DEF Pair
    <2>7. \A g, h \in parked : Pair(g) = Pair(h) => g = h
      BY <1>2, <2>6
    <2>8. \A g \in parked : g.pl # new.pl
      BY <1>2, <2>3, <2>6
    <2>9. Old \notin Bags
      BY <2>2, <2>3, <2>6
    <2>10. Bags' = (Bags \ {Bag}) \cup {Old}
      <3>1. Bags' = (Sweep \ {Bag}) \cup {Pair(g) : g \in parked \ Swept} \cup {Old}
        BY <1>2, <2>1, <2>2
      <3>2. Bag \notin {Pair(g) : g \in parked \ Swept}
        BY <1>2, <2>4, <2>5, <2>7
      <3>3. Sweep \cup {Pair(g) : g \in parked \ Swept} = Bags
        BY <1>2, <2>4
      <3> QED BY <3>1, <3>2, <3>3
    <2>11. \A g, h \in parked' : g # h => g.pl # h.pl
      BY <1>2, <2>1, <2>8
    <2>12. \A g \in parked' : Pair(g) \notin free'
      <3>1. \A g \in parked \ Swept : Pair(g) \notin Sweep
        BY <1>2, <2>4, <2>7
      <3>2. Pair(new) \notin Sweep
        BY <1>2, <2>2, <2>4, <2>9
      <3> QED BY <2>1, <3>1, <3>2
    <2>13. \A g \in free' : g = Pair(g)
      BY <2>1, <2>4, <1>2, <2>6 DEF Pair
    <2> QED BY <1>5, <2>10, <2>11, <2>12, <2>13
  <1> QED BY <1>3, <1>4, <1>5

\* Where the buffer that comes back is from.
LEMMA BackFrom ==
  ASSUME Typing
  PROVE  \/ Pooled /\ Bag \in Bags /\ Back = Bag.pl /\ NewX = Bag.x
         \/ ~Pooled /\ Back = dpb[Target].pl /\ NewX = dpb[Target].x
  BY BagOfPool DEF Back, NewX

\* The anchor's store at a launch: stair_dpb_begin.
LEMMA AnchorStores ==
  ASSUME IInv, NEW p, Commit(rec, p), rec' = Back, UNCHANGED <<cfg, leafrec>>
  PROVE  IInv'
  <1>1. /\ Slots' = Slots /\ Target \in Slots /\ nfn' \in Nat /\ IsDpb(dpb)'
        /\ \A s \in Slots : /\ dpb'[s].pl = IF s = Target THEN rec ELSE dpb[s].pl
                            /\ dpb'[s].x = IF s = Target THEN NewX ELSE dpb[s].x
        /\ LeafPlanes' = LeafPlanes
    BY CommitSlots DEF IInv, LeafPlanes
  <1>2. /\ Bags' = IF Pooled THEN (Bags \ {Bag}) \cup {Old} ELSE Bags
        /\ \A g \in free' : g = Pair(g)
        /\ \A g, h \in parked' : g # h => g.pl # h.pl
        /\ \A g \in parked' : Pair(g) \notin free'
    BY CommitBags DEF IInv
  <1>3. /\ BuffersDisjoint /\ rec' = Back /\ leafrec' = leafrec
        /\ Old.pl = dpb[Target].pl /\ Old.x = dpb[Target].x
    BY DEF IInv, Old
  <1>4. \/ Pooled /\ Bag \in Bags /\ Back = Bag.pl /\ NewX = Bag.x
        \/ ~Pooled /\ Back = dpb[Target].pl /\ NewX = dpb[Target].x
    BY BackFrom DEF IInv
  <1>5. \A s, t \in Slots : s # t => dpb'[s].pl # dpb'[t].pl /\ dpb'[s].x # dpb'[t].x
    BY <1>1, <1>3, <1>4 DEF BuffersDisjoint
  <1>6. \A s \in Slots : dpb'[s].pl # rec' /\ dpb'[s].pl \notin LeafPlanes'
    BY <1>1, <1>3, <1>4 DEF BuffersDisjoint
  <1>7. \A s \in Slots, g \in Bags' : dpb'[s].pl # g.pl /\ dpb'[s].x # g.x
    BY <1>1, <1>2, <1>3, <1>4 DEF BuffersDisjoint
  <1>8. rec' \notin LeafPlanes' /\ \A g \in Bags' : g.pl # rec' /\ g.pl \notin LeafPlanes'
    BY <1>1, <1>2, <1>3, <1>4 DEF BuffersDisjoint
  <1>9. \A b, m \in Ring, i, j \in {0, 1} : leafrec'[b][i] = leafrec'[m][j] => b = m /\ i = j
    BY <1>1, <1>3, <1>4 DEF BuffersDisjoint
  <1>10. \A g, h \in Bags' : g # h => g.pl # h.pl /\ g.x # h.x
    BY <1>1, <1>2, <1>3, <1>4 DEF BuffersDisjoint
  <1>11. BuffersDisjoint'
    BY <1>1, <1>2, <1>5, <1>6, <1>7, <1>8, <1>9, <1>10 DEF BuffersDisjoint, Pair
  <1>12. Typing'
    BY <1>1, <1>2 DEF IInv, Typing, Pair
  <1> QED BY <1>11, <1>12 DEF IInv

\* The store of a reference B: stair_dpb_commit_begin.
LEMMA RefStores ==
  ASSUME IInv, NEW p, NEW k \in Ring, Commit(leafrec[k][0], p),
         leafrec' = [leafrec EXCEPT ![k][0] = Back], UNCHANGED <<cfg, rec>>
  PROVE  IInv'
  <1>1. /\ Slots' = Slots /\ Target \in Slots /\ nfn' \in Nat /\ IsDpb(dpb)'
        /\ \A s \in Slots : /\ dpb'[s].pl = IF s = Target THEN leafrec[k][0] ELSE dpb[s].pl
                            /\ dpb'[s].x = IF s = Target THEN NewX ELSE dpb[s].x
    BY CommitSlots DEF IInv
  <1>2. /\ Bags' = IF Pooled THEN (Bags \ {Bag}) \cup {Old} ELSE Bags
        /\ \A g \in free' : g = Pair(g)
        /\ \A g, h \in parked' : g # h => g.pl # h.pl
        /\ \A g \in parked' : Pair(g) \notin free'
    BY CommitBags DEF IInv
  <1>3. /\ BuffersDisjoint /\ rec' = rec
        /\ leafrec' = [b \in Ring |-> [i \in {0, 1} |->
                         IF b = k /\ i = 0 THEN Back ELSE leafrec[b][i]]]
        /\ Old.pl = dpb[Target].pl /\ Old.x = dpb[Target].x
    <2>1. leafrec' = [b \in Ring |-> [i \in {0, 1} |->
                        IF b = k /\ i = 0 THEN Back ELSE leafrec[b][i]]]
      <3> DEFINE lr == [b \in Ring |-> [i \in {0, 1} |-> leafrec[b][i]]]
      <3>1. leafrec = lr
        BY DEF IInv, Typing
      <3>2. leafrec' = [lr EXCEPT ![k][0] = Back]
        BY <3>1
      <3> QED BY <3>2
    <2>2. BuffersDisjoint /\ rec' = rec
          /\ Old.pl = dpb[Target].pl /\ Old.x = dpb[Target].x
      BY DEF IInv, Old
    <2> QED BY <2>1, <2>2
  <1>4. \/ Pooled /\ Bag \in Bags /\ Back = Bag.pl /\ NewX = Bag.x
        \/ ~Pooled /\ Back = dpb[Target].pl /\ NewX = dpb[Target].x
    BY BackFrom DEF IInv
  <1>5. \A s, t \in Slots : s # t => dpb'[s].pl # dpb'[t].pl /\ dpb'[s].x # dpb'[t].x
    BY <1>1, <1>3, <1>4 DEF BuffersDisjoint, LeafPlanes
  <1>6. \A s \in Slots : dpb'[s].pl # rec' /\ dpb'[s].pl \notin LeafPlanes'
    BY <1>1, <1>3, <1>4 DEF BuffersDisjoint, LeafPlanes
  <1>7. \A s \in Slots, g \in Bags' : dpb'[s].pl # g.pl /\ dpb'[s].x # g.x
    BY <1>1, <1>2, <1>3, <1>4 DEF BuffersDisjoint, LeafPlanes
  <1>8. rec' \notin LeafPlanes' /\ \A g \in Bags' : g.pl # rec' /\ g.pl \notin LeafPlanes'
    BY <1>1, <1>2, <1>3, <1>4 DEF BuffersDisjoint, LeafPlanes
  <1>9. \A b, m \in Ring, i, j \in {0, 1} : leafrec'[b][i] = leafrec'[m][j] => b = m /\ i = j
    BY <1>1, <1>3, <1>4 DEF BuffersDisjoint, LeafPlanes
  <1>10. \A g, h \in Bags' : g # h => g.pl # h.pl /\ g.x # h.x
    BY <1>1, <1>2, <1>3, <1>4 DEF BuffersDisjoint, LeafPlanes
  <1>11. BuffersDisjoint'
    BY <1>1, <1>2, <1>5, <1>6, <1>7, <1>8, <1>9, <1>10 DEF BuffersDisjoint, Pair
  <1>12. Typing'
    BY <1>1, <1>2, <1>3, ZenonT(60) DEF IInv, Typing, Pair
  <1> QED BY <1>11, <1>12 DEF IInv

\* The serial store of an anchor without B's, or of an IDR picture: dpb_store.
LEMMA SerialStores ==
  ASSUME IInv, CodeSerial PROVE IInv'
  <1> DEFINE idr == cfg.script[n] = Idr
             d == IF idr THEN [s \in Slots |-> [dpb[s] EXCEPT !.used = FALSE]] ELSE dpb
             g == Evict(d)
             t == FirstUnused(g)
             fn == IF idr THEN 0 ELSE nfn
             r == [used |-> TRUE, pic |-> <<n, "A">>, fn |-> fn, pl |-> rec, x |-> dpb[t].x]
  <1>1. /\ dpb' = [g EXCEPT ![t] = r]
        /\ rec' = dpb[t].pl /\ nfn' = fn + 1
        /\ UNCHANGED <<cfg, leafrec, free, parked>>
    BY DEF CodeSerial
  <1>2. IsDpb(d) /\ \A s \in Slots : d[s].pl = dpb[s].pl /\ d[s].x = dpb[s].x
    <2>1. IsDpb(dpb)
      BY DEF IInv, Typing
    <2>2. CASE idr
      <3>1. d = [s \in Slots |-> [dpb[s] EXCEPT !.used = FALSE]]
        BY <2>2
      <3> HIDE DEF d
      <3>2. ASSUME NEW s \in Slots
            PROVE  IsSlot(d[s]) /\ d[s].pl = dpb[s].pl /\ d[s].x = dpb[s].x
        <4> DEFINE y == dpb[s]
        <4>1. y = [used |-> y.used, pic |-> y.pic, fn |-> y.fn, pl |-> y.pl, x |-> y.x]
              /\ y.fn \in Nat
          BY <2>1 DEF IsDpb, IsSlot
        <4>2. d[s] = [y EXCEPT !.used = FALSE]
          BY <3>1
        <4> HIDE DEF y
        <4>3. d[s] = [used |-> FALSE, pic |-> y.pic, fn |-> y.fn, pl |-> y.pl, x |-> y.x]
          BY <4>1, <4>2
        <4> QED BY <4>1, <4>3 DEF IsSlot, y
      <3> QED BY <3>1, <3>2 DEF IsDpb
    <2>3. CASE ~idr
      BY <2>1, <2>3
    <2> QED BY <2>2, <2>3
  <1>3. fn \in Nat
    BY DEF IInv, Typing
  <1>4. cfg \in Shapes /\ BuffersDisjoint /\ Typing
    BY DEF IInv, Typing
  <1> HIDE DEF d, fn
  <1>5. /\ IsDpb(g) /\ t \in Slots
        /\ \A s \in Slots : g[s].pl = dpb[s].pl /\ g[s].x = dpb[s].x
    BY <1>2, <1>4, EvictSlots, TakesSlot
  <1> HIDE DEF g, t
  <1>6. IsSlot(r) /\ r.pl = rec /\ r.x = dpb[t].x
    BY <1>3 DEF IsSlot
  <1>7. dpb' = [s \in Slots |-> IF s = t THEN r ELSE g[s]]
    BY <1>1, <1>5 DEF IsDpb
  <1> HIDE DEF r
  <1>8. Slots' = Slots /\ LeafPlanes' = LeafPlanes /\ Bags' = Bags
    BY <1>1 DEF Slots, Mrf, LeafPlanes, Bags
  <1>9. \A s \in Slots : /\ dpb'[s].pl = IF s = t THEN rec ELSE dpb[s].pl
                         /\ dpb'[s].x = dpb[s].x
    BY <1>5, <1>6, <1>7
  <1>10. IsDpb(dpb)'
    BY <1>5, <1>6, <1>7, <1>8 DEF IsDpb, IsSlot
  <1>11. Typing'
    BY <1>1, <1>3, <1>4, <1>10 DEF Typing
  <1>12. BuffersDisjoint'
    BY <1>1, <1>4, <1>5, <1>8, <1>9 DEF BuffersDisjoint
  <1> QED BY <1>11, <1>12 DEF IInv

\* What ownership depends on.
owned == <<cfg, dpb, nfn, rec, leafrec, free, parked>>

\* What arming the next slot asks, and the many things it leaves alone.
LEMMA PrepFrame ==
  ASSUME Prep
  PROVE  /\ Arriving /\ ~Serial /\ apc = "ready" /\ apc' = "begin"
         /\ SerialDone /\ RingRoom /\ RefbWaited
         /\ cfg' = cfg /\ n' = n /\ cur' = cur /\ fly' = fly /\ nlive' = nlive /\ seq' = seq
         /\ dpb' = dpb /\ nfn' = nfn /\ rec' = rec /\ leafrec' = leafrec /\ free' = free
         /\ parked' = parked /\ holds' = holds /\ fin' = fin /\ out' = out
         /\ failed' = failed
  BY Zenon DEF Prep, ctx, store

LEMMA Untouched == ASSUME IInv, UNCHANGED owned PROVE IInv'
  <1>1. /\ cfg' = cfg /\ dpb' = dpb /\ nfn' = nfn /\ rec' = rec /\ leafrec' = leafrec
        /\ free' = free /\ parked' = parked
    BY DEF owned
  <1>2. Slots' = Slots /\ LeafPlanes' = LeafPlanes /\ Bags' = Bags
    BY <1>1 DEF Slots, Mrf, LeafPlanes, Bags
  <1>3. IsDpb(dpb)' <=> IsDpb(dpb)
    BY <1>1, <1>2 DEF IsDpb, IsSlot
  <1>4. Typing'
    BY <1>1, <1>3 DEF IInv, Typing
  <1>5. BuffersDisjoint'
    BY <1>1, <1>2 DEF IInv, BuffersDisjoint
  <1> QED BY <1>4, <1>5 DEF IInv

LEMMA Start == Init => IInv
  <1> SUFFICES ASSUME Init PROVE IInv
    OBVIOUS
  <1>1. Mrf \in Nat /\ K \in Nat /\ PoolWant \in Nat /\ cfg \in Shapes
    <2>1. cfg \in Shapes
      BY DEF Init
    <2>2. cfg.pool \in Nat /\ K \in Nat
      BY <2>1, StairAssumption, Zenon DEF StairAssumption
    <2>3. PoolWant \in Nat
      BY <2>2 DEF PoolWant, Least
    <2> QED BY <2>1, <2>2, <2>3, MrfNat
  <1>2. /\ dpb = [s \in Slots |-> [used |-> s = 0, pic |-> IF s = 0 THEN <<0, "A">> ELSE NoPic,
                                    fn |-> 0, pl |-> s, x |-> 100 + s]]
        /\ leafrec = [k \in Ring |-> [i \in {0, 1} |-> Mrf + 2 + 2 * k + i]]
        /\ nfn = 1 /\ rec = Mrf + 1 /\ parked = {}
        /\ free = {[pl |-> Mrf + 2 + 2 * K + i, x |-> 100 + (Mrf + 2 + 2 * K + i)] :
                     i \in 0 .. PoolWant - 1}
    BY DEF Init, Plane, Grid, RecBuf, LeafBuf, PoolBuf
  <1>3. Bags = free
    BY <1>2 DEF Bags
  <1>4. Typing
    <2>1. IsDpb(dpb)
      <3>1. \A s \in Slots : IsSlot(dpb[s])
        BY <1>2 DEF IsSlot
      <3>2. dpb = [s \in Slots |-> dpb[s]]
        BY <1>2
      <3> QED BY <3>1, <3>2 DEF IsDpb
    <2>2. leafrec = [k \in Ring |-> [i \in {0, 1} |-> leafrec[k][i]]]
      BY <1>2
    <2>3. \A g \in free : g = [pl |-> g.pl, x |-> g.x]
      BY <1>2
    <2> QED BY <1>1, <1>2, <2>1, <2>2, <2>3 DEF Typing
  <1>5. \A s \in Slots : s \in 0 .. Mrf
    BY DEF Slots
  <1>6. LeafPlanes \subseteq Mrf + 2 .. Mrf + 1 + 2 * K
    BY <1>1, <1>2 DEF LeafPlanes, Ring
  <1>7. \A g \in Bags : /\ g.pl \in Int /\ g.pl > Mrf + 1 + 2 * K
                        /\ g.x = g.pl + 100 /\ g = [pl |-> g.pl, x |-> g.x]
    BY <1>1, <1>2, <1>3
  <1>8. \A k, m \in Ring, i, j \in {0, 1} : leafrec[k][i] = leafrec[m][j] => k = m /\ i = j
    BY <1>1, <1>2 DEF Ring
  <1>9. BuffersDisjoint
    BY <1>1, <1>2, <1>3, <1>5, <1>6, <1>7, <1>8, SMTT(60) DEF BuffersDisjoint
  <1> QED BY <1>4, <1>9 DEF IInv

LEMMA Steps == IInv /\ [Next]_vars => IInv'
  <1> SUFFICES ASSUME IInv, [Next]_vars PROVE IInv'
    OBVIOUS
  <1>1. CASE Begin
    <2>1. Commit(rec, <<n, "A">>) /\ rec' = Back /\ UNCHANGED <<cfg, leafrec>>
      BY <1>1 DEF Begin
    <2> QED BY <2>1, AnchorStores
  <1>2. ASSUME NEW k \in Ring, PrepR(k) PROVE IInv'
    <2>1. /\ Commit(leafrec[k][0], <<bur[k].n, "R">>)
          /\ leafrec' = [leafrec EXCEPT ![k][0] = Back] /\ UNCHANGED <<cfg, rec>>
      BY <1>2 DEF PrepR
    <2> QED BY <2>1, RefStores
  <1>3. CASE CodeSerial
    BY <1>3, SerialStores
  <1>4. CASE Prep \/ Drain \/ Close \/ Closed \/ UNCHANGED vars
    <2>1. CASE Prep
      BY <2>1, PrepFrame, Untouched DEF owned
    <2>2. CASE Drain \/ Close \/ Closed \/ UNCHANGED vars
      <3>1. UNCHANGED owned
        BY <2>2, Zenon DEF Drain, Close, Closed, owned, vars, store
      <3> QED BY <3>1, Untouched
    <2> QED BY <1>4, <2>1, <2>2
  <1>5. ASSUME NEW k \in Ring, PrepL(k) \/ Encode(k) \/ LeafDone(k) \/ Join(k) PROVE IInv'
    <2>1. UNCHANGED owned
      BY <1>5, Zenon DEF PrepL, Encode, LeafDone, Join, owned, store
    <2> QED BY <2>1, Untouched
  <1>6. ASSUME NEW k \in Ring, NEW j \in Kinds, Analyze(k, j) \/ Trail(k, j) \/ Emit(k, j)
        PROVE  IInv'
    <2>1. UNCHANGED owned
      BY <1>6 DEF Analyze, Trail, Emit, owned, store
    <2> QED BY <2>1, Untouched
  <1> QED BY <1>1, <1>2, <1>3, <1>4, <1>5, <1>6 DEF Next

\* Every plane and every set of grids has one owner, always.
THEOREM OneOwner == Spec => []BuffersDisjoint
  <1>1. IInv => BuffersDisjoint
    BY DEF IInv
  <1> QED BY Start, Steps, <1>1, PTL DEF Spec

\* What the assumption on the shapes gives of the encoder at hand.
LEMMA ShapeFacts ==
  ASSUME cfg \in Shapes
  PROVE  /\ Rows \in Nat /\ Rows > 1 /\ Lag \in Nat /\ Lag > 0 /\ Lag <= Rows
         /\ cfg.bframes \in {2, 3} /\ cfg.nref \in Nat /\ cfg.nref > 0
         /\ cfg.wide \in BOOLEAN /\ cfg.tight \in BOOLEAN
         /\ Len(cfg.script) \in Nat
         /\ \A i \in 1 .. Len(cfg.script) : cfg.script[i] \in -1 .. 3
         /\ Mrf \in Nat /\ Mrf > 2 /\ (cfg.wide => Mrf > 3)
         /\ K \in Nat /\ K > 1
  <1>1. /\ cfg.rows \in Nat \ {0, 1} /\ cfg.lag \in 1 .. cfg.rows
        /\ cfg.bframes \in {2, 3} /\ cfg.nref \in Nat \ {0}
        /\ cfg.wide \in BOOLEAN /\ cfg.tight \in BOOLEAN /\ (cfg.wide => ~cfg.tight)
        /\ cfg.script \in Seq({Idr} \cup 0 .. cfg.bframes)
        /\ K \in Nat \ {0, 1} /\ MaxRef \in Nat /\ MaxRef >= 4
    BY StairAssumption, Zenon DEF StairAssumption
  <1>2. Len(cfg.script) \in Nat
    BY <1>1
  <1>3. \A i \in 1 .. Len(cfg.script) : cfg.script[i] \in {Idr} \cup 0 .. cfg.bframes
    BY <1>1
  <1>4. \A i \in 1 .. Len(cfg.script) : cfg.script[i] \in -1 .. 3
    BY <1>1, <1>3 DEF Idr
  <1>5. Mrf \in Nat /\ Mrf > 2 /\ (cfg.wide => Mrf > 3)
    <2>1. cfg.bframes \in Nat /\ cfg.bframes > 1 /\ cfg.nref \in Nat /\ cfg.nref > 0
      BY <1>1
    <2>2. PICK b \in Nat : b = (IF cfg.tight THEN 1 ELSE cfg.bframes) /\ b > 0
                          /\ (cfg.wide => b > 1)
      BY <1>1, <2>1
    <2>3. Mrf = IF cfg.nref + 1 + b < MaxRef THEN cfg.nref + 1 + b ELSE MaxRef
      BY <2>2 DEF Mrf, Least
    <2> HIDE <2>2
    <2>4. b \in Nat /\ b > 0 /\ (cfg.wide => b > 1)
      BY <2>2
    <2> QED BY <1>1, <2>1, <2>3, <2>4
  <1> QED BY <1>1, <1>2, <1>4, <1>5 DEF Rows, Lag

-----------------------------------------------------------------------------
(* The coding order of the references.                                      *)

Index(p) == Cardinality(Earlier(p))

LEMMA PicsFinite == ASSUME cfg \in Shapes PROVE IsFiniteSet(Pics)
  <1>1. IsFiniteSet(0 .. Len(cfg.script))
    <2>1. 0 \in Int /\ Len(cfg.script) \in Int
      BY ShapeFacts
    <2> QED BY <2>1, FS_Interval
  <1>2. IsFiniteSet({"A"}) /\ IsFiniteSet({"A", "R"}) /\ IsFiniteSet(Kinds)
    <2>1. IsFiniteSet({"A"})
      BY FS_Singleton
    <2>2. IsFiniteSet({"A"} \cup {"R"})
      BY <2>1, FS_AddElement
    <2>3. IsFiniteSet(({"A"} \cup {"R"}) \cup {"L"})
      BY <2>2, FS_AddElement
    <2>4. {"A", "R"} = {"A"} \cup {"R"} /\ Kinds = ({"A"} \cup {"R"}) \cup {"L"}
      BY DEF Kinds
    <2> QED BY <2>1, <2>2, <2>3, <2>4
  <1> QED BY <1>1, <1>2, FS_Product DEF Pics

LEMMA EarlierFinite ==
  ASSUME cfg \in Shapes, NEW p
  PROVE  IsFiniteSet(Earlier(p)) /\ Index(p) \in Nat /\ Earlier(p) \subseteq RefPics
  <1>1. Earlier(p) \subseteq RefPics /\ RefPics \subseteq Pics
    BY DEF Earlier, RefPics
  <1>2. IsFiniteSet(Earlier(p))
    BY <1>1, PicsFinite, FS_Subset
  <1> QED BY <1>1, <1>2, FS_CardinalityType DEF Index

\* A reference picture is an anchor or the reference B of a mini-GOP that has one.
LEMMA RefPicForms ==
  ASSUME cfg \in Shapes, NEW p
  PROVE  p \in RefPics <=> \E m \in 0 .. Len(cfg.script) :
                              \/ p = <<m, "A">>
                              \/ m > 0 /\ cfg.script[m] > 1 /\ p = <<m, "R">>
  BY DEF RefPics, Pics, Kinds

\* What the newest reference of mini-GOP m is, once it is stored.
LastRef(m) == IF m > 0 /\ cfg.script[m] > 1 THEN <<m, "R">> ELSE <<m, "A">>

LEMMA NextIsR ==
  ASSUME cfg \in Shapes, NEW m \in 1 .. Len(cfg.script), cfg.script[m] > 1
  PROVE  /\ Earlier(<<m, "R">>) = Earlier(<<m, "A">>) \cup {<<m, "A">>}
         /\ Index(<<m, "R">>) = Index(<<m, "A">>) + 1
  <1>0. Len(cfg.script) \in Nat
    BY ShapeFacts
  <1>1. ASSUME NEW q
        PROVE  q \in Earlier(<<m, "R">>) <=> q \in Earlier(<<m, "A">>) \/ q = <<m, "A">>
    <2>1. CASE q \in RefPics
      <3>1. PICK i \in 0 .. Len(cfg.script) : q = <<i, "A">> \/ q = <<i, "R">>
        BY <2>1, RefPicForms
      <3> QED BY <1>0, <2>1, <3>1 DEF Earlier, Precedes
    <2>2. CASE q \notin RefPics
      <3>1. <<m, "A">> \in RefPics
        BY RefPicForms
      <3> QED BY <2>2, <3>1 DEF Earlier
    <2> QED BY <2>1, <2>2
  <1>2. <<m, "A">> \notin Earlier(<<m, "A">>)
    BY <1>0 DEF Earlier, Precedes
  <1>3. Earlier(<<m, "R">>) = Earlier(<<m, "A">>) \cup {<<m, "A">>}
    BY <1>1
  <1> QED BY <1>2, <1>3, EarlierFinite, FS_AddElement DEF Index

LEMMA NextIsA ==
  ASSUME cfg \in Shapes, NEW m \in 0 .. Len(cfg.script) - 1, cfg.script[m + 1] # Idr
  PROVE  /\ Earlier(<<m + 1, "A">>) = Earlier(LastRef(m)) \cup {LastRef(m)}
         /\ Index(<<m + 1, "A">>) = Index(LastRef(m)) + 1
  <1>0. Len(cfg.script) \in Nat
    BY ShapeFacts
  <1> DEFINE l == LastRef(m)
  <1>1. l \in RefPics /\ (l = <<m, "A">> \/ l = <<m, "R">>)
    BY <1>0, RefPicForms DEF LastRef
  <1>2. ASSUME NEW q
        PROVE  q \in Earlier(<<m + 1, "A">>) <=> q \in Earlier(l) \/ q = l
    <2>1. CASE q \in RefPics
      <3>1. PICK i \in 0 .. Len(cfg.script) :
               q = <<i, "A">> \/ (i > 0 /\ cfg.script[i] > 1 /\ q = <<i, "R">>)
        BY <2>1, RefPicForms
      <3>2. q \in Earlier(<<m + 1, "A">>)
              <=> i < m + 1 /\ \A h \in i + 1 .. m + 1 : cfg.script[h] # Idr
        BY <1>0, <2>1, <3>1 DEF Earlier, Precedes
      <3>3. (\A h \in i + 1 .. m + 1 : cfg.script[h] # Idr)
              <=> (\A h \in i + 1 .. m : cfg.script[h] # Idr) \/ i > m
        BY <1>0
      <3>4. q \in Earlier(l) <=> Precedes(q, l) /\ \A h \in i + 1 .. m : cfg.script[h] # Idr
        BY <1>0, <1>1, <2>1, <3>1 DEF Earlier
      <3>5. i = m => (\A h \in i + 1 .. m : cfg.script[h] # Idr)
        BY <1>0
      <3>6. Precedes(q, l) \/ q = l <=> i < m + 1
        BY <1>0, <1>1, <3>1 DEF Precedes, LastRef
      <3>7. q = l => i = m
        BY <3>1, <1>1
      <3> QED BY <3>2, <3>3, <3>4, <3>5, <3>6, <3>7, <1>0
    <2>2. CASE q \notin RefPics
      BY <1>1, <2>2 DEF Earlier
    <2> QED BY <2>1, <2>2
  <1>3. l \notin Earlier(l)
    BY <1>0, <1>1 DEF Earlier, Precedes
  <1>4. Earlier(<<m + 1, "A">>) = Earlier(l) \cup {l}
    BY <1>2
  <1> HIDE DEF l
  <1>5. Index(<<m + 1, "A">>) = Index(l) + 1
    BY <1>3, <1>4, EarlierFinite, FS_AddElement DEF Index
  <1> QED BY <1>4, <1>5 DEF l

LEMMA NoneBeforeIdr ==
  ASSUME cfg \in Shapes, NEW m \in 1 .. Len(cfg.script), cfg.script[m] = Idr
  PROVE  Earlier(<<m, "A">>) = {} /\ Index(<<m, "A">>) = 0
  <1>0. Len(cfg.script) \in Nat
    BY ShapeFacts
  <1>1. ASSUME NEW q \in Earlier(<<m, "A">>) PROVE FALSE
    <2>1. PICK i \in 0 .. Len(cfg.script) : q = <<i, "A">> \/ q = <<i, "R">>
      BY RefPicForms DEF Earlier
    <2>2. i < m /\ \A h \in i + 1 .. m : cfg.script[h] # Idr
      BY <1>0, <2>1 DEF Earlier, Precedes
    <2> QED BY <1>0, <2>2
  <1>2. Earlier(<<m, "A">>) = {}
    BY <1>1
  <1> QED BY <1>2, FS_EmptySet DEF Index

-----------------------------------------------------------------------------
(* The sliding window.                                                      *)

UsedIn(d) == {s \in Slots : d[s].used}

\* The slots in use hold the frame_nums of the newest Mrf references, one each.
FnWindow(d, f) ==
    /\ \A s, t \in UsedIn(d) : d[s].fn = d[t].fn => s = t
    /\ \A s \in UsedIn(d) : f - Mrf <= d[s].fn /\ d[s].fn < f
    /\ \A i \in 0 .. f - 1 : f - Mrf <= i => \E s \in UsedIn(d) : d[s].fn = i

LEMMA WindowSize ==
  ASSUME cfg \in Shapes, NEW d, IsDpb(d), NEW f \in Nat, FnWindow(d, f)
  PROVE  IsFiniteSet(UsedIn(d)) /\ Cardinality(UsedIn(d)) = Least(f, Mrf)
  <1> DEFINE U == UsedIn(d)
             a == IF f <= Mrf THEN 0 ELSE f - Mrf
             V == a .. f - 1
             h == [s \in U |-> d[s].fn]
  <1>1. Mrf \in Nat /\ a \in Nat /\ a <= f
    BY ShapeFacts
  <1>2. IsFiniteSet(V) /\ Cardinality(V) = Least(f, Mrf)
    <2>1. a \in Int /\ f - 1 \in Int
      BY <1>1
    <2>2. IsFiniteSet(V) /\ Cardinality(V) = IF a > f - 1 THEN 0 ELSE f - 1 - a + 1
      <3> HIDE DEF a
      <3> QED BY <2>1, FS_Interval
    <2>3. (IF a > f - 1 THEN 0 ELSE f - 1 - a + 1) = Least(f, Mrf)
      BY <1>1 DEF Least
    <2> QED BY <2>2, <2>3
  <1>3. \A s \in U : d[s].fn \in V
    BY <1>1 DEF FnWindow, IsDpb, IsSlot, UsedIn
  <1>4. \A i \in V : \E s \in U : d[s].fn = i
    BY <1>1 DEF FnWindow
  <1>5. \A s, t \in U : d[s].fn = d[t].fn => s = t
    BY DEF FnWindow
  <1> HIDE DEF U, V
  <1>6. h \in Injection(U, V)
    BY <1>3, <1>5 DEF Injection, IsInjective
  <1>7. h \in Surjection(U, V)
    BY <1>3, <1>4 DEF Surjection
  <1> HIDE DEF h
  <1>8. IsFiniteSet(U) /\ Cardinality(U) = Cardinality(V)
    BY <1>2, <1>6, <1>7, FS_Injection
  <1> QED BY <1>2, <1>8 DEF U

\* What Evict leaves: everything, or everything but the oldest frame_num.
LEMMA EvictOldest ==
  ASSUME cfg \in Shapes, NEW d, IsDpb(d), NEW f \in Nat, FnWindow(d, f)
  PROVE  /\ UsedIn(Evict(d)) = {s \in UsedIn(d) : d[s].fn > f - Mrf}
         /\ \A s \in Slots : Evict(d)[s].pic = d[s].pic /\ Evict(d)[s].fn = d[s].fn
  <1> DEFINE u == {s \in Slots : d[s].used}
             v == CHOOSE s \in u : \A t \in u : d[s].fn <= d[t].fn
  <1>0. Mrf \in Nat /\ Mrf > 2
    BY ShapeFacts
  <1>1. u = UsedIn(d) /\ Cardinality(u) = Least(f, Mrf)
    BY WindowSize DEF UsedIn
  <1>2. \A s \in u : d[s].fn \in Nat /\ s \in Slots
    BY DEF IsDpb, IsSlot
  <1>3. CASE f >= Mrf
    <2>1. Cardinality(u) >= Mrf
      BY <1>0, <1>1, <1>3 DEF Least
    <2>2. PICK o \in u : d[o].fn = f - Mrf
      BY <1>0, <1>1, <1>3 DEF FnWindow
    <2>3. \A s \in u : d[o].fn <= d[s].fn
      BY <1>1, <2>2 DEF FnWindow
    <2>4. v = o
      <3>1. v \in u /\ \A t \in u : d[v].fn <= d[t].fn
        BY <2>2, <2>3
      <3> HIDE DEF v, u
      <3>2. d[v].fn = d[o].fn
        BY <1>2, <2>2, <2>3, <3>1
      <3> QED BY <1>1, <2>2, <3>1, <3>2 DEF FnWindow
    <2>5. Evict(d) = [d EXCEPT ![v].used = FALSE]
      BY <2>1 DEF Evict
    <2> HIDE DEF v
    <2>6. \A s \in Slots : Evict(d)[s] = IF s = o THEN [d[s] EXCEPT !.used = FALSE] ELSE d[s]
      BY <2>2, <2>4, <2>5 DEF IsDpb
    <2>7. \A s \in Slots : /\ Evict(d)[s].pic = d[s].pic /\ Evict(d)[s].fn = d[s].fn
                           /\ Evict(d)[s].used <=> d[s].used /\ s # o
      BY <2>6 DEF IsDpb, IsSlot
    <2>8. \A s \in u : d[s].fn > f - Mrf <=> s # o
      <3> HIDE DEF u
      <3> QED BY <1>0, <1>1, <1>2, <2>2, <2>3 DEF FnWindow
    <2> QED BY <1>1, <2>7, <2>8 DEF UsedIn
  <1>4. CASE f < Mrf
    <2>1. ~ (Cardinality(u) >= Mrf)
      BY <1>0, <1>1, <1>4 DEF Least
    <2>2. Evict(d) = d
      BY <2>1 DEF Evict
    <2>3. \A s \in u : d[s].fn > f - Mrf
      BY <1>0, <1>2, <1>4
    <2> QED BY <1>1, <2>2, <2>3
  <1> QED BY <1>0, <1>3, <1>4

\* A store: the sliding window, then a free slot.
Store(d, r) == [Evict(d) EXCEPT ![FirstUnused(Evict(d))] = r]

\* A store slides the window.
LEMMA StoreSlides ==
  ASSUME cfg \in Shapes, NEW d, IsDpb(d), NEW f \in Nat, FnWindow(d, f),
         NEW r, r.used, r.fn = f, IsSlot(r),
         NEW e, e = Store(d, r)
  PROVE  /\ IsDpb(e) /\ FnWindow(e, f + 1)
         /\ FirstUnused(Evict(d)) \in Slots /\ FirstUnused(Evict(d)) \notin UsedIn(Evict(d))
         /\ UsedIn(e) = {s \in UsedIn(d) : d[s].fn > f - Mrf} \cup {FirstUnused(Evict(d))}
         /\ e[FirstUnused(Evict(d))] = r
         /\ \A s \in UsedIn(d) : d[s].fn > f - Mrf => e[s].pic = d[s].pic /\ e[s].fn = d[s].fn
  <1> DEFINE g == Evict(d)
             t == FirstUnused(g)
  <1>0. Mrf \in Nat /\ Mrf > 2
    BY ShapeFacts
  <1>1. IsDpb(g) /\ \E s \in Slots : ~g[s].used
    BY EvictSlots
  <1>2. /\ UsedIn(g) = {s \in UsedIn(d) : d[s].fn > f - Mrf}
        /\ \A s \in Slots : g[s].pic = d[s].pic /\ g[s].fn = d[s].fn
    BY EvictOldest
  <1>3. t \in Slots
    BY TakesSlot
  <1>4. ~g[t].used
    <2> DEFINE U == {s \in Slots : ~g[s].used}
    <2>1. U # {} /\ U \subseteq Nat
      BY <1>0, <1>1 DEF Slots
    <2>2. \E s \in U : \A q \in U : s <= q
      <3> DEFINE h == [s \in U |-> s]
      <3>1. \A s \in U : h[s] \in Nat
        BY <2>1
      <3>2. \E s \in U : \A q \in U : h[s] <= h[q]
        <4> HIDE DEF h, U
        <4> QED BY <2>1, <3>1, LeastOf
      <3> QED BY <3>2
    <2>3. \E s \in Slots : ~g[s].used /\ \A q \in Slots : q < s => g[q].used
      BY <2>1, <2>2, <1>0 DEF Slots
    <2> HIDE DEF g
    <2> QED BY <2>3 DEF FirstUnused
  <1>5. e = [s \in Slots |-> IF s = t THEN r ELSE g[s]]
    <2>1. e = [g EXCEPT ![t] = r]
      BY DEF Store
    <2> HIDE DEF g, t
    <2> QED BY <1>1, <1>3, <2>1 DEF IsDpb
  <1>6. IsDpb(e)
    <2> HIDE DEF g, t
    <2> QED BY <1>1, <1>5 DEF IsDpb
  <1> HIDE DEF g, t
  <1>7. UsedIn(e) = UsedIn(g) \cup {t} /\ t \notin UsedIn(g)
    BY <1>3, <1>4, <1>5 DEF UsedIn
  <1>8. \A s \in UsedIn(g) : e[s].fn = d[s].fn /\ e[s].pic = d[s].pic
    BY <1>2, <1>4, <1>5 DEF UsedIn
  <1>9. e[t].fn = f
    BY <1>3, <1>5
  <1>10. \A s \in UsedIn(d) : d[s].fn \in Nat
    BY DEF UsedIn, IsDpb, IsSlot
  <1>11. FnWindow(e, f + 1)
    <2>1. \A x, y \in UsedIn(e) : e[x].fn = e[y].fn => x = y
      BY <1>2, <1>7, <1>8, <1>9, <1>10 DEF FnWindow
    <2>2. \A s \in UsedIn(e) : (f + 1) - Mrf <= e[s].fn /\ e[s].fn < f + 1
      BY <1>0, <1>2, <1>7, <1>8, <1>9, <1>10 DEF FnWindow
    <2>3. \A i \in 0 .. f : (f + 1) - Mrf <= i => \E s \in UsedIn(e) : e[s].fn = i
      <3> SUFFICES ASSUME NEW i \in 0 .. f, (f + 1) - Mrf <= i
                   PROVE  \E s \in UsedIn(e) : e[s].fn = i
        OBVIOUS
      <3>1. CASE i = f
        BY <3>1, <1>7, <1>9
      <3>2. CASE i # f
        <4>1. PICK s \in UsedIn(d) : d[s].fn = i
          BY <1>0, <3>2 DEF FnWindow
        <4>2. d[s].fn > f - Mrf
          BY <1>0, <4>1
        <4>3. s \in UsedIn(g)
          BY <1>2, <4>1, <4>2
        <4> QED BY <1>7, <1>8, <4>1, <4>3
      <3> QED BY <3>1, <3>2
    <2>4. \A i \in 0 .. (f + 1) - 1 : (f + 1) - Mrf <= i => \E s \in UsedIn(e) : e[s].fn = i
      <3>1. (f + 1) - 1 = f
        BY ONLY f \in Nat
      <3> QED BY ONLY <2>3, <3>1, Zenon
    <2>5. FnWindow(e, f + 1) <=>
            /\ \A x, y \in UsedIn(e) : e[x].fn = e[y].fn => x = y
            /\ \A s \in UsedIn(e) : (f + 1) - Mrf <= e[s].fn /\ e[s].fn < f + 1
            /\ \A i \in 0 .. (f + 1) - 1 : (f + 1) - Mrf <= i => \E s \in UsedIn(e) : e[s].fn = i
      BY ONLY Zenon DEF FnWindow
    <2> QED BY ONLY <2>1, <2>2, <2>4, <2>5
  <1> QED BY <1>2, <1>3, <1>5, <1>6, <1>7, <1>8, <1>11 DEF g, t

\* The pictures of the window: l is the newest reference stored, and the slots
\* in use hold the newest of the pictures of its period, under their indices.
PicWindow(d, f, l) ==
    /\ l \in RefPics /\ f = Index(l) + 1
    /\ \A s \in UsedIn(d) : d[s].pic \in Earlier(l) \cup {l} /\ d[s].fn = Index(d[s].pic)
    /\ \A p \in Earlier(l) \cup {l} : f - Mrf <= Index(p) => \E s \in UsedIn(d) : d[s].pic = p

LEMMA StoreOrdered ==
  ASSUME cfg \in Shapes, NEW d, IsDpb(d), NEW f \in Nat, FnWindow(d, f),
         NEW p \in RefPics, f = Index(p),
         \A s \in UsedIn(d) : d[s].pic \in Earlier(p) /\ d[s].fn = Index(d[s].pic),
         \A q \in Earlier(p) : f - Mrf <= Index(q) => \E s \in UsedIn(d) : d[s].pic = q,
         NEW r, r.used, r.fn = f, IsSlot(r), r.pic = p,
         NEW e, e = Store(d, r)
  PROVE  IsDpb(e) /\ FnWindow(e, f + 1) /\ PicWindow(e, f + 1, p)
  <1> DEFINE t == FirstUnused(Evict(d))
  <1>1. /\ IsDpb(e) /\ FnWindow(e, f + 1)
        /\ UsedIn(e) = {s \in UsedIn(d) : d[s].fn > f - Mrf} \cup {t}
        /\ t \in Slots /\ t \notin UsedIn(Evict(d)) /\ e[t] = r
        /\ \A s \in UsedIn(d) : d[s].fn > f - Mrf => e[s].pic = d[s].pic /\ e[s].fn = d[s].fn
    <2>1. /\ IsDpb(e) /\ FnWindow(e, f + 1)
          /\ FirstUnused(Evict(d)) \in Slots /\ FirstUnused(Evict(d)) \notin UsedIn(Evict(d))
          /\ UsedIn(e) = {s \in UsedIn(d) : d[s].fn > f - Mrf} \cup {FirstUnused(Evict(d))}
          /\ e[FirstUnused(Evict(d))] = r
          /\ \A s \in UsedIn(d) : d[s].fn > f - Mrf => e[s].pic = d[s].pic /\ e[s].fn = d[s].fn
      BY StoreSlides
    <2> QED BY <2>1, Zenon
  <1> HIDE DEF t
  <1>0. Mrf \in Nat /\ Mrf > 2 /\ (\A q : Index(q) \in Nat)
    <2>1. ASSUME NEW q PROVE Index(q) \in Nat
      BY EarlierFinite
    <2> QED BY <2>1, ShapeFacts
  <1>2. \A s \in UsedIn(e) : e[s].pic \in Earlier(p) \cup {p} /\ e[s].fn = Index(e[s].pic)
    BY <1>1
  <1>3. ASSUME NEW q \in Earlier(p) \cup {p}, (f + 1) - Mrf <= Index(q)
        PROVE  \E s \in UsedIn(e) : e[s].pic = q
    <2>1. CASE q = p
      BY <1>1, <2>1
    <2>2. CASE q # p
      <3>1. f - Mrf <= Index(q) /\ f - Mrf < Index(q)
        BY <1>0, <1>3
      <3>2. PICK s \in UsedIn(d) : d[s].pic = q
        BY <2>2, <3>1
      <3>3. d[s].fn > f - Mrf
        BY <3>1, <3>2, <1>0
      <3> QED BY <1>1, <3>2, <3>3
    <2> QED BY <2>1, <2>2
  <1>4. f + 1 = Index(p) + 1
    OBVIOUS
  <1> QED BY <1>1, <1>2, <1>3, <1>4, Zenon DEF PicWindow

Last == IF apc = "retire" THEN n ELSE n - 1
Newest == IF \/ apc = "retire" \/ (fly # None /\ bur[cur].pc = "prep")
             \/ ~(Last > 0 /\ cfg.script[Last] > 1)
          THEN <<Last, "A">> ELSE <<Last, "R">>

\* The buffer, up to the newest picture whose store the threads have reached.
Window == FnWindow(dpb, nfn) /\ PicWindow(dpb, nfn, Newest)

LEMMA WindowIsCodingOrder == ASSUME Typing, Window PROVE DpbCodingOrder
  <1>1. /\ cfg \in Shapes /\ IsDpb(dpb) /\ nfn \in Nat /\ UsedIn(dpb) = Used
    BY DEF Typing, UsedIn, Used
  <1>2. Cardinality(Used) = Least(nfn, Mrf)
    BY <1>1, WindowSize DEF Window
  <1> DEFINE l == Newest
  <1>3. PicWindow(dpb, nfn, l)
    BY DEF Window
  <1> HIDE DEF l
  <1>4. Mrf \in Nat /\ \A q : Index(q) \in Nat
    BY <1>1, ShapeFacts, EarlierFinite
  <1>5. /\ l \in RefPics
        /\ nfn = Cardinality(Earlier(l)) + 1
        /\ \A s \in Used : /\ dpb[s].pic \in Earlier(l) \cup {l}
                           /\ dpb[s].fn = Cardinality(Earlier(dpb[s].pic))
        /\ \A p \in Earlier(l) \cup {l} :
               nfn - Mrf <= Cardinality(Earlier(p)) => \E s \in Used : dpb[s].pic = p
    BY <1>1, <1>3 DEF PicWindow, Index
  <1>6. \A p \in Earlier(l) \cup {l} :
               Cardinality(Earlier(p)) >= nfn - Mrf => \E s \in Used : dpb[s].pic = p
    BY <1>1, <1>4, <1>5 DEF Index
  <1> QED BY <1>2, <1>5, <1>6, Zenon DEF DpbCodingOrder

\* The window after a step, in terms of what the step leaves.
LEMMA WindowAfter ==
  ASSUME cfg' = cfg
  PROVE  Window' <=> FnWindow(dpb', nfn') /\ PicWindow(dpb', nfn', Newest')
  <1>1. /\ Slots' = Slots /\ Mrf' = Mrf /\ RefPics' = RefPics
        /\ \A p : Earlier(p)' = Earlier(p)
    BY DEF Slots, Mrf, RefPics, Pics, Earlier, Precedes
  <1>2. UsedIn(dpb)' = UsedIn(dpb')
    BY <1>1 DEF UsedIn
  <1>3. FnWindow(dpb, nfn)' <=> FnWindow(dpb', nfn')
    BY <1>1, <1>2 DEF FnWindow
  <1>4. PicWindow(dpb, nfn, Newest)' <=> PicWindow(dpb', nfn', Newest')
    BY <1>1, <1>2 DEF PicWindow, Index
  <1> QED BY <1>3, <1>4 DEF Window

LEMMA WindowStays ==
  ASSUME Window, UNCHANGED <<cfg, dpb, nfn>>, Newest' = Newest PROVE Window'
  BY WindowAfter DEF Window

\* A store of the picture that comes next in coding order.
LEMMA CommitOrdered ==
  ASSUME Typing, Window, NEW pl, NEW p \in RefPics, Commit(pl, p), cfg' = cfg,
         Earlier(p) = Earlier(Newest) \cup {Newest}, Index(p) = Index(Newest) + 1,
         Newest' = p
  PROVE  Window'
  <1> DEFINE r == [used |-> TRUE, pic |-> p, fn |-> nfn, pl |-> pl, x |-> NewX]
  <1>1. /\ cfg \in Shapes /\ IsDpb(dpb) /\ nfn \in Nat
        /\ FnWindow(dpb, nfn) /\ PicWindow(dpb, nfn, Newest)
        /\ dpb' = Store(dpb, r) /\ nfn' = nfn + 1
    BY DEF Typing, Window, Commit, Target, Store
  <1>2. IsSlot(r) /\ r.used /\ r.fn = nfn /\ r.pic = p
    BY <1>1 DEF IsSlot
  <1> HIDE DEF r
  <1>3. /\ nfn = Index(p)
        /\ \A s \in UsedIn(dpb) : dpb[s].pic \in Earlier(p) /\ dpb[s].fn = Index(dpb[s].pic)
        /\ \A q \in Earlier(p) : nfn - Mrf <= Index(q) => \E s \in UsedIn(dpb) : dpb[s].pic = q
    BY <1>1 DEF PicWindow
  <1>4. FnWindow(dpb', nfn + 1) /\ PicWindow(dpb', nfn + 1, p)
    BY <1>1, <1>2, <1>3, StoreOrdered
  <1> QED BY <1>1, <1>4, WindowAfter

-----------------------------------------------------------------------------
(* Types of the ring.                                                       *)

IsJob(q) ==
    /\ DOMAIN q = {"st", "arow", "pub", "pl", "x", "refs", "gates"}
    /\ q.st \in {"off", "ready", "run", "done"}
    /\ q.arow \in 0 .. Rows /\ q.pub \in -1 .. Rows
    /\ \A g \in q.gates : g[1] \in Ring /\ g[2] \in {"A", "R"}
IsBurst(b) ==
    /\ DOMAIN b = {"n", "nb", "live", "fired", "pc", "A", "R", "L", "refb_done", "prevP",
                   "rbgate", "rbseq", "reads", "col", "err"}
    /\ b.n \in Nat /\ b.nb \in 0 .. 3 /\ b.live \in BOOLEAN /\ b.fired \in BOOLEAN
    /\ IsJob(b.A) /\ IsJob(b.R) /\ IsJob(b.L)
    /\ b.refb_done \in Nat
Bursts == DOMAIN bur = Ring /\ \A k \in Ring : IsBurst(bur[k])

LEMMA BurstsAfter ==
  ASSUME cfg' = cfg
  PROVE  /\ Bursts' <=> DOMAIN bur' = Ring /\ \A k \in Ring : IsBurst(bur'[k])
         /\ Rows' = Rows /\ Lag' = Lag /\ Pics' = Pics
  <1>1. Rows' = Rows /\ Lag' = Lag /\ Pics' = Pics /\ Ring' = Ring
    BY DEF Rows, Lag, Ring, Pics
  <1>2. \A q : IsJob(q)' <=> IsJob(q)
    BY <1>1 DEF IsJob
  <1>3. \A b : IsBurst(b)' <=> IsBurst(b)
    BY <1>2 DEF IsBurst
  <1>4. ASSUME NEW k PROVE IsBurst(bur[k])' <=> IsBurst(bur'[k])
    BY <1>3 DEF IsBurst
  <1> QED BY <1>1, <1>4 DEF Bursts

\* The fields of a burst that only a launch or a drain changes, and the others;
\* what a job is given when it is prepared.
Fixed(c, b) == /\ c.n = b.n /\ c.nb = b.nb /\ c.live = b.live /\ c.prevP = b.prevP
               /\ c.rbgate = b.rbgate /\ c.rbseq = b.rbseq
Kept(c, b) == /\ Fixed(c, b) /\ c.pc = b.pc /\ c.fired = b.fired
              /\ c.refb_done = b.refb_done /\ c.col = b.col /\ c.reads = b.reads
SameWork(q, o) == /\ q.pl = o.pl /\ q.x = o.x /\ q.refs = o.refs /\ q.gates = o.gates

\* A step of burst k leaves the other bursts alone.
Alone(k) == \A m \in Ring : m # k => bur'[m] = bur[m]
AloneJob(k, j) == \A i \in Kinds : i # j => bur'[k][i] = bur[k][i]

LEMMA AnalyzeWrites ==
  ASSUME Bursts, cfg' = cfg, NEW k \in Ring, NEW j \in Kinds, Analyze(k, j), Rows \in Nat
  PROVE  /\ Bursts' /\ Alone(k) /\ Kept(bur'[k], bur[k])
         /\ AloneJob(k, j)
         /\ bur[k][j].st = "run" /\ bur[k][j].arow < Rows
         /\ bur'[k][j].st = "run" /\ bur'[k][j].arow = bur[k][j].arow + 1
         /\ bur'[k][j].pub = bur[k][j].pub /\ SameWork(bur'[k][j], bur[k][j])
  <1>1. /\ bur[k][j].st = "run" /\ bur[k][j].arow < Rows
        /\ bur' = [bur EXCEPT ![k][j].arow = @ + 1]
    BY DEF Analyze, Job
  <1>2. DOMAIN bur = Ring /\ IsBurst(bur[k]) /\ IsJob(bur[k][j]) /\ j \in DOMAIN bur[k]
    BY DEF Bursts, IsBurst, Kinds
  <1>3. DOMAIN bur' = Ring /\ Alone(k)
    BY <1>1, <1>2 DEF Alone
  <1>4. bur'[k] = [bur[k] EXCEPT ![j].arow = @ + 1]
    BY <1>1, <1>2
  <1>5. bur'[k][j] = [bur[k][j] EXCEPT !.arow = @ + 1]
    BY <1>2, <1>4
  <1>6. DOMAIN bur'[k] = DOMAIN bur[k] /\ \A f \in DOMAIN bur[k] : f # j => bur'[k][f] = bur[k][f]
    BY <1>2, <1>4
  <1>7. DOMAIN bur'[k][j] = DOMAIN bur[k][j]
        /\ bur'[k][j].arow = bur[k][j].arow + 1
        /\ \A f \in DOMAIN bur[k][j] : f # "arow" => bur'[k][j][f] = bur[k][j][f]
    BY <1>2, <1>5 DEF IsJob
  <1>8. IsJob(bur'[k][j])
    BY <1>1, <1>2, <1>7 DEF IsJob
  <1>9. AloneJob(k, j)
    BY <1>2, <1>6 DEF IsBurst, Kinds, AloneJob
  <1>10. Kept(bur'[k], bur[k])
    BY <1>2, <1>6 DEF IsBurst, Kept, Fixed, Kinds
  <1>11. IsBurst(bur'[k])
    BY <1>2, <1>6, <1>8, <1>9, <1>10 DEF IsBurst, Kept, Fixed, Kinds, AloneJob
  <1>12. Bursts'
    BY <1>3, <1>11, BurstsAfter DEF Bursts, Alone
  <1> QED BY <1>1, <1>2, <1>3, <1>7, <1>9, <1>10, <1>12 DEF IsJob, SameWork

\* The row whose trailer is done becomes final: w of the picture's rows.
LEMMA TrailWrites ==
  ASSUME Bursts, cfg' = cfg, NEW k \in Ring, NEW j \in Kinds, Trail(k, j), Rows \in Nat
  PROVE  /\ j \in {"A", "R"}
         /\ Bursts' /\ Alone(k) /\ Fixed(bur'[k], bur[k])
         /\ bur'[k].pc = bur[k].pc /\ bur'[k].fired = bur[k].fired
         /\ bur'[k].col = bur[k].col /\ bur'[k].reads = bur[k].reads
         /\ AloneJob(k, j)
         /\ bur[k][j].st = "run" /\ bur'[k][j].st = "run"
         /\ bur'[k][j].arow = bur[k][j].arow /\ SameWork(bur'[k][j], bur[k][j])
         /\ \E w \in 0 .. Rows :
              /\ w > bur[k][j].pub /\ w <= bur[k][j].arow
              /\ bur'[k][j].pub = w /\ fin' = [fin EXCEPT ![<<bur[k].n, j>>] = w]
              /\ bur'[k].refb_done = IF j = "R" /\ w = Rows THEN bur[k].refb_done + 1
                                     ELSE bur[k].refb_done
              /\ bur[k][j].pub = -1 => holds' = [holds EXCEPT ![bur[k][j].x] = <<bur[k].n, j>>]
              /\ bur[k][j].pub # -1 => holds' = holds
  <1> DEFINE q == bur[k][j]
  <1>2. DOMAIN bur = Ring /\ IsBurst(bur[k]) /\ IsJob(q) /\ j \in DOMAIN bur[k]
    BY DEF Bursts, IsBurst, Kinds
  <1>0. PICK r \in Int : r = q.pub + 1
    BY <1>2 DEF IsJob
  <1>w. PICK w \in 0 .. Rows : w = IF r = Rows - 1 THEN Rows ELSE r
    BY <1>0, <1>2 DEF IsJob, Trail, Job
  <1>d. PICK d : d = IF j = "R" /\ w = Rows THEN bur[k].refb_done + 1 ELSE bur[k].refb_done
    OBVIOUS
  <1>1. /\ j \in {"A", "R"} /\ q.st = "run" /\ r < Rows
        /\ TrailReady(k, j, r)
        /\ bur' = [bur EXCEPT ![k][j].pub = w,
                              ![k].refb_done = IF j = "R" /\ w = Rows THEN @ + 1 ELSE @]
        /\ fin' = [fin EXCEPT ![<<bur[k].n, j>>] = w]
        /\ holds' = IF r = 0 THEN [holds EXCEPT ![q.x] = <<bur[k].n, j>>] ELSE holds
    BY <1>0, <1>w DEF Trail, Job
  <1>3. DOMAIN bur' = Ring /\ Alone(k)
    BY <1>1, <1>2 DEF Alone
  <1>c. PICK c : c = [bur[k] EXCEPT ![j] = [q EXCEPT !.pub = w]]
    OBVIOUS
  <1>4. /\ bur'[k] = [c EXCEPT !.refb_done = IF j = "R" /\ w = Rows THEN @ + 1 ELSE @]
        /\ c.refb_done = bur[k].refb_done /\ DOMAIN c = DOMAIN bur[k]
        /\ c[j] = [q EXCEPT !.pub = w]
        /\ \A f \in DOMAIN bur[k] : f # j => c[f] = bur[k][f]
    BY <1>c, <1>1, <1>2, Zenon DEF IsBurst
  <1>5. bur'[k][j] = [q EXCEPT !.pub = w]
    BY <1>1, <1>2, <1>4, Zenon
  <1>6. /\ DOMAIN bur'[k] = DOMAIN bur[k] /\ bur'[k].refb_done = d
        /\ \A f \in DOMAIN bur[k] : f # j /\ f # "refb_done" => bur'[k][f] = bur[k][f]
    BY <1>2, <1>4, <1>d DEF IsBurst
  <1>7. /\ DOMAIN bur'[k][j] = DOMAIN q /\ bur'[k][j].pub = w
        /\ \A f \in DOMAIN q : f # "pub" => bur'[k][j][f] = q[f]
    BY <1>2, <1>5 DEF IsJob
  <1>8. IsJob(bur'[k][j])
    <2>1. w \in -1 .. Rows
      BY <1>w
    <2> QED BY <1>1, <1>2, <1>7, <2>1, Zenon DEF IsJob
  <1>9. AloneJob(k, j)
    BY <1>2, <1>6 DEF IsBurst, Kinds, AloneJob
  <1>10. /\ Fixed(bur'[k], bur[k]) /\ bur'[k].pc = bur[k].pc /\ bur'[k].fired = bur[k].fired
         /\ bur'[k].col = bur[k].col /\ bur'[k].reads = bur[k].reads
    BY <1>1, <1>2, <1>6 DEF IsBurst, Fixed
  <1>11. d \in Nat
    BY <1>2, <1>d DEF IsBurst
  <1>12. IsBurst(bur'[k])
    BY <1>1, <1>2, <1>6, <1>8, <1>9, <1>10, <1>11, Zenon DEF IsBurst, Fixed, Kinds, AloneJob
  <1>13. Bursts'
    BY <1>3, <1>12, BurstsAfter DEF Bursts, Alone
  <1>14. w > q.pub /\ w <= q.arow
    BY <1>0, <1>w, <1>1, <1>2 DEF IsJob, TrailReady, Job
  <1>15. /\ q.pub = -1 => holds' = [holds EXCEPT ![q.x] = <<bur[k].n, j>>]
         /\ q.pub # -1 => holds' = holds
    BY <1>0, <1>1, <1>2 DEF IsJob
  <1>16. /\ bur'[k][j].st = "run" /\ bur'[k][j].arow = q.arow /\ SameWork(bur'[k][j], q)
    BY <1>1, <1>2, <1>7, Zenon DEF IsJob, SameWork
  <1> HIDE DEF q
  <1> QED BY <1>d, <1>1, <1>3, <1>6, <1>7, <1>9, <1>10, <1>13, <1>14, <1>15, <1>16, Zenon DEF q

LEMMA TrailKeeps ==
  ASSUME Bursts, cfg' = cfg, NEW k \in Ring, NEW j \in Kinds, Trail(k, j), Rows \in Nat
  PROVE  /\ j \in {"A", "R"}
         /\ Bursts' /\ Alone(k) /\ Fixed(bur'[k], bur[k])
         /\ bur'[k].pc = bur[k].pc /\ bur'[k].fired = bur[k].fired
         /\ bur'[k].col = bur[k].col /\ bur'[k].reads = bur[k].reads
         /\ AloneJob(k, j)
         /\ bur[k][j].st = "run" /\ bur'[k][j].st = "run"
         /\ bur'[k][j].arow = bur[k][j].arow /\ SameWork(bur'[k][j], bur[k][j])
  BY TrailWrites, Zenon

LEMMA EmitWrites ==
  ASSUME Bursts, cfg' = cfg, NEW k \in Ring, NEW j \in Kinds, Emit(k, j)
  PROVE  /\ j \in {"A", "R"}
         /\ Bursts' /\ Alone(k) /\ Kept(bur'[k], bur[k])
         /\ AloneJob(k, j)
         /\ bur[k][j].st = "run" /\ bur[k][j].arow = Rows /\ bur[k][j].pub = Rows
         /\ bur'[k][j].st = "done" /\ bur'[k][j].arow = Rows /\ bur'[k][j].pub = Rows
         /\ SameWork(bur'[k][j], bur[k][j])
  <1>1. /\ bur[k][j].st = "run" /\ bur[k][j].arow = Rows /\ bur[k][j].pub = Rows
        /\ j \in {"A", "R"}
        /\ bur' = [bur EXCEPT ![k][j].st = "done"]
    BY DEF Emit, Job
  <1>2. DOMAIN bur = Ring /\ IsBurst(bur[k]) /\ IsJob(bur[k][j]) /\ j \in DOMAIN bur[k]
    BY DEF Bursts, IsBurst, Kinds
  <1>3. DOMAIN bur' = Ring /\ Alone(k)
    BY <1>1, <1>2 DEF Alone
  <1>4. bur'[k] = [bur[k] EXCEPT ![j].st = "done"]
    BY <1>1, <1>2
  <1>5. bur'[k][j] = [bur[k][j] EXCEPT !.st = "done"]
    BY <1>2, <1>4
  <1>6. DOMAIN bur'[k] = DOMAIN bur[k] /\ \A f \in DOMAIN bur[k] : f # j => bur'[k][f] = bur[k][f]
    BY <1>2, <1>4
  <1>7. DOMAIN bur'[k][j] = DOMAIN bur[k][j] /\ bur'[k][j].st = "done"
        /\ \A f \in DOMAIN bur[k][j] : f # "st" => bur'[k][j][f] = bur[k][j][f]
    BY <1>2, <1>5 DEF IsJob
  <1>8. IsJob(bur'[k][j])
    BY <1>1, <1>2, <1>7 DEF IsJob
  <1>9. AloneJob(k, j)
    BY <1>2, <1>6 DEF IsBurst, Kinds, AloneJob
  <1>10. Kept(bur'[k], bur[k])
    BY <1>2, <1>6 DEF IsBurst, Kept, Fixed, Kinds
  <1>11. IsBurst(bur'[k])
    BY <1>2, <1>6, <1>8, <1>9, <1>10 DEF IsBurst, Kept, Fixed, Kinds, AloneJob
  <1>12. Bursts'
    BY <1>3, <1>11, BurstsAfter DEF Bursts, Alone
  <1> QED BY <1>1, <1>2, <1>3, <1>7, <1>9, <1>10, <1>12 DEF IsJob, SameWork

RPoc(k) == Poc(<<bur[k].n, "R">>, bur[k].nb)

LEMMA PrepRWrites ==
  ASSUME Bursts, cfg' = cfg, Rows \in Nat, NEW k \in Ring, PrepR(k)
  PROVE  /\ Bursts' /\ Alone(k) /\ Fixed(bur'[k], bur[k])
         /\ bur[k].pc = "prep" /\ bur'[k].pc = "prepL"
         /\ bur'[k].fired = bur[k].fired /\ bur'[k].refb_done = bur[k].refb_done
         /\ bur'[k].col = bur[k].col
         /\ bur'[k].reads = bur[k].reads \cup PlanesOf(BRefs(k, RPoc(k)))
         /\ bur'[k].A = bur[k].A /\ bur'[k].L = bur[k].L
         /\ bur'[k].R.st = "ready" /\ bur'[k].R.arow = 0 /\ bur'[k].R.pub = -1
         /\ bur'[k].R.refs = BRefs(k, RPoc(k)) /\ bur'[k].R.gates = BGates(k, RPoc(k))
  <1> DEFINE J == [st |-> "ready", arow |-> 0, pub |-> -1, pl |-> leafrec[k][0], x |-> NewX,
                   refs |-> BRefs(k, RPoc(k)), gates |-> BGates(k, RPoc(k))]
  <1>1. /\ bur[k].pc = "prep"
        /\ bur' = [bur EXCEPT ![k].R = J,
                              ![k].reads = @ \cup PlanesOf(BRefs(k, RPoc(k))),
                              ![k].pc = "prepL"]
    BY DEF PrepR, Chain, RPoc
  <1>2. DOMAIN bur = Ring /\ IsBurst(bur[k])
    BY DEF Bursts
  <1>j. /\ J.st = "ready" /\ J.arow = 0 /\ J.pub = -1
        /\ J.refs = BRefs(k, RPoc(k)) /\ J.gates = BGates(k, RPoc(k))
    OBVIOUS
  <1>3. IsJob(J)
    <2>1. \A g \in BGates(k, RPoc(k)) : g[1] \in Ring /\ g[2] \in {"A", "R"}
      BY DEF BGates
    <2> HIDE DEF J
    <2>2. /\ DOMAIN J = {"st", "arow", "pub", "pl", "x", "refs", "gates"}
          /\ J.st = "ready" /\ J.arow = 0 /\ J.pub = -1
          /\ J.refs = BRefs(k, RPoc(k)) /\ J.gates = BGates(k, RPoc(k))
      BY DEF J
    <2> QED BY <2>1, <2>2 DEF IsJob
  <1> HIDE DEF J
  <1>4. DOMAIN bur' = Ring /\ Alone(k)
    BY <1>1, <1>2 DEF Alone
  <1>5. /\ bur'[k].pc = "prepL" /\ bur'[k].R = J
        /\ bur'[k].reads = bur[k].reads \cup PlanesOf(BRefs(k, RPoc(k)))
        /\ DOMAIN bur'[k] = DOMAIN bur[k]
        /\ \A f \in DOMAIN bur[k] : f \notin {"R", "reads", "pc"} => bur'[k][f] = bur[k][f]
    BY <1>1, <1>2 DEF IsBurst
  <1>6. /\ Fixed(bur'[k], bur[k]) /\ bur'[k].A = bur[k].A /\ bur'[k].L = bur[k].L
        /\ bur'[k].fired = bur[k].fired /\ bur'[k].refb_done = bur[k].refb_done
        /\ bur'[k].col = bur[k].col
    BY <1>2, <1>5 DEF IsBurst, Fixed
  <1>7. IsBurst(bur'[k])
    BY <1>2, <1>3, <1>5, <1>6 DEF IsBurst, Fixed
  <1>8. Bursts'
    BY <1>4, <1>7, BurstsAfter DEF Bursts, Alone
  <1> QED BY <1>1, <1>j, <1>4, <1>5, <1>6, <1>8

LRefs(k) == UNION {BRefs(k, q) : q \in LeafPocs(bur[k].n, bur[k].nb)}
LGates(k) == UNION {BGates(k, q) : q \in LeafPocs(bur[k].n, bur[k].nb)}
LastPoc(k) == CHOOSE q \in LeafPocs(bur[k].n, bur[k].nb) :
                 \A r \in LeafPocs(bur[k].n, bur[k].nb) : r <= q

LEMMA PrepLWrites ==
  ASSUME Bursts, cfg' = cfg, Rows \in Nat, NEW k \in Ring, PrepL(k)
  PROVE  /\ Bursts' /\ Alone(k) /\ Fixed(bur'[k], bur[k])
         /\ bur[k].pc = (IF bur[k].nb > 1 THEN "prepL" ELSE "prep") /\ bur'[k].pc = "rbgate"
         /\ bur[k].nb > 1 \/ PrevPublished(k)
         /\ bur'[k].fired = TRUE /\ bur'[k].refb_done = bur[k].refb_done
         /\ bur'[k].col = Future(LastPoc(k))
         /\ bur'[k].reads = bur[k].reads \cup PlanesOf(LRefs(k))
         /\ bur'[k].A = bur[k].A /\ bur'[k].R = bur[k].R
         /\ bur'[k].L.st = "ready" /\ bur'[k].L.arow = 0
         /\ bur'[k].L.refs = LRefs(k) /\ bur'[k].L.gates = LGates(k)
  <1> DEFINE J == [st |-> "ready", arow |-> 0, pub |-> -1,
                   pl |-> leafrec[k][HasRef(bur[k])], x |-> None,
                   refs |-> LRefs(k), gates |-> LGates(k)]
  <1>2. DOMAIN bur = Ring /\ IsBurst(bur[k])
    BY DEF Bursts
  <1>1. /\ bur[k].pc = (IF bur[k].nb > 1 THEN "prepL" ELSE "prep")
        /\ bur[k].nb > 1 \/ PrevPublished(k)
        /\ bur' = [bur EXCEPT ![k].L = J,
                              ![k].reads = @ \cup PlanesOf(LRefs(k)),
                              ![k].col = Future(LastPoc(k)), ![k].fired = TRUE,
                              ![k].pc = "rbgate"]
    <2>1. HasR(k) <=> bur[k].nb > 1
      BY DEF HasR, HasRef
    <2> QED BY <2>1, Zenon DEF PrepL, Chain, LRefs, LGates, LastPoc
  <1>j. /\ J.st = "ready" /\ J.arow = 0 /\ J.pub = -1
        /\ J.refs = LRefs(k) /\ J.gates = LGates(k)
    OBVIOUS
  <1>3. IsJob(J)
    <2>1. \A g \in LGates(k) : g[1] \in Ring /\ g[2] \in {"A", "R"}
      BY DEF BGates, LGates
    <2> HIDE DEF J
    <2>2. /\ DOMAIN J = {"st", "arow", "pub", "pl", "x", "refs", "gates"}
          /\ J.st = "ready" /\ J.arow = 0 /\ J.pub = -1
          /\ J.refs = LRefs(k) /\ J.gates = LGates(k)
      BY DEF J
    <2> QED BY <2>1, <2>2 DEF IsJob
  <1> HIDE DEF J
  <1>4. DOMAIN bur' = Ring /\ Alone(k)
    BY <1>1, <1>2 DEF Alone
  <1>5. /\ bur'[k].pc = "rbgate" /\ bur'[k].L = J /\ bur'[k].fired = TRUE
        /\ bur'[k].reads = bur[k].reads \cup PlanesOf(LRefs(k))
        /\ bur'[k].col = Future(LastPoc(k))
        /\ DOMAIN bur'[k] = DOMAIN bur[k]
        /\ \A f \in DOMAIN bur[k] : f \notin {"L", "reads", "pc", "col", "fired"}
                                      => bur'[k][f] = bur[k][f]
    BY <1>1, <1>2 DEF IsBurst
  <1>6. /\ Fixed(bur'[k], bur[k]) /\ bur'[k].A = bur[k].A /\ bur'[k].R = bur[k].R
        /\ bur'[k].refb_done = bur[k].refb_done
    BY <1>2, <1>5 DEF IsBurst, Fixed
  <1>7. IsBurst(bur'[k])
    BY <1>2, <1>3, <1>5, <1>6 DEF IsBurst, Fixed
  <1>8. Bursts'
    BY <1>4, <1>7, BurstsAfter DEF Bursts, Alone
  <1> QED BY <1>1, <1>j, <1>4, <1>5, <1>6, <1>8

\* A job whose state alone changes.
Becomes(q, o, s) == /\ q.st = s /\ q.arow = o.arow /\ q.pub = o.pub /\ SameWork(q, o)

LEMMA EncodeWrites ==
  ASSUME Bursts, cfg' = cfg, NEW k \in Ring, Encode(k)
  PROVE  /\ Bursts' /\ Alone(k) /\ Fixed(bur'[k], bur[k])
         /\ bur[k].pc = "rbgate" /\ bur'[k].pc = "leaf" /\ RbGateOpen(k)
         /\ bur'[k].fired = bur[k].fired /\ bur'[k].refb_done = bur[k].refb_done
         /\ bur'[k].col = bur[k].col /\ bur'[k].reads = bur[k].reads
         /\ bur'[k].A = bur[k].A
         /\ Becomes(bur'[k].R, bur[k].R, IF bur[k].nb > 1 THEN "run" ELSE bur[k].R.st)
         /\ Becomes(bur'[k].L, bur[k].L, "run")
  <1>2. DOMAIN bur = Ring /\ IsBurst(bur[k]) /\ IsJob(bur[k].R) /\ IsJob(bur[k].L)
    BY DEF Bursts, IsBurst
  <1> DEFINE s == IF bur[k].nb > 1 THEN "run" ELSE bur[k].R.st
  <1>0. s \in {"off", "ready", "run", "done"}
    BY <1>2 DEF IsJob
  <1>1. /\ bur[k].pc = "rbgate" /\ RbGateOpen(k)
        /\ bur' = [bur EXCEPT ![k].R.st = IF bur[k].nb > 1 THEN "run" ELSE @, ![k].L.st = "run",
                              ![k].pc = "leaf"]
    <2>1. HasR(k) <=> bur[k].nb > 1
      BY DEF HasR, HasRef
    <2> QED BY <2>1 DEF Encode, Chain
  <1>4. DOMAIN bur' = Ring /\ Alone(k)
    BY <1>1, <1>2 DEF Alone
  <1>5. /\ bur'[k].pc = "leaf"
        /\ bur'[k].R = [bur[k].R EXCEPT !.st = IF bur[k].nb > 1 THEN "run" ELSE @]
        /\ bur'[k].L = [bur[k].L EXCEPT !.st = "run"]
        /\ DOMAIN bur'[k] = DOMAIN bur[k]
        /\ \A f \in DOMAIN bur[k] : f \notin {"L", "R", "pc"} => bur'[k][f] = bur[k][f]
    BY <1>1, <1>2 DEF IsBurst
  <1>6. /\ Fixed(bur'[k], bur[k]) /\ bur'[k].A = bur[k].A
        /\ bur'[k].fired = bur[k].fired /\ bur'[k].refb_done = bur[k].refb_done
        /\ bur'[k].col = bur[k].col /\ bur'[k].reads = bur[k].reads
    BY <1>2, <1>5 DEF IsBurst, Fixed
  <1> HIDE DEF s
  <1>7. /\ Becomes(bur'[k].R, bur[k].R, s) /\ Becomes(bur'[k].L, bur[k].L, "run")
        /\ DOMAIN bur'[k].R = DOMAIN bur[k].R /\ DOMAIN bur'[k].L = DOMAIN bur[k].L
    BY <1>2, <1>5 DEF IsJob, Becomes, SameWork, s
  <1>8. IsJob(bur'[k].R) /\ IsJob(bur'[k].L)
    BY <1>0, <1>2, <1>7 DEF IsJob, Becomes, SameWork
  <1>9. IsBurst(bur'[k])
    BY <1>2, <1>5, <1>6, <1>8 DEF IsBurst, Fixed
  <1>10. Bursts'
    BY <1>4, <1>9, BurstsAfter DEF Bursts, Alone
  <1> QED BY <1>1, <1>4, <1>5, <1>6, <1>7, <1>10 DEF s

LEMMA LeafDoneWrites ==
  ASSUME Bursts, cfg' = cfg, NEW k \in Ring, LeafDone(k)
  PROVE  /\ Bursts' /\ Alone(k) /\ Fixed(bur'[k], bur[k])
         /\ bur[k].pc = "leaf" /\ bur'[k].pc = "join"
         /\ bur[k].L.arow = Rows /\ (bur[k].nb > 1 => bur[k].R.st = "done")
         /\ bur'[k].fired = bur[k].fired /\ bur'[k].refb_done = bur[k].refb_done
         /\ bur'[k].col = bur[k].col /\ bur'[k].reads = bur[k].reads
         /\ bur'[k].A = bur[k].A /\ bur'[k].R = bur[k].R
         /\ Becomes(bur'[k].L, bur[k].L, "done")
  <1>2. DOMAIN bur = Ring /\ IsBurst(bur[k]) /\ IsJob(bur[k].L)
    BY DEF Bursts, IsBurst
  <1>1. /\ bur[k].pc = "leaf" /\ bur[k].L.arow = Rows /\ (bur[k].nb > 1 => bur[k].R.st = "done")
        /\ bur' = [bur EXCEPT ![k].L.st = "done", ![k].pc = "join",
                              ![k].err = cfg.fail = <<bur[k].n, "R">>]
    <2>1. HasR(k) <=> bur[k].nb > 1
      BY DEF HasR, HasRef
    <2> QED BY <2>1 DEF LeafDone, Chain
  <1>4. DOMAIN bur' = Ring /\ Alone(k)
    BY <1>1, <1>2 DEF Alone
  <1>5. /\ bur'[k].pc = "join"
        /\ bur'[k].L = [bur[k].L EXCEPT !.st = "done"]
        /\ DOMAIN bur'[k] = DOMAIN bur[k]
        /\ \A f \in DOMAIN bur[k] : f \notin {"L", "pc", "err"} => bur'[k][f] = bur[k][f]
    BY <1>1, <1>2 DEF IsBurst
  <1>6. /\ Fixed(bur'[k], bur[k]) /\ bur'[k].A = bur[k].A /\ bur'[k].R = bur[k].R
        /\ bur'[k].fired = bur[k].fired /\ bur'[k].refb_done = bur[k].refb_done
        /\ bur'[k].col = bur[k].col /\ bur'[k].reads = bur[k].reads
    BY <1>2, <1>5 DEF IsBurst, Fixed
  <1>7. Becomes(bur'[k].L, bur[k].L, "done") /\ DOMAIN bur'[k].L = DOMAIN bur[k].L
    BY <1>2, <1>5 DEF IsJob, Becomes, SameWork
  <1>8. IsJob(bur'[k].L)
    BY <1>2, <1>7 DEF IsJob, Becomes, SameWork
  <1>9. IsBurst(bur'[k])
    BY <1>2, <1>5, <1>6, <1>8 DEF IsBurst, Fixed
  <1>10. Bursts'
    BY <1>4, <1>9, BurstsAfter DEF Bursts, Alone
  <1> QED BY <1>1, <1>4, <1>5, <1>6, <1>7, <1>10, Zenon

LEMMA JoinWrites ==
  ASSUME Bursts, cfg' = cfg, Rows \in Nat, NEW k \in Ring, Join(k)
  PROVE  /\ Bursts' /\ Alone(k) /\ Fixed(bur'[k], bur[k])
         /\ bur[k].pc = "join" /\ bur'[k].pc = "idle"
         /\ bur'[k].fired = bur[k].fired
         /\ bur'[k].refb_done = IF bur[k].nb > 1 THEN 1 ELSE 0
         /\ bur'[k].col = bur[k].col /\ bur'[k].reads = bur[k].reads
         /\ bur'[k].A = bur[k].A /\ bur'[k].L = bur[k].L
         /\ bur'[k].R.st = bur[k].R.st /\ bur'[k].R.arow = bur[k].R.arow
         /\ SameWork(bur'[k].R, bur[k].R)
         /\ bur'[k].R.pub = IF bur[k].nb > 1 THEN Rows ELSE bur[k].R.pub
  <1>2. DOMAIN bur = Ring /\ IsBurst(bur[k]) /\ IsJob(bur[k].R)
    BY DEF Bursts, IsBurst
  <1>1. /\ bur[k].pc = "join" /\ (LeafLost(k) \/ bur[k].A.st = "done")
        /\ \E v : bur' = [bur EXCEPT ![k].err = v,
                                    ![k].refb_done = HasRef(bur[k]), ![k].pc = "idle",
                                    ![k].R.pub = IF bur[k].nb > 1 THEN Rows ELSE @]
        /\ HasRef(bur[k]) = IF bur[k].nb > 1 THEN 1 ELSE 0
    <2>1. HasR(k) <=> bur[k].nb > 1
      BY DEF HasR, HasRef
    <2>2. \E v : bur' = [bur EXCEPT ![k].err = v,
                                  ![k].refb_done = HasRef(bur[k]), ![k].pc = "idle",
                                  ![k].R.pub = IF HasR(k) THEN Rows ELSE @]
      BY Zenon DEF Join
    <2> QED BY <2>1, <2>2, Zenon DEF Join, Chain, HasRef
  <1>4. DOMAIN bur' = Ring /\ Alone(k)
    BY <1>1, <1>2 DEF Alone
  <1>5. /\ bur'[k].pc = "idle" /\ bur'[k].refb_done = HasRef(bur[k])
        /\ bur'[k].R = [bur[k].R EXCEPT !.pub = IF bur[k].nb > 1 THEN Rows ELSE @]
        /\ DOMAIN bur'[k] = DOMAIN bur[k]
        /\ \A f \in DOMAIN bur[k] :
              f \notin {"R", "pc", "err", "refb_done"} => bur'[k][f] = bur[k][f]
    BY <1>1, <1>2 DEF IsBurst
  <1>6. /\ Fixed(bur'[k], bur[k]) /\ bur'[k].A = bur[k].A /\ bur'[k].L = bur[k].L
        /\ bur'[k].fired = bur[k].fired
        /\ bur'[k].col = bur[k].col /\ bur'[k].reads = bur[k].reads
    BY <1>2, <1>5 DEF IsBurst, Fixed
  <1>7. /\ bur'[k].R.pub = IF bur[k].nb > 1 THEN Rows ELSE bur[k].R.pub
        /\ DOMAIN bur'[k].R = DOMAIN bur[k].R
        /\ \A f \in DOMAIN bur[k].R : f # "pub" => bur'[k].R[f] = bur[k].R[f]
    BY <1>2, <1>5 DEF IsJob
  <1>8. IsJob(bur'[k].R)
    BY <1>2, <1>7 DEF IsJob
  <1>9. IsBurst(bur'[k])
    BY <1>1, <1>2, <1>5, <1>6, <1>8 DEF IsBurst, Fixed
  <1>10. Bursts'
    BY <1>4, <1>9, BurstsAfter DEF Bursts, Alone
  <1>11. /\ bur'[k].R.st = bur[k].R.st /\ bur'[k].R.arow = bur[k].R.arow
         /\ SameWork(bur'[k].R, bur[k].R)
    BY <1>2, <1>7 DEF IsJob, SameWork
  <1> QED BY <1>1, <1>4, <1>5, <1>6, <1>7, <1>10, <1>11

-----------------------------------------------------------------------------
(* What the API thread writes.                                              *)

AnchorRefs == {Ref(s, dpb[s].pic \in Clamped) : s \in List0P}
ColRefs == IF HasCol THEN {Ref(bur[fly].col, dpb[bur[fly].col].pic[2] = "A")} ELSE {}
AnchorGates == IF fly = None THEN {}
               ELSE {<<fly, "A">>} \cup (IF fly # None /\ Gated(fly) THEN {<<fly, "R">>} ELSE {})

LEMMA PrepWrites ==
  ASSUME Bursts, cfg \in Shapes, cfg' = cfg, Prep, fly # None => fly \in Ring,
         n \in 1 .. Len(cfg.script) + 1, Next_slot \in Ring
  PROVE  /\ Bursts' /\ Alone(Next_slot)
         /\ LET k == Next_slot IN
            /\ bur'[k].n = bur[k].n /\ bur'[k].nb = cfg.script[n] /\ bur'[k].live = bur[k].live
            /\ bur'[k].fired = bur[k].fired /\ bur'[k].pc = bur[k].pc
            /\ bur'[k].refb_done = bur[k].refb_done
            /\ bur'[k].A.st = "ready" /\ bur'[k].A.pl = rec
            /\ bur'[k].A.refs = AnchorRefs \cup ColRefs /\ bur'[k].A.gates = AnchorGates
            /\ bur'[k].A.pub = bur[k].A.pub /\ bur'[k].A.arow = bur[k].A.arow
            /\ bur'[k].R.st = "off" /\ bur'[k].R.pub = bur[k].R.pub
            /\ bur'[k].L.st = "off"
            /\ bur'[k].R.refs = bur[k].R.refs /\ bur'[k].L.refs = bur[k].L.refs
            /\ bur'[k].prevP = (IF cfg.wide THEN fly ELSE None)
            /\ bur'[k].rbgate = (IF fly # None /\ Gated(fly) THEN fly ELSE None)
            /\ bur'[k].rbseq = (IF fly # None /\ Gated(fly) THEN bur[fly].n ELSE 0)
            /\ bur'[k].reads = PlanesOf(AnchorRefs) /\ bur'[k].col = None
         /\ apc = "ready" /\ n <= Len(cfg.script) /\ cfg.script[n] \in 1 .. 3
         /\ SerialDone /\ RingRoom /\ RefbWaited
         /\ apc' = "begin"
  <1> DEFINE k == Next_slot
             g == fly # None /\ Gated(fly)
             refs == AnchorRefs \cup ColRefs
  <1>1. DOMAIN bur = Ring /\ IsBurst(bur[k]) /\ IsJob(bur[k].A) /\ IsJob(bur[k].R)
        /\ IsJob(bur[k].L)
    BY DEF Bursts, IsBurst
  <1>2. apc = "ready" /\ n <= Len(cfg.script) /\ cfg.script[n] \in 1 .. 3
    <2>1. Arriving /\ ~Serial /\ apc = "ready"
      BY PrepFrame
    <2>2. cfg.script[n] \in -1 .. 3
      BY <2>1, ShapeFacts DEF Arriving
    <2> QED BY <2>1, <2>2 DEF Arriving, Serial, Idr
  <1>3. bur' = [bur EXCEPT ![k] = Prepared(@, refs, AnchorGates, PlanesOf(AnchorRefs), g)]
    BY Zenon DEF Prep, AnchorRefs, ColRefs, AnchorGates
  <1> HIDE DEF k, g
  <1>v. PICK a, r, l, pp, rg, rs, rd, nb :
          /\ a = [bur[k].A EXCEPT !.st = "ready", !.pl = rec, !.refs = refs,
                                  !.gates = AnchorGates]
          /\ r = [bur[k].R EXCEPT !.st = "off"] /\ l = [bur[k].L EXCEPT !.st = "off"]
          /\ pp = (IF cfg.wide THEN fly ELSE None)
          /\ rg = (IF g THEN fly ELSE None) /\ rs = (IF g THEN bur[fly].n ELSE 0)
          /\ rd = PlanesOf(AnchorRefs) /\ nb = cfg.script[n]
    BY Zenon
  <1>c. PICK c : c = Prepared(bur[k], refs, AnchorGates, PlanesOf(AnchorRefs), g)
    OBVIOUS
  <1>w. bur' = [bur EXCEPT ![k] = c]
    BY ONLY <1>3, <1>c
  <1>u. c = [bur[k] EXCEPT !.A = [@ EXCEPT !.st = "ready", !.pl = rec, !.refs = refs,
                                           !.gates = AnchorGates],
                           !.R.st = "off", !.L.st = "off", !.nb = cfg.script[n],
                           !.prevP = IF cfg.wide THEN fly ELSE None,
                           !.rbgate = IF g THEN fly ELSE None,
                           !.rbseq = IF g THEN bur[fly].n ELSE 0,
                           !.reads = PlanesOf(AnchorRefs), !.col = None, !.err = FALSE]
    BY ONLY <1>c, Zenon DEF Prepared
  <1>x. k \in Ring
    BY DEF k
  <1>4. DOMAIN bur' = Ring /\ Alone(k) /\ bur'[k] = c
    BY <1>1, <1>w, <1>x DEF Alone
  <1>y. DOMAIN bur[k] = {"n", "nb", "live", "fired", "pc", "A", "R", "L", "refb_done", "prevP",
                         "rbgate", "rbseq", "reads", "col", "err"}
    BY <1>1 DEF IsBurst
  <1>y1. c.A = a /\ c.R = r /\ c.L = l
    BY ONLY <1>y, <1>u, <1>v
  <1>y2. /\ DOMAIN c = DOMAIN bur[k] /\ c.nb = nb
         /\ c.prevP = pp /\ c.rbgate = rg /\ c.rbseq = rs /\ c.reads = rd /\ c.col = None
    <2>1. DOMAIN c = DOMAIN bur[k] /\ c.reads = rd /\ c.col = None
      BY ONLY <1>y, <1>u, <1>v, Zenon
    <2>2. c.nb = nb /\ c.prevP = pp
      BY ONLY <1>y, <1>u, <1>v
    <2>3. c.rbgate = rg /\ c.rbseq = rs
      BY ONLY <1>y, <1>u, <1>v
    <2> QED BY ONLY <2>1, <2>2, <2>3
  <1>y3. /\ c.n = bur[k].n /\ c.live = bur[k].live /\ c.fired = bur[k].fired
         /\ c.pc = bur[k].pc /\ c.refb_done = bur[k].refb_done
    BY ONLY <1>y, <1>u, SMTT(30)
  <1>5. /\ bur'[k] = c /\ DOMAIN c = DOMAIN bur[k]
        /\ c.nb = nb /\ c.A = a /\ c.R = r /\ c.L = l
        /\ c.prevP = pp /\ c.rbgate = rg /\ c.rbseq = rs
        /\ c.reads = rd /\ c.col = None
        /\ c.n = bur[k].n /\ c.live = bur[k].live /\ c.fired = bur[k].fired
        /\ c.pc = bur[k].pc /\ c.refb_done = bur[k].refb_done
    BY ONLY <1>4, <1>y1, <1>y2, <1>y3
  <1> HIDE DEF refs
  <1>6. /\ c.A.st = "ready" /\ c.A.pl = rec /\ c.A.refs = refs /\ c.A.gates = AnchorGates
        /\ c.A.pub = bur[k].A.pub /\ c.A.arow = bur[k].A.arow /\ DOMAIN c.A = DOMAIN bur[k].A
    BY <1>1, <1>5, <1>v DEF IsJob
  <1>7. /\ c.R.st = "off" /\ DOMAIN c.R = DOMAIN bur[k].R
        /\ \A f \in DOMAIN bur[k].R : f # "st" => c.R[f] = bur[k].R[f]
    BY <1>1, <1>5, <1>v DEF IsJob
  <1>8. /\ c.L.st = "off" /\ DOMAIN c.L = DOMAIN bur[k].L
        /\ \A f \in DOMAIN bur[k].L : f # "st" => c.L[f] = bur[k].L[f]
    BY <1>1, <1>5, <1>v DEF IsJob
  <1>9. IsJob(c.A)
    <2>1. \A h \in AnchorGates : h[1] \in Ring /\ h[2] \in {"A", "R"}
      BY DEF AnchorGates
    <2> QED BY <1>1, <1>6, <2>1 DEF IsJob
  <1>10. IsJob(c.R) /\ IsJob(c.L)
    BY <1>1, <1>7, <1>8 DEF IsJob
  <1>11. IsBurst(c)
    BY <1>1, <1>2, <1>5, <1>v, <1>9, <1>10 DEF IsBurst
  <1>12. Bursts'
    BY <1>4, <1>5, <1>11, BurstsAfter DEF Bursts, Alone
  <1>13. SerialDone /\ RingRoom /\ RefbWaited /\ apc' = "begin"
    BY PrepFrame
  <1>14. c.R.pub = bur[k].R.pub /\ c.R.refs = bur[k].R.refs /\ c.L.refs = bur[k].L.refs
    BY <1>1, <1>7, <1>8 DEF IsJob
  <1>15. g <=> fly # None /\ Gated(fly)
    BY DEF g
  <1>16. refs = AnchorRefs \cup ColRefs /\ k = Next_slot
    BY DEF refs, k
  <1> HIDE DEF g, refs, k
  <1>17. /\ bur'[k].rbgate = (IF fly # None /\ Gated(fly) THEN fly ELSE None)
         /\ bur'[k].rbseq = (IF fly # None /\ Gated(fly) THEN bur[fly].n ELSE 0)
         /\ bur'[k].prevP = (IF cfg.wide THEN fly ELSE None)
    BY ONLY <1>5, <1>v, <1>15
  <1>18. /\ bur'[k].n = bur[k].n /\ bur'[k].nb = cfg.script[n] /\ bur'[k].live = bur[k].live
         /\ bur'[k].fired = bur[k].fired /\ bur'[k].pc = bur[k].pc
         /\ bur'[k].refb_done = bur[k].refb_done
         /\ bur'[k].reads = PlanesOf(AnchorRefs) /\ bur'[k].col = None
    BY ONLY <1>5, <1>v
  <1>19. /\ bur'[k].A.st = "ready" /\ bur'[k].A.pl = rec
         /\ bur'[k].A.refs = AnchorRefs \cup ColRefs /\ bur'[k].A.gates = AnchorGates
         /\ bur'[k].A.pub = bur[k].A.pub /\ bur'[k].A.arow = bur[k].A.arow
         /\ bur'[k].R.st = "off" /\ bur'[k].R.pub = bur[k].R.pub
         /\ bur'[k].L.st = "off"
         /\ bur'[k].R.refs = bur[k].R.refs /\ bur'[k].L.refs = bur[k].L.refs
    BY ONLY <1>5, <1>6, <1>7, <1>8, <1>14, <1>16
  <1> QED BY ONLY <1>2, <1>4, <1>12, <1>13, <1>16, <1>17, <1>18, <1>19, Zenon

LEMMA BeginWrites ==
  ASSUME Bursts, cfg \in Shapes, cfg' = cfg, Begin, Next_slot \in Ring, n \in Nat
  PROVE  /\ Bursts' /\ Alone(Next_slot)
         /\ LET k == Next_slot IN
            /\ bur'[k].n = n /\ bur'[k].nb = bur[k].nb /\ bur'[k].live = TRUE
            /\ bur'[k].refb_done = 0
            /\ IF Waits THEN bur'[k].fired = bur[k].fired /\ bur'[k].pc = bur[k].pc
                        ELSE bur'[k].fired = FALSE /\ bur'[k].pc = "prep"
            /\ bur'[k].A.st = "run" /\ bur'[k].A.pl = bur[k].A.pl /\ bur'[k].A.x = NewX
            /\ bur'[k].A.refs = bur[k].A.refs /\ bur'[k].A.gates = bur[k].A.gates
            /\ bur'[k].A.pub = -1 /\ bur'[k].A.arow = 0
            /\ bur'[k].R = bur[k].R /\ bur'[k].L = bur[k].L
            /\ bur'[k].prevP = bur[k].prevP
            /\ bur'[k].rbgate = bur[k].rbgate /\ bur'[k].rbseq = bur[k].rbseq
            /\ bur'[k].reads = bur[k].reads /\ bur'[k].col = bur[k].col
         /\ apc = "begin" /\ cur' = Next_slot /\ fly' = Next_slot /\ nlive' = nlive + 1
         /\ IF Waits THEN apc' = "retire" /\ n' = n ELSE apc' = "ready" /\ n' = n + 1
         /\ Commit(rec, <<n, "A">>)
  <1> DEFINE k == Next_slot
             l == Launched(bur[k])
  <1>1. DOMAIN bur = Ring /\ IsBurst(bur[k]) /\ IsJob(bur[k].A) /\ Rows \in Nat
    BY ShapeFacts DEF Bursts, IsBurst
  <1>2. bur' = [bur EXCEPT ![k] = IF Waits THEN l ELSE Armed(l)]
    BY DEF Begin
  <1>3. /\ DOMAIN l = DOMAIN bur[k]
        /\ l.A = [bur[k].A EXCEPT !.st = "run", !.arow = 0, !.pub = -1, !.x = NewX]
        /\ l.n = n /\ l.live = TRUE /\ l.refb_done = 0
        /\ \A f \in DOMAIN bur[k] : f \notin {"A", "n", "live", "refb_done"} => l[f] = bur[k][f]
    BY <1>1 DEF Launched, IsBurst
  <1> HIDE DEF l, k
  <1>w. Waits \in BOOLEAN /\ k \in Ring
    BY DEF Waits, k
  <1>x. PICK c : c = IF Waits THEN l ELSE Armed(l)
    OBVIOUS
  <1>x1. bur'[k] = c
    BY <1>1, <1>2, <1>w, <1>x
  <1>y. DOMAIN bur[k] = {"n", "nb", "live", "fired", "pc", "A", "R", "L", "refb_done", "prevP",
                         "rbgate", "rbseq", "reads", "col", "err"}
    BY <1>1 DEF IsBurst
  <1>4. /\ c = bur'[k] /\ DOMAIN c = DOMAIN bur[k]
        /\ IF Waits THEN c.fired = l.fired /\ c.pc = l.pc
                    ELSE c.fired = FALSE /\ c.pc = "prep"
        /\ \A f \in DOMAIN bur[k] : f \notin {"fired", "pc"} => c[f] = l[f]
    BY <1>3, <1>x, <1>x1, <1>y DEF Armed
  <1>5. DOMAIN bur' = Ring /\ Alone(k)
    BY <1>1, <1>2 DEF Alone, k
  <1>6. /\ l.A.st = "run" /\ l.A.arow = 0 /\ l.A.pub = -1 /\ l.A.x = NewX
        /\ l.A.pl = bur[k].A.pl /\ l.A.refs = bur[k].A.refs /\ l.A.gates = bur[k].A.gates
        /\ DOMAIN l.A = DOMAIN bur[k].A
    BY <1>1, <1>3 DEF IsJob
  <1>7. IsJob(l.A)
    BY <1>1, <1>6 DEF IsJob
  <1>8. /\ c.n = n /\ c.nb = bur[k].nb /\ c.live = TRUE /\ c.refb_done = 0
        /\ IF Waits THEN c.fired = bur[k].fired /\ c.pc = bur[k].pc
                    ELSE c.fired = FALSE /\ c.pc = "prep"
        /\ c.A = l.A /\ c.R = bur[k].R /\ c.L = bur[k].L /\ c.prevP = bur[k].prevP
        /\ c.rbgate = bur[k].rbgate /\ c.rbseq = bur[k].rbseq
        /\ c.reads = bur[k].reads /\ c.col = bur[k].col
    BY <1>1, <1>3, <1>4 DEF IsBurst
  <1>9. IsBurst(c)
    <2>1. c.fired \in BOOLEAN /\ c.live \in BOOLEAN
      <3>1. bur[k].fired \in BOOLEAN
        BY <1>1 DEF IsBurst
      <3> QED BY <1>8, <1>w, <3>1
    <2> QED BY <1>1, <1>4, <1>7, <1>8, <2>1 DEF IsBurst
  <1>10. Bursts'
    BY <1>4, <1>5, <1>9, BurstsAfter DEF Bursts, Alone
  <1>11. /\ apc = "begin" /\ cur' = Next_slot /\ fly' = Next_slot /\ nlive' = nlive + 1
         /\ IF Waits THEN apc' = "retire" /\ n' = n ELSE apc' = "ready" /\ n' = n + 1
         /\ Commit(rec, <<n, "A">>)
    BY DEF Begin
  <1> QED BY <1>4, <1>5, <1>6, <1>8, <1>10, <1>11, Zenon DEF k

LEMMA DrainWrites ==
  ASSUME Bursts, cfg \in Shapes, cfg' = cfg, Drain, Oldest \in Ring
  PROVE  /\ Bursts'
         /\ \A m \in Ring :
              /\ bur'[m].live = (m # Oldest /\ bur[m].live)
              /\ bur'[m].n = bur[m].n /\ bur'[m].nb = bur[m].nb
              /\ bur'[m].A = bur[m].A /\ bur'[m].R = bur[m].R /\ bur'[m].L = bur[m].L
              /\ bur'[m].refb_done = bur[m].refb_done /\ bur'[m].prevP = bur[m].prevP
              /\ bur'[m].rbgate = bur[m].rbgate /\ bur'[m].rbseq = bur[m].rbseq
              /\ bur'[m].reads = bur[m].reads /\ bur'[m].col = bur[m].col
              /\ IF m # Oldest /\ apc = "retire" /\ m = fly
                 THEN bur'[m].fired = FALSE /\ bur'[m].pc = "prep"
                 ELSE bur'[m].fired = bur[m].fired /\ bur'[m].pc = bur[m].pc
         /\ bur[Oldest].pc = "idle" /\ DrainDue
         /\ nlive' = nlive - 1 /\ fly' = (IF nlive = 1 THEN None ELSE fly) /\ cur' = cur
         /\ apc' \in {"failing", "ready"}
         /\ n' = IF apc = "retire" THEN n + 1 ELSE n
  <1> DEFINE k == Oldest
  <1>1. bur' = [j \in Ring |-> IF j = k THEN [bur[j] EXCEPT !.live = FALSE]
                               ELSE IF apc = "retire" /\ j = fly THEN Armed(bur[j])
                               ELSE bur[j]]
    BY DEF Drain
  <1>2. /\ bur[k].pc = "idle" /\ DrainDue
        /\ nlive' = nlive - 1 /\ fly' = (IF nlive = 1 THEN None ELSE fly) /\ cur' = cur
        /\ apc' \in {"failing", "ready"}
        /\ n' = IF apc = "retire" THEN n + 1 ELSE n
    BY DEF Drain
  <1> HIDE DEF k
  <1>3. ASSUME NEW m \in Ring
        PROVE  /\ bur'[m].live = (m # k /\ bur[m].live)
               /\ bur'[m].n = bur[m].n /\ bur'[m].nb = bur[m].nb
               /\ bur'[m].A = bur[m].A /\ bur'[m].R = bur[m].R /\ bur'[m].L = bur[m].L
               /\ bur'[m].refb_done = bur[m].refb_done /\ bur'[m].prevP = bur[m].prevP
               /\ bur'[m].rbgate = bur[m].rbgate /\ bur'[m].rbseq = bur[m].rbseq
               /\ bur'[m].reads = bur[m].reads /\ bur'[m].col = bur[m].col
               /\ IF m # k /\ apc = "retire" /\ m = fly
                  THEN bur'[m].fired = FALSE /\ bur'[m].pc = "prep"
                  ELSE bur'[m].fired = bur[m].fired /\ bur'[m].pc = bur[m].pc
               /\ IsBurst(bur'[m])
    <2>0. IsBurst(bur[m])
      BY DEF Bursts
    <2>1. CASE m = k
      <3>1. bur'[m] = [bur[m] EXCEPT !.live = FALSE]
        BY <1>1, <2>1
      <3>2. /\ DOMAIN bur'[m] = DOMAIN bur[m] /\ bur'[m].live = FALSE
            /\ \A f \in DOMAIN bur[m] : f # "live" => bur'[m][f] = bur[m][f]
        BY <2>0, <3>1 DEF IsBurst
      <3> QED BY <2>0, <2>1, <3>2 DEF IsBurst
    <2>2. CASE m # k /\ apc = "retire" /\ m = fly
      <3>1. bur'[m] = Armed(bur[m])
        BY <1>1, <2>2
      <3>2. /\ DOMAIN bur'[m] = DOMAIN bur[m] /\ bur'[m].fired = FALSE /\ bur'[m].pc = "prep"
            /\ \A f \in DOMAIN bur[m] : f \notin {"fired", "pc"} => bur'[m][f] = bur[m][f]
        BY <2>0, <3>1 DEF IsBurst, Armed
      <3> QED BY <2>0, <2>2, <3>2 DEF IsBurst
    <2>3. CASE m # k /\ ~(apc = "retire" /\ m = fly)
      <3>1. bur'[m] = bur[m]
        BY <1>1, <2>3
      <3> QED BY <2>0, <2>3, <3>1 DEF IsBurst
    <2> QED BY <2>1, <2>2, <2>3
  <1>4. Bursts'
    BY <1>1, <1>3, BurstsAfter DEF Bursts
  <1> QED BY <1>2, <1>3, <1>4 DEF k

-----------------------------------------------------------------------------
(* The order of the ring: the live bursts are the last nlive launched.       *)

\* How many launches ago a slot's burst was launched.
Age(k) == IF k <= cur THEN cur - k ELSE (cur - k) + K
Preparing(b) == b.pc \in {"prep", "prepL"}

Turn ==
    /\ apc \in {"ready", "begin", "retire", "failing", "closed"}
    /\ n \in 1 .. Len(cfg.script) + 1
    /\ cur \in Ring /\ nlive \in 0 .. K
    /\ fly = IF nlive = 0 THEN None ELSE cur
    /\ ~cfg.wide => nlive <= (IF apc = "retire" THEN 2 ELSE 1)
    /\ apc = "retire" => ~cfg.wide /\ nlive = 2
    /\ apc = "begin" => nlive < K
    /\ apc \in {"begin", "retire"} => n <= Len(cfg.script) /\ cfg.script[n] \in 1 .. 3
InRing(k) ==
    LET b == bur[k]
    IN  /\ b.live <=> Age(k) < nlive
        /\ b.live => /\ b.n = Last - Age(k) /\ b.n \in 1 .. Len(cfg.script)
                     /\ b.nb = cfg.script[b.n] /\ b.nb > 0
        /\ ~b.live => b.pc = "idle"
        /\ Preparing(b) => k = cur /\ ~b.fired /\ apc \in {"ready", "failing"}
        /\ apc = "retire" /\ k = cur => b.pc = "idle"
        /\ apc = "begin" /\ k = Next_slot => b.nb = cfg.script[n]
Order == Turn /\ \A k \in Ring : InRing(k)

LEMMA RingFacts ==
  ASSUME cfg \in Shapes, cur \in Ring
  PROVE  /\ K \in Nat /\ K > 1
         /\ Next_slot \in Ring /\ Next_slot # cur
         /\ Next_slot = IF cur = K - 1 THEN 0 ELSE cur + 1
         /\ Age(cur) = 0 /\ Age(Next_slot) = K - 1
         /\ \A k \in Ring : Age(k) \in 0 .. K - 1
         /\ \A k, m \in Ring : Age(k) = Age(m) => k = m
  <1>1. K \in Nat /\ K > 1 /\ cur \in 0 .. K - 1
    BY ShapeFacts DEF Ring
  <1>2. Next_slot = IF cur = K - 1 THEN 0 ELSE cur + 1
    <2>1. CASE cur = K - 1
      <3>1. K % K = 0
        BY <1>1
      <3> QED BY <1>1, <2>1, <3>1 DEF Next_slot
    <2>2. CASE cur # K - 1
      BY <1>1, <2>2 DEF Next_slot
    <2> QED BY <2>1, <2>2
  <1>3. Next_slot \in Ring /\ Next_slot # cur
    BY <1>1, <1>2 DEF Ring
  <1> QED BY <1>1, <1>2, <1>3 DEF Age, Ring

\* The oldest live burst was launched nlive - 1 launches ago.
LEMMA OldestIs ==
  ASSUME cfg \in Shapes, Order, nlive > 0
  PROVE  Oldest \in Ring /\ Age(Oldest) = nlive - 1 /\ bur[Oldest].live
  <1>0. nlive \in Nat /\ nlive <= K /\ cur \in Ring /\ K \in Nat
    BY ShapeFacts DEF Order, Turn
  <1>1. PICK o \in Ring : Age(o) = nlive - 1
    <2> DEFINE o == IF nlive - 1 <= cur THEN cur - (nlive - 1) ELSE (cur - (nlive - 1)) + K
    <2>1. o \in Ring /\ Age(o) = nlive - 1
      BY <1>0 DEF Ring, Age
    <2> QED BY <2>1
  <1>2. \A k \in Live : k \in Ring /\ Age(k) \in 0 .. nlive - 1 /\ bur[k].n = Last - Age(k)
    BY <1>0, RingFacts DEF Order, InRing, Live
  <1>3. Last \in Int
    BY DEF Last, Order, Turn
  <1>4. o \in Live /\ \A j \in Live : bur[o].n <= bur[j].n
    <2>1. o \in Live
      BY <1>0, <1>1 DEF Order, InRing, Live
    <2> QED BY <1>0, <1>1, <1>2, <1>3, <2>1
  <1>5. Oldest \in Live /\ \A j \in Live : bur[Oldest].n <= bur[j].n
    BY <1>4 DEF Oldest
  <1>6. Age(Oldest) = nlive - 1
    BY <1>0, <1>1, <1>2, <1>3, <1>4, <1>5
  <1> QED BY <1>5, <1>6 DEF Live

\* The burst launched last is alive exactly when there is one in flight.
LEMMA FlyIs ==
  ASSUME cfg \in Shapes, Order, fly # None
  PROVE  /\ fly = cur /\ fly \in Ring /\ nlive > 0 /\ bur[cur].live
         /\ bur[cur].n = Last /\ Last \in 1 .. Len(cfg.script)
         /\ bur[cur].nb = cfg.script[Last]
  <1>1. fly = cur /\ cur \in Ring /\ nlive \in Nat /\ nlive > 0
    BY DEF Order, Turn
  <1>2. Age(cur) = 0
    BY <1>1, RingFacts
  <1>3. bur[cur].live /\ bur[cur].n = Last - 0
    BY <1>1, <1>2 DEF Order, InRing
  <1> QED BY <1>1, <1>3 DEF Order, InRing, Last, Turn

LEMMA OrderAfter ==
  ASSUME cfg' = cfg, Turn', \A k \in Ring : InRing(k)' PROVE Order'
  BY DEF Order, Ring

\* A step of a thread: the place in the ring stays, and a chain moves on.
LEMMA OrderSame ==
  ASSUME cfg' = cfg, cfg \in Shapes, Order, Bursts',
         UNCHANGED <<apc, n, cur, fly, nlive>>,
         NEW k \in Ring, Alone(k), Fixed(bur'[k], bur[k]),
         bur'[k].pc = bur[k].pc \/ (bur[k].live /\ apc # "retire")
                                \/ (bur[k].pc # "idle"),
         Preparing(bur'[k]) => Preparing(bur[k]) /\ bur'[k].fired = bur[k].fired
  PROVE  Order'
  <1>2. ASSUME NEW m \in Ring
        PROVE  /\ bur'[m].live = bur[m].live /\ bur'[m].n = bur[m].n /\ bur'[m].nb = bur[m].nb
               /\ ~bur[m].live \/ (apc = "retire" /\ m = cur) => bur'[m].pc = "idle"
               /\ Preparing(bur'[m]) => Preparing(bur[m]) /\ bur'[m].fired = bur[m].fired
    <2>1. ~bur[m].live \/ (apc = "retire" /\ m = cur) => bur[m].pc = "idle"
      BY DEF Order, InRing
    <2> QED BY <2>1 DEF Alone, Fixed
  <1>3. Last' = Last /\ Next_slot' = Next_slot
    BY DEF Last, Next_slot
  <1>4. ASSUME NEW m \in Ring PROVE InRing(m)'
    <2>1. Age(m)' = Age(m)
      BY DEF Age
    <2>2. InRing(m)
      BY DEF Order
    <2> QED BY <1>2, <1>3, <2>1, <2>2 DEF InRing, Preparing
  <1>5. Turn'
    BY DEF Order, Turn, Ring
  <1> QED BY <1>4, <1>5, OrderAfter

LEMMA OrderPrep ==
  ASSUME cfg' = cfg, cfg \in Shapes, Order, Bursts, Prep PROVE Order'
  <1>0. cur \in Ring /\ nlive \in 0 .. K /\ n \in 1 .. Len(cfg.script) + 1 /\ K \in Nat /\ K > 1
    BY ShapeFacts DEF Order, Turn
  <1>1. Next_slot \in Ring /\ Next_slot # cur /\ (fly # None => fly \in Ring)
    BY <1>0, RingFacts, FlyIs
  <1>2. /\ Bursts' /\ Alone(Next_slot)
        /\ bur'[Next_slot].n = bur[Next_slot].n /\ bur'[Next_slot].nb = cfg.script[n]
        /\ bur'[Next_slot].live = bur[Next_slot].live
        /\ bur'[Next_slot].fired = bur[Next_slot].fired /\ bur'[Next_slot].pc = bur[Next_slot].pc
        /\ apc = "ready" /\ n <= Len(cfg.script) /\ cfg.script[n] \in 1 .. 3
        /\ SerialDone /\ RingRoom /\ apc' = "begin"
    BY <1>0, <1>1, PrepWrites
  <1>3. UNCHANGED <<n, cur, fly, nlive>>
    BY PrepFrame
  <1>4. nlive < K
    BY <1>0, <1>2 DEF RingRoom, Order, Turn
  <1>5. Age(Next_slot) = K - 1
    BY <1>0, RingFacts
  <1>6. ~bur[Next_slot].live
    BY <1>0, <1>1, <1>4, <1>5 DEF Order, InRing
  <1>7. ~Preparing(bur[cur])
    <2>1. CASE fly = None
      <3>1. nlive = 0
        BY <2>1, <1>0 DEF Order, Turn, Ring, None
      <3>2. ~bur[cur].live
        <4>1. Age(cur) = 0
          BY <1>0, RingFacts
        <4> QED BY <1>0, <3>1, <4>1 DEF Order, InRing
      <3> QED BY <1>0, <3>2 DEF Order, InRing, Preparing
    <2>2. CASE fly # None
      <3>1. fly = cur /\ bur[cur].fired
        BY <1>2, <2>2, FlyIs DEF SerialDone
      <3> QED BY <1>0, <3>1 DEF Order, InRing
    <2> QED BY <2>1, <2>2
  <1>8. Last' = Last /\ Next_slot' = Next_slot
    BY <1>2, <1>3 DEF Last, Next_slot
  <1>9. ASSUME NEW m \in Ring PROVE InRing(m)'
    <2>0. Age(m)' = Age(m) /\ InRing(m)
      BY <1>3 DEF Age, Order
    <2>1. CASE m = Next_slot
      BY <1>2, <1>3, <1>6, <1>8, <2>0, <2>1 DEF InRing, Preparing
    <2>2. CASE m # Next_slot
      <3>1. bur'[m] = bur[m]
        BY <1>2, <2>2 DEF Alone
      <3>2. ~Preparing(bur[m])
        BY <1>7, <2>0 DEF InRing
      <3> QED BY <1>2, <1>3, <1>8, <2>0, <2>2, <3>1, <3>2 DEF InRing, Preparing
    <2> QED BY <2>1, <2>2
  <1>10. Turn'
    BY <1>2, <1>3, <1>4 DEF Order, Turn, Ring
  <1> QED BY <1>9, <1>10, OrderAfter

LEMMA OrderBegin ==
  ASSUME cfg' = cfg, cfg \in Shapes, Order, Bursts, Begin PROVE Order'
  <1>0. cur \in Ring /\ nlive \in 0 .. K /\ n \in 1 .. Len(cfg.script) + 1 /\ K \in Nat /\ K > 1
        /\ Len(cfg.script) \in Nat /\ Ring = 0 .. K - 1
    BY ShapeFacts DEF Order, Turn, Ring
  <1>1. Next_slot \in Ring /\ Next_slot # cur /\ Age(Next_slot) = K - 1
        /\ Next_slot = (IF cur = K - 1 THEN 0 ELSE cur + 1)
        /\ \A k \in Ring : Age(k) \in 0 .. K - 1
    BY <1>0, RingFacts
  <1>n. n \in Nat
    BY <1>0
  <1>2. /\ Bursts' /\ Alone(Next_slot)
        /\ bur'[Next_slot].n = n /\ bur'[Next_slot].nb = bur[Next_slot].nb
        /\ bur'[Next_slot].live = TRUE
        /\ IF Waits THEN bur'[Next_slot].fired = bur[Next_slot].fired
                         /\ bur'[Next_slot].pc = bur[Next_slot].pc
                    ELSE bur'[Next_slot].fired = FALSE /\ bur'[Next_slot].pc = "prep"
        /\ apc = "begin" /\ cur' = Next_slot /\ fly' = Next_slot /\ nlive' = nlive + 1
        /\ IF Waits THEN apc' = "retire" /\ n' = n ELSE apc' = "ready" /\ n' = n + 1
    BY <1>n, <1>1, BeginWrites, Zenon
  <1>3. nlive < K /\ n <= Len(cfg.script) /\ cfg.script[n] \in 1 .. 3
        /\ (~cfg.wide => nlive <= 1)
    BY <1>2 DEF Order, Turn
  <1>4. Last = n - 1 /\ Last' = n
    BY <1>0, <1>2 DEF Last
  <1>5. apc' \in {"retire", "ready"} /\ (Waits <=> apc' = "retire") /\ (Waits => ~cfg.wide)
    BY <1>2 DEF Waits
  <1>6. ASSUME NEW m \in Ring PROVE InRing(m)'
    <2>0. InRing(m) /\ m \in 0 .. K - 1
      BY <1>0 DEF Order
    <2>1. CASE m = Next_slot
      <3>1. Age(m)' = 0
        BY <1>0, <1>1, <1>2, <2>0, <2>1 DEF Age
      <3>2. ~bur[m].live
        <4>1. ~(K - 1 < nlive)
          BY <1>0, <1>3
        <4> QED BY <1>1, <2>0, <2>1, <4>1 DEF InRing
      <3>3. bur[m].pc = "idle" /\ bur[m].nb = cfg.script[n]
        BY <1>2, <2>0, <2>1, <3>2 DEF InRing
      <3>4. /\ bur'[m].live /\ bur'[m].n = n /\ bur'[m].nb = cfg.script[n]
            /\ bur'[m].pc \in {"idle", "prep"} /\ m = cur'
            /\ (apc' = "retire" => bur'[m].pc = "idle")
            /\ (bur'[m].pc = "prep" => ~bur'[m].fired)
        BY <1>2, <1>5, <2>1, <3>3
      <3>5. 0 < nlive' /\ n = n - 0 /\ n \in 1 .. Len(cfg.script) /\ cfg.script[n] > 0
        BY <1>0, <1>2, <1>3
      <3> QED BY <1>4, <1>5, <3>1, <3>4, <3>5 DEF InRing, Preparing
    <2>2. CASE m # Next_slot
      <3>1. bur'[m] = bur[m]
        BY <1>2, <2>2 DEF Alone
      <3>2. ~Preparing(bur[m])
        BY <1>2, <2>0 DEF InRing
      <3>3. Age(m)' = Age(m) + 1 /\ Age(m) \in 0 .. K - 1
        <4>1. cur' = IF cur = K - 1 THEN 0 ELSE cur + 1
          BY <1>1, <1>2
        <4> QED BY <1>0, <1>1, <2>0, <2>2, <4>1 DEF Age
      <3>4. (Age(m) + 1 < nlive + 1 <=> Age(m) < nlive) /\ n - (Age(m) + 1) = (n - 1) - Age(m)
        BY <1>0, <3>3
      <3> QED BY <1>2, <1>4, <1>5, <2>0, <2>2, <3>1, <3>2, <3>3, <3>4 DEF InRing, Preparing
    <2> QED BY <2>1, <2>2
  <1>7. Turn'
    <2>1. /\ apc' \in {"ready", "retire"} /\ n' \in 1 .. Len(cfg.script) + 1 /\ cur' \in Ring
          /\ nlive' \in 0 .. K /\ nlive' # 0 /\ fly' = cur'
      <3>1. n' \in {n, n + 1} /\ apc' \in {"ready", "retire"}
        BY <1>2
      <3>2. nlive' \in 0 .. K /\ nlive' # 0
        BY <1>0, <1>2, <1>3
      <3>3. n' \in 1 .. Len(cfg.script) + 1
        BY <1>0, <1>3, <3>1
      <3> QED BY <1>1, <1>2, <3>1, <3>2, <3>3
    <2>2. apc' = "retire" => ~cfg.wide /\ nlive' = 2 /\ n' = n
      BY <1>0, <1>2, <1>3, <1>5 DEF Waits
    <2>3. apc' = "ready" /\ ~cfg.wide => nlive' <= 1
      BY <1>0, <1>2, <1>3, <1>5 DEF Waits
    <2> QED BY <1>3, <2>1, <2>2, <2>3 DEF Turn, Ring
  <1> QED BY <1>6, <1>7, OrderAfter

LEMMA OrderDrain ==
  ASSUME cfg' = cfg, cfg \in Shapes, Order, Bursts, Drain PROVE Order'
  <1>0. cur \in Ring /\ nlive \in 0 .. K /\ n \in 1 .. Len(cfg.script) + 1 /\ K \in Nat /\ K > 1
        /\ Len(cfg.script) \in Nat /\ Ring = 0 .. K - 1
    BY ShapeFacts DEF Order, Turn, Ring
  <1>1. nlive > 0 /\ apc \in {"ready", "retire"}
    BY <1>0 DEF Drain, DrainDue, Order, Turn
  <1>2. Oldest \in Ring /\ Age(Oldest) = nlive - 1
    BY <1>1, OldestIs
  <1>3. /\ Bursts'
        /\ \A m \in Ring :
              /\ bur'[m].live = (m # Oldest /\ bur[m].live)
              /\ bur'[m].n = bur[m].n /\ bur'[m].nb = bur[m].nb
              /\ IF m # Oldest /\ apc = "retire" /\ m = fly
                 THEN bur'[m].fired = FALSE /\ bur'[m].pc = "prep"
                 ELSE bur'[m].fired = bur[m].fired /\ bur'[m].pc = bur[m].pc
        /\ bur[Oldest].pc = "idle"
        /\ nlive' = nlive - 1 /\ fly' = (IF nlive = 1 THEN None ELSE fly) /\ cur' = cur
        /\ apc' \in {"failing", "ready"}
        /\ n' = IF apc = "retire" THEN n + 1 ELSE n
    BY <1>2, DrainWrites, Zenon
  <1>4. apc = "retire" => n <= Len(cfg.script) /\ nlive = 2 /\ ~cfg.wide
    BY DEF Order, Turn
  <1>r. \A m \in Ring : Age(m) = nlive - 1 => m = Oldest
    BY <1>0, <1>2, RingFacts
  <1>f. nlive # 1 => fly = cur
    BY <1>0, <1>1 DEF Order, Turn
  <1>5. Last' = Last
    BY <1>0, <1>1, <1>3 DEF Last
  <1>6. ASSUME NEW m \in Ring PROVE InRing(m)'
    <2>0. Age(m)' = Age(m) /\ InRing(m) /\ Age(m) \in Nat
      BY <1>0, <1>3, RingFacts DEF Age, Order
    <2>1. bur'[m].live <=> Age(m) < nlive'
      <3>1. bur'[m].live <=> m # Oldest /\ bur[m].live
        BY <1>3
      <3>2. bur[m].live <=> Age(m) < nlive
        BY <2>0 DEF InRing
      <3>3. m = Oldest <=> Age(m) = nlive - 1
        BY <1>2, <1>r
      <3>4. nlive' = nlive - 1
        BY <1>3
      <3> QED BY <1>0, <2>0, <3>1, <3>2, <3>3, <3>4
    <2>2. bur'[m].live => bur[m].live
      BY <1>3
    <2>3. ~bur'[m].live => bur'[m].pc = "idle"
      <3>1. CASE m = Oldest
        BY <1>3, <3>1
      <3>2. CASE m # Oldest
        <4>1. bur'[m].live <=> bur[m].live
          BY <1>3, <3>2
        <4>2. ~bur[m].live => m # fly \/ apc # "retire"
          <5>1. Age(cur) = 0
            BY <1>0, RingFacts
          <5> QED BY <1>0, <1>1, <1>4, <2>0, <1>f, <5>1 DEF InRing
        <4> QED BY <1>3, <2>0, <3>2, <4>1, <4>2 DEF InRing
      <3> QED BY <3>1, <3>2
    <2>4. bur'[m].pc \in {"prep", "prepL"} => m = cur' /\ ~bur'[m].fired
      <3>1. CASE m # Oldest /\ apc = "retire" /\ m = fly
        BY <1>0, <1>3, <1>4, <1>f, <3>1
      <3>2. CASE ~(m # Oldest /\ apc = "retire" /\ m = fly)
        <4>1. bur'[m].fired = bur[m].fired /\ bur'[m].pc = bur[m].pc
          BY <1>3, <3>2
        <4> QED BY <1>3, <2>0, <4>1 DEF InRing, Preparing
      <3> QED BY <3>1, <3>2
    <2> QED BY <1>3, <1>5, <2>0, <2>1, <2>2, <2>3, <2>4 DEF InRing, Preparing
  <1>7. Turn'
    BY <1>0, <1>1, <1>3, <1>4, <1>f DEF Order, Turn, Ring
  <1> QED BY <1>6, <1>7, OrderAfter

\* A picture coded with nothing in flight, and the close.
LEMMA OrderIdle ==
  ASSUME cfg' = cfg, cfg \in Shapes, Order, Bursts, UNCHANGED <<bur, cur, fly, nlive>>,
         \/ apc = "ready" /\ apc' = "ready" /\ nlive = 0 /\ n' = n + 1 /\ n <= Len(cfg.script)
         \/ apc \in {"ready", "failing"} /\ apc' = "closed" /\ n' = n
            /\ \A k \in Live : bur[k].pc = "idle"
  PROVE  Order'
  <1>0. cur \in Ring /\ nlive \in 0 .. K /\ n \in 1 .. Len(cfg.script) + 1 /\ K \in Nat /\ K > 1
        /\ Len(cfg.script) \in Nat
    BY ShapeFacts DEF Order, Turn, Ring
  <1>1. ASSUME NEW m \in Ring PROVE InRing(m)'
    <2>0. Age(m)' = Age(m) /\ InRing(m) /\ Age(m) \in Nat
      BY <1>0, RingFacts DEF Age, Order
    <2>1. bur[m].pc = "idle" \/ apc' = "ready"
      BY <2>0 DEF InRing, Live
    <2>2. nlive = 0 => ~bur[m].live
      BY <2>0 DEF InRing
    <2>3. nlive # 0 => Last' = Last
      BY DEF Last
    <2> QED BY <2>0, <2>1, <2>2, <2>3 DEF InRing, Preparing
  <1>2. Turn'
    BY <1>0 DEF Order, Turn, Ring
  <1> QED BY <1>1, <1>2, OrderAfter

Course == Bursts /\ Order

LEMMA CourseStart == Init => Course
  <1> SUFFICES ASSUME Init PROVE Course
    OBVIOUS
  <1>1. /\ cfg \in Shapes /\ apc = "ready" /\ n = 1 /\ bur = [k \in Ring |-> NoBurst]
        /\ cur = 0 /\ fly = None /\ nlive = 0
    BY DEF Init
  <1>2. K \in Nat /\ K > 1 /\ Rows \in Nat /\ Len(cfg.script) \in Nat
    BY <1>1, ShapeFacts
  <1>3. IsJob(IdleJob)
    BY <1>2 DEF IsJob, IdleJob
  <1>4. IsBurst(NoBurst) /\ ~NoBurst.live /\ NoBurst.pc = "idle"
    BY <1>3 DEF IsBurst, NoBurst
  <1>5. Bursts
    BY <1>1, <1>4 DEF Bursts
  <1>6. ASSUME NEW k \in Ring PROVE InRing(k)
    <2>1. Age(k) \in 0 .. K - 1
      <3>1. cur \in Ring
        BY <1>1, <1>2 DEF Ring
      <3> QED BY <1>1, <3>1, RingFacts
    <2>2. ~(Age(k) < nlive)
      BY <1>1, <1>2, <2>1
    <2> QED BY <1>1, <1>4, <2>2 DEF InRing, Preparing
  <1>7. Turn
    BY <1>1, <1>2 DEF Turn, Ring
  <1> QED BY <1>5, <1>6, <1>7 DEF Course, Order

\* What every step of a chain or of a picture's threads leaves alone.
LEMMA ThreadSteps ==
  ASSUME cfg \in Shapes, Course, NEW k \in Ring,
         \/ PrepR(k) \/ PrepL(k) \/ Encode(k) \/ LeafDone(k) \/ Join(k)
         \/ \E j \in Kinds : Analyze(k, j) \/ Trail(k, j) \/ Emit(k, j)
  PROVE  /\ cfg' = cfg /\ UNCHANGED <<apc, n, cur, fly, nlive>>
         /\ Bursts' /\ Alone(k) /\ Fixed(bur'[k], bur[k])
         /\ bur'[k].pc = bur[k].pc \/ (bur[k].pc # "idle")
         /\ Preparing(bur'[k]) => Preparing(bur[k]) /\ bur'[k].fired = bur[k].fired
  <1>1. cfg' = cfg /\ UNCHANGED <<apc, n, cur, fly, nlive>>
    BY Zenon DEF PrepR, PrepL, Encode, LeafDone, Join, Analyze, Trail, Emit, ctx
  <1>2. Bursts /\ Rows \in Nat
    BY ShapeFacts DEF Course
  <1>3. CASE PrepR(k)
    <2>1. Bursts' /\ Alone(k) /\ Fixed(bur'[k], bur[k]) /\ bur[k].pc = "prep"
          /\ bur'[k].fired = bur[k].fired
      BY <1>1, <1>2, <1>3, PrepRWrites
    <2> QED BY <1>1, <2>1 DEF Preparing
  <1>4. CASE PrepL(k)
    <2>1. Bursts' /\ Alone(k) /\ Fixed(bur'[k], bur[k]) /\ bur[k].pc # "idle"
          /\ bur'[k].pc = "rbgate"
      BY <1>1, <1>2, <1>4, PrepLWrites
    <2> QED BY <1>1, <2>1 DEF Preparing
  <1>5. CASE Encode(k)
    <2>1. Bursts' /\ Alone(k) /\ Fixed(bur'[k], bur[k]) /\ bur[k].pc # "idle"
          /\ bur'[k].pc = "leaf"
      BY <1>1, <1>2, <1>5, EncodeWrites
    <2> QED BY <1>1, <2>1 DEF Preparing
  <1>6. CASE LeafDone(k)
    <2>1. Bursts' /\ Alone(k) /\ Fixed(bur'[k], bur[k]) /\ bur[k].pc # "idle"
          /\ bur'[k].pc = "join"
      BY <1>1, <1>2, <1>6, LeafDoneWrites
    <2> QED BY <1>1, <2>1 DEF Preparing
  <1>7. CASE Join(k)
    <2>1. Bursts' /\ Alone(k) /\ Fixed(bur'[k], bur[k]) /\ bur[k].pc # "idle"
          /\ bur'[k].pc = "idle"
      BY <1>1, <1>2, <1>7, JoinWrites
    <2> QED BY <1>1, <2>1 DEF Preparing
  <1>8. ASSUME NEW j \in Kinds, Analyze(k, j) \/ Trail(k, j) \/ Emit(k, j)
        PROVE  /\ Bursts' /\ Alone(k) /\ Fixed(bur'[k], bur[k])
               /\ bur'[k].pc = bur[k].pc /\ bur'[k].fired = bur[k].fired
    <2>1. CASE Analyze(k, j)
      BY <1>1, <1>2, <2>1, AnalyzeWrites DEF Kept
    <2>2. CASE Trail(k, j)
      BY <1>1, <1>2, <2>2, TrailKeeps
    <2>3. CASE Emit(k, j)
      BY <1>1, <1>2, <2>3, EmitWrites DEF Kept
    <2> QED BY <1>8, <2>1, <2>2, <2>3
  <1>9. CASE \E j \in Kinds : Analyze(k, j) \/ Trail(k, j) \/ Emit(k, j)
    BY <1>1, <1>8, <1>9 DEF Preparing
  <1> QED BY <1>3, <1>4, <1>5, <1>6, <1>7, <1>9

LEMMA CourseSteps ==
  ASSUME cfg \in Shapes, Course, [Next]_vars PROVE Course' /\ cfg' = cfg
  <1>0. Bursts /\ Order
    BY DEF Course
  <1>1. CASE Prep
    <2>1. cfg' = cfg
      BY <1>1, PrepFrame
    <2>2. n \in 1 .. Len(cfg.script) + 1 /\ Next_slot \in Ring /\ (fly # None => fly \in Ring)
      BY <1>0, RingFacts, FlyIs DEF Order, Turn
    <2> QED BY <1>0, <1>1, <2>1, <2>2, PrepWrites, OrderPrep DEF Course
  <1>2. CASE Begin
    <2>1. cfg' = cfg
      BY <1>2 DEF Begin
    <2>2. n \in Nat /\ Next_slot \in Ring
      BY <1>0, RingFacts, ShapeFacts DEF Order, Turn
    <2> QED BY <1>0, <1>2, <2>1, <2>2, BeginWrites, OrderBegin DEF Course
  <1>3. CASE Drain
    <2>1. cfg' = cfg
      BY <1>3 DEF Drain
    <2>2. Oldest \in Ring
      <3>1. nlive > 0
        BY <1>0, <1>3 DEF Drain, DrainDue, Order, Turn
      <3> QED BY <1>0, <3>1, OldestIs
    <2> QED BY <1>0, <1>3, <2>1, <2>2, DrainWrites, OrderDrain DEF Course
  <1>4. CASE CodeSerial \/ Close
    <2>1. cfg' = cfg /\ UNCHANGED <<bur, cur, fly, nlive>>
      BY <1>4 DEF CodeSerial, Close, ctx
    <2>2. \/ apc = "ready" /\ apc' = "ready" /\ nlive = 0 /\ n' = n + 1 /\ n <= Len(cfg.script)
          \/ apc \in {"ready", "failing"} /\ apc' = "closed" /\ n' = n
             /\ \A k \in Live : bur[k].pc = "idle"
      BY <1>4 DEF CodeSerial, Close, Arriving
    <2>3. Bursts'
      <3>1. bur' = bur
        BY <2>1
      <3> QED BY <1>0, <2>1, <3>1, BurstsAfter DEF Bursts
    <2> QED BY <1>0, <2>1, <2>2, <2>3, OrderIdle DEF Course
  <1>5. ASSUME NEW k \in Ring,
               \/ PrepR(k) \/ PrepL(k) \/ Encode(k) \/ LeafDone(k) \/ Join(k)
               \/ \E j \in Kinds : Analyze(k, j) \/ Trail(k, j) \/ Emit(k, j)
        PROVE  Course' /\ cfg' = cfg
    <2>1. /\ cfg' = cfg /\ UNCHANGED <<apc, n, cur, fly, nlive>>
          /\ Bursts' /\ Alone(k) /\ Fixed(bur'[k], bur[k])
          /\ bur'[k].pc = bur[k].pc \/ (bur[k].pc # "idle")
          /\ Preparing(bur'[k]) => Preparing(bur[k]) /\ bur'[k].fired = bur[k].fired
      BY <1>5, ThreadSteps
    <2> QED BY <1>0, <2>1, OrderSame DEF Course
  <1>6. CASE Closed \/ UNCHANGED vars
    <2>1. UNCHANGED <<cfg, apc, n, bur, cur, fly, nlive>>
      BY <1>6 DEF Closed, vars, ctx
    <2>2. Bursts'
      BY <1>0, <2>1, BurstsAfter DEF Bursts
    <2>3. Order'
      <3>1. Turn'
        BY <1>0, <2>1 DEF Order, Turn, Ring
      <3>2. ASSUME NEW k \in Ring PROVE InRing(k)'
        <4>1. Last' = Last /\ Next_slot' = Next_slot /\ Age(k)' = Age(k)
          BY <2>1 DEF Last, Next_slot, Age
        <4> QED BY <1>0, <2>1, <4>1 DEF Order, InRing, Preparing
      <3> QED BY <2>1, <3>1, <3>2, OrderAfter
    <2> QED BY <2>1, <2>2, <2>3 DEF Course
  <1> QED BY <1>1, <1>2, <1>3, <1>4, <1>5, <1>6 DEF Next

-----------------------------------------------------------------------------
(* The decoded picture buffer, step by step.                                *)

LEMMA WindowStart == Init => Window
  <1> SUFFICES ASSUME Init PROVE Window
    OBVIOUS
  <1>1. /\ cfg \in Shapes /\ apc = "ready" /\ n = 1 /\ fly = None /\ nfn = 1
        /\ dpb = [s \in Slots |-> [used |-> s = 0, pic |-> IF s = 0 THEN <<0, "A">> ELSE NoPic,
                                   fn |-> 0, pl |-> Plane(s), x |-> Grid(s)]]
    BY DEF Init
  <1>2. Mrf \in Nat /\ Mrf > 2 /\ Len(cfg.script) \in Nat
    BY <1>1, ShapeFacts
  <1>3. Newest = <<0, "A">>
    BY <1>1 DEF Newest, Last
  <1>4. Earlier(<<0, "A">>) = {}
    <2>1. ASSUME NEW q \in Earlier(<<0, "A">>) PROVE FALSE
      <3>1. PICK i \in 0 .. Len(cfg.script) : q = <<i, "A">> \/ q = <<i, "R">>
        BY <1>1, RefPicForms DEF Earlier
      <3> QED BY <1>2, <3>1 DEF Earlier, Precedes
    <2> QED BY <2>1
  <1>5. Index(<<0, "A">>) = 0 /\ <<0, "A">> \in RefPics
    BY <1>1, <1>2, <1>4, FS_EmptySet, RefPicForms DEF Index
  <1>6. 0 \in Slots /\ UsedIn(dpb) = {0} /\ dpb[0].pic = <<0, "A">> /\ dpb[0].fn = 0
    <2>1. 0 \in Slots
      BY <1>2 DEF Slots
    <2>2. \A s \in Slots : dpb[s].used <=> s = 0
      BY <1>1
    <2>3. dpb[0].pic = <<0, "A">> /\ dpb[0].fn = 0
      BY <1>1, <2>1
    <2>4. UsedIn(dpb) = {0}
      BY <2>1, <2>2 DEF UsedIn
    <2> QED BY <2>1, <2>3, <2>4
  <1>7. FnWindow(dpb, nfn)
    BY <1>1, <1>2, <1>6 DEF FnWindow
  <1>8. PicWindow(dpb, nfn, Newest)
    BY <1>1, <1>3, <1>4, <1>5, <1>6 DEF PicWindow
  <1> QED BY <1>7, <1>8 DEF Window

LEMMA LastIs ==
  ASSUME cfg \in Shapes, Order PROVE Last \in 0 .. Len(cfg.script) /\ LastRef(Last) \in RefPics
  <1>1. Last \in 0 .. Len(cfg.script) /\ Len(cfg.script) \in Nat
    BY ShapeFacts DEF Order, Turn, Last
  <1> QED BY <1>1, RefPicForms DEF LastRef

\* With no reference B to come, the newest reference is the last of its mini-GOP.
LEMMA NewestIs ==
  ASSUME cfg \in Shapes, Order,
         apc # "retire", fly # None => bur[cur].pc # "prep"
  PROVE  Newest = LastRef(Last)
  BY DEF Newest, LastRef

LEMMA WindowBegin ==
  ASSUME Typing, Course, Window, Begin PROVE Window'
  <1>0. cfg' = cfg /\ cfg \in Shapes /\ Order /\ Bursts /\ Len(cfg.script) \in Nat
    BY ShapeFacts DEF Begin, Typing, Course
  <1>1. Next_slot \in Ring /\ cur \in Ring /\ n \in Nat /\ n > 0
    BY <1>0, RingFacts DEF Order, Turn
  <1>2. /\ IF Waits THEN TRUE ELSE bur'[Next_slot].pc = "prep"
        /\ apc = "begin" /\ cur' = Next_slot /\ fly' = Next_slot
        /\ IF Waits THEN apc' = "retire" /\ n' = n ELSE apc' = "ready" /\ n' = n + 1
        /\ Commit(rec, <<n, "A">>)
    BY <1>0, <1>1, BeginWrites, Zenon
  <1>3. n \in 1 .. Len(cfg.script) /\ cfg.script[n] # Idr
    BY <1>0, <1>1, <1>2 DEF Order, Turn, Idr
  <1>4. Last = n - 1 /\ Last' = n
    BY <1>1, <1>2 DEF Last
  <1>5. Newest' = <<n, "A">>
    <2>1. fly' # None
      BY <1>1, <1>2, ShapeFacts, <1>0 DEF Ring, None
    <2>2. apc' = "retire" \/ bur'[cur'].pc = "prep"
      BY <1>2
    <2> QED BY <1>4, <2>1, <2>2 DEF Newest
  <1>6. Newest = LastRef(n - 1)
    <2>1. bur[cur].pc # "prep"
      BY <1>0, <1>1, <1>2 DEF Order, InRing, Preparing
    <2> QED BY <1>0, <1>2, <1>4, <2>1, NewestIs
  <1>7. PICK m \in 0 .. Len(cfg.script) - 1 : m = n - 1 /\ m + 1 = n
    BY <1>0, <1>3
  <1>8. /\ Earlier(<<n, "A">>) = Earlier(Newest) \cup {Newest}
        /\ Index(<<n, "A">>) = Index(Newest) + 1
    BY <1>0, <1>3, <1>6, <1>7, NextIsA
  <1>9. <<n, "A">> \in RefPics
    BY <1>0, <1>3, RefPicForms
  <1> QED BY <1>0, <1>2, <1>5, <1>8, <1>9, CommitOrdered

LEMMA WindowPrepR ==
  ASSUME Typing, Course, Window, NEW k \in Ring, PrepR(k) PROVE Window'
  <1>0. cfg' = cfg /\ cfg \in Shapes /\ Order /\ Bursts /\ Len(cfg.script) \in Nat /\ Rows \in Nat
        /\ UNCHANGED <<apc, n, cur, fly, nlive>>
    BY ShapeFacts DEF PrepR, Typing, Course, ctx
  <1>1. Commit(leafrec[k][0], <<bur[k].n, "R">>) /\ bur[k].pc = "prep" /\ bur[k].nb > 1
    BY DEF PrepR, Chain, HasR, HasRef
  <1>2. bur'[k].pc = "prepL"
    BY <1>0, PrepRWrites
  <1>3. k = cur /\ apc \in {"ready", "failing"} /\ bur[k].live
    BY <1>0, <1>1 DEF Order, InRing, Preparing
  <1>4. fly # None
    <2>1. nlive # 0
      <3>1. Age(k) < nlive /\ Age(k) \in Nat
        BY <1>0, <1>3, RingFacts DEF Order, InRing, Turn
      <3> QED BY <3>1
    <2>2. fly = cur
      BY <1>0, <2>1 DEF Order, Turn
    <2> QED BY <1>0, <1>3, <2>2, ShapeFacts DEF Ring, None
  <1>5. bur[k].n = Last /\ Last \in 1 .. Len(cfg.script) /\ cfg.script[Last] > 1
    BY <1>0, <1>1, <1>3, <1>4, FlyIs
  <1>6. Newest = <<Last, "A">>
    BY <1>1, <1>3, <1>4 DEF Newest
  <1>7. Last' = Last
    BY <1>0 DEF Last
  <1>8. Newest' = <<Last, "R">>
    BY <1>0, <1>2, <1>3, <1>5, <1>7 DEF Newest
  <1>9. /\ Earlier(<<Last, "R">>) = Earlier(Newest) \cup {Newest}
        /\ Index(<<Last, "R">>) = Index(Newest) + 1
    BY <1>0, <1>5, <1>6, NextIsR
  <1>10. <<Last, "R">> \in RefPics
    BY <1>0, <1>5, RefPicForms
  <1> QED BY <1>0, <1>1, <1>5, <1>8, <1>9, <1>10, CommitOrdered

LEMMA WindowSerial ==
  ASSUME Typing, Course, Window, CodeSerial PROVE Window'
  <1> DEFINE idr == cfg.script[n] = Idr
             d == IF idr THEN [s \in Slots |-> [dpb[s] EXCEPT !.used = FALSE]] ELSE dpb
             fn == IF idr THEN 0 ELSE nfn
             p == <<n, "A">>
             r == [used |-> TRUE, pic |-> p, fn |-> fn, pl |-> rec,
                   x |-> dpb[FirstUnused(Evict(d))].x]
  <1>0. cfg' = cfg /\ cfg \in Shapes /\ Order /\ Bursts /\ Len(cfg.script) \in Nat /\ nfn \in Nat
        /\ IsDpb(dpb) /\ FnWindow(dpb, nfn) /\ PicWindow(dpb, nfn, Newest)
        /\ Mrf \in Nat
    BY ShapeFacts DEF CodeSerial, Typing, Course, Window
  <1>1. /\ apc = "ready" /\ n <= Len(cfg.script) /\ nlive = 0 /\ n' = n + 1 /\ apc' = apc
        /\ fly' = fly /\ cfg.script[n] \in {Idr, 0}
    BY DEF CodeSerial, Arriving, Serial, ctx
  <1>2. dpb' = Store(d, r) /\ nfn' = fn + 1
    BY DEF CodeSerial, Store
  <1>3. fly = None /\ n \in 1 .. Len(cfg.script) /\ Last = n - 1 /\ Last' = n
    BY <1>0, <1>1 DEF Order, Turn, Last
  <1>4. Newest' = p
    BY <1>0, <1>1, <1>3 DEF Newest, Idr
  <1>5. Newest = LastRef(n - 1)
    BY <1>0, <1>1, <1>3, NewestIs
  <1>6. p \in RefPics
    BY <1>0, <1>3, RefPicForms
  <1>7. /\ IsDpb(d) /\ fn \in Nat /\ FnWindow(d, fn) /\ fn = Index(p)
        /\ \A s \in UsedIn(d) : d[s].pic \in Earlier(p) /\ d[s].fn = Index(d[s].pic)
        /\ \A q \in Earlier(p) : fn - Mrf <= Index(q) => \E s \in UsedIn(d) : d[s].pic = q
    <2>1. CASE idr
      <3>1. d = [s \in Slots |-> [dpb[s] EXCEPT !.used = FALSE]] /\ fn = 0
        BY <2>1
      <3>2. IsDpb(d) /\ UsedIn(d) = {}
        <4> HIDE DEF d
        <4>1. \A s \in Slots : IsSlot(dpb[s])
          BY <1>0 DEF IsDpb
        <4>2. \A s \in Slots : d[s] = [dpb[s] EXCEPT !.used = FALSE]
          BY <3>1
        <4>3. \A s \in Slots : IsSlot(d[s]) /\ ~d[s].used
          BY <4>1, <4>2 DEF IsSlot
        <4>4. d = [s \in Slots |-> d[s]]
          BY <3>1
        <4> QED BY <4>3, <4>4 DEF IsDpb, UsedIn
      <3>3. Earlier(p) = {} /\ Index(p) = 0
        BY <1>0, <1>3, <2>1, NoneBeforeIdr
      <3> HIDE DEF d, fn, p
      <3>4. FnWindow(d, fn)
        BY <1>0, <3>1, <3>2 DEF FnWindow
      <3> QED BY <3>1, <3>2, <3>3, <3>4
    <2>2. CASE ~idr
      <3>1. d = dpb /\ fn = nfn
        BY <2>2
      <3>2. PICK m \in 0 .. Len(cfg.script) - 1 : m = n - 1 /\ m + 1 = n
        BY <1>0, <1>3
      <3>3. Earlier(p) = Earlier(Newest) \cup {Newest} /\ Index(p) = Index(Newest) + 1
        BY <1>0, <1>5, <2>2, <3>2, NextIsA
      <3> HIDE DEF d, fn, p
      <3> QED BY <1>0, <3>1, <3>3 DEF PicWindow
    <2> QED BY <2>1, <2>2
  <1>8. IsSlot(r) /\ r.used /\ r.fn = fn /\ r.pic = p
    <2> HIDE DEF d
    <2>1. fn \in Nat
      BY <1>7
    <2> HIDE DEF fn
    <2> QED BY <2>1 DEF IsSlot
  <1> HIDE DEF d, fn, p, r
  <1>9. FnWindow(dpb', fn + 1) /\ PicWindow(dpb', fn + 1, p)
    BY <1>0, <1>2, <1>6, <1>7, <1>8, StoreOrdered
  <1> QED BY <1>0, <1>2, <1>4, <1>9, WindowAfter

\* The steps that store nothing keep the newest picture.
LEMMA WindowDrain ==
  ASSUME Typing, Course, Window, Drain PROVE Window'
  <1>0. cfg' = cfg /\ cfg \in Shapes /\ Order /\ Bursts /\ UNCHANGED <<dpb, nfn>>
        /\ nlive \in Nat
    BY DEF Drain, Typing, Course, store, Order, Turn
  <1>1. nlive > 0 /\ Oldest \in Ring /\ Age(Oldest) = nlive - 1 /\ cur \in Ring
    <2>1. nlive > 0
      BY <1>0 DEF Drain, DrainDue, Order, Turn
    <2> QED BY <1>0, <2>1, OldestIs DEF Order, Turn
  <1>2. /\ \A m \in Ring :
              IF m # Oldest /\ apc = "retire" /\ m = fly
                 THEN bur'[m].fired = FALSE /\ bur'[m].pc = "prep"
                 ELSE bur'[m].fired = bur[m].fired /\ bur'[m].pc = bur[m].pc
        /\ bur[Oldest].pc = "idle"
        /\ nlive' = nlive - 1 /\ fly' = (IF nlive = 1 THEN None ELSE fly) /\ cur' = cur
        /\ apc' \in {"failing", "ready"} /\ apc \in {"ready", "retire"}
        /\ n' = IF apc = "retire" THEN n + 1 ELSE n
    <2>1. apc \in {"ready", "retire"}
      BY DEF Drain, DrainDue
    <2> QED BY <1>0, <1>1, <2>1, DrainWrites, Zenon
  <1>3. Last' = Last
    BY <1>0, <1>2 DEF Last, Order, Turn
  <1>4. fly = cur /\ fly # None /\ Age(cur) = 0
    BY <1>0, <1>1, RingFacts, ShapeFacts DEF Order, Turn, Ring, None
  <1>5. Newest' = Newest
    <2>1. CASE apc = "retire"
      <3>1. nlive = 2
        BY <1>0, <2>1 DEF Order, Turn
      <3>2. cur # Oldest
        BY <1>1, <1>4, <3>1
      <3>3. bur'[cur].pc = "prep" /\ fly' # None /\ cur' = cur
        BY <1>1, <1>2, <1>4, <2>1, <3>1, <3>2
      <3> QED BY <1>3, <2>1, <3>3 DEF Newest
    <2>2. CASE apc = "ready" /\ nlive = 1
      <3>1. cur = Oldest
        BY <1>0, <1>1, <1>4, <2>2, RingFacts
      <3>2. bur[cur].pc # "prep"
        BY <1>2, <3>1
      <3> QED BY <1>0, <1>2, <1>3, <2>2, <3>2 DEF Newest
    <2>3. CASE apc = "ready" /\ nlive # 1
      <3>1. bur'[cur].pc = bur[cur].pc /\ fly' = fly
        BY <1>1, <1>2, <2>3
      <3> QED BY <1>0, <1>2, <1>3, <2>3, <3>1 DEF Newest
    <2> QED BY <1>2, <2>1, <2>2, <2>3
  <1> QED BY <1>0, <1>5, WindowStays

LEMMA WindowThreads ==
  ASSUME Typing, Course, Window, NEW k \in Ring,
         \/ PrepL(k) \/ Encode(k) \/ LeafDone(k) \/ Join(k)
         \/ \E j \in Kinds : Analyze(k, j) \/ Trail(k, j) \/ Emit(k, j)
  PROVE  Window'
  <1>0. cfg' = cfg /\ cfg \in Shapes /\ Order /\ Bursts /\ UNCHANGED <<dpb, nfn>> /\ Rows \in Nat
    BY ShapeFacts, Zenon
       DEF Typing, Course, store, PrepL, Encode, LeafDone, Join, Analyze, Trail, Emit
  <1>1. /\ UNCHANGED <<apc, n, cur, fly, nlive>> /\ Bursts' /\ Alone(k)
    BY <1>0, ThreadSteps
  <1>2. Last' = Last
    BY <1>1 DEF Last
  <1>3. Newest' = Newest
    <2>1. CASE bur'[cur].pc = "prep" <=> bur[cur].pc = "prep"
      BY <1>0, <1>1, <1>2, <2>1 DEF Newest
    <2>2. CASE ~(bur'[cur].pc = "prep" <=> bur[cur].pc = "prep")
      <3>1. k = cur
        BY <1>0, <1>1, <2>2 DEF Alone, Order, Turn
      <3>2. ~ \E j \in Kinds : Analyze(k, j) \/ Trail(k, j) \/ Emit(k, j)
        BY <1>0, <2>2, <3>1, AnalyzeWrites, TrailKeeps, EmitWrites DEF Kept
      <3>3. bur[k].pc = "prep" /\ bur[k].nb <= 1
        <4>1. CASE PrepL(k)
          <5>1. bur[k].pc = (IF bur[k].nb > 1 THEN "prepL" ELSE "prep") /\ bur'[k].pc = "rbgate"
                /\ IsBurst(bur[k])
            BY <1>0, <4>1, PrepLWrites DEF Bursts
          <5> QED BY <2>2, <3>1, <5>1 DEF IsBurst
        <4>2. CASE Encode(k)
          BY <1>0, <2>2, <3>1, <4>2, EncodeWrites
        <4>3. CASE LeafDone(k)
          BY <1>0, <2>2, <3>1, <4>3, LeafDoneWrites
        <4>4. CASE Join(k)
          BY <1>0, <2>2, <3>1, <4>4, JoinWrites
        <4> QED BY <3>2, <4>1, <4>2, <4>3, <4>4
      <3>4. fly # None => ~(Last > 0 /\ cfg.script[Last] > 1)
        <4>1. bur[cur].nb \in 0 .. 3
          BY <1>0, <3>1 DEF Bursts, IsBurst
        <4> QED BY <1>0, <3>1, <3>3, <4>1, FlyIs
      <3>5. fly # None
        <4>1. bur[cur].live
          BY <1>0, <3>1, <3>3 DEF Order, InRing
        <4>2. nlive # 0
          <5>1. Age(cur) < nlive /\ Age(cur) \in Nat
            BY <1>0, <3>1, <4>1, RingFacts DEF Order, InRing, Turn
          <5> QED BY <5>1
        <4> QED BY <1>0, <3>1, <4>2, ShapeFacts DEF Order, Turn, Ring, None
      <3>6. Newest = <<Last, "A">> /\ Newest' = <<Last, "A">>
        BY <1>0, <1>1, <1>2, <3>4, <3>5 DEF Newest
      <3> QED BY <3>6
    <2> QED BY <2>1, <2>2
  <1> QED BY <1>0, <1>3, WindowStays

LEMMA WindowSteps ==
  ASSUME Typing, Course, Window, [Next]_vars PROVE Window'
  <1>0. cfg \in Shapes /\ Order /\ Bursts /\ Len(cfg.script) \in Nat
    BY ShapeFacts DEF Typing, Course
  <1>1. CASE Prep
    <2>1. UNCHANGED <<cfg, n, cur, fly, nlive, dpb, nfn>> /\ apc = "ready" /\ apc' = "begin"
      BY <1>1, PrepFrame
    <2>2. cur \in Ring /\ cur # Next_slot
      BY <1>0, RingFacts DEF Order, Turn
    <2>3. bur'[cur] = bur[cur]
      <3>1. n \in 1 .. Len(cfg.script) + 1 /\ Next_slot \in Ring /\ (fly # None => fly \in Ring)
        BY <1>0, RingFacts, FlyIs DEF Order, Turn
      <3>2. Alone(Next_slot)
        BY <1>0, <1>1, <2>1, <3>1, PrepWrites
      <3> QED BY <2>2, <3>2 DEF Alone
    <2>4. Last' = Last
      BY <2>1 DEF Last
    <2>5. Newest' = Newest
      BY <2>1, <2>3, <2>4 DEF Newest
    <2> QED BY <2>1, <2>5, WindowStays
  <1>2. CASE Begin
    BY <1>2, WindowBegin
  <1>3. CASE Drain
    BY <1>3, WindowDrain
  <1>4. CASE CodeSerial
    BY <1>4, WindowSerial
  <1>5. CASE Close \/ Closed \/ UNCHANGED vars
    <2>1. /\ UNCHANGED <<cfg, n, bur, cur, fly, nlive, dpb, nfn>>
          /\ apc' = apc \/ (apc \in {"ready", "failing"} /\ apc' = "closed")
      BY <1>5 DEF Close, Closed, vars, ctx, store
    <2>2. Last' = Last
      BY <2>1 DEF Last
    <2>3. Newest' = Newest
      BY <2>1, <2>2 DEF Newest
    <2> QED BY <2>1, <2>3, WindowStays
  <1>6. ASSUME NEW k \in Ring, PrepR(k) PROVE Window'
    BY <1>6, WindowPrepR
  <1>7. ASSUME NEW k \in Ring,
               \/ PrepL(k) \/ Encode(k) \/ LeafDone(k) \/ Join(k)
               \/ \E j \in Kinds : Analyze(k, j) \/ Trail(k, j) \/ Emit(k, j)
        PROVE  Window'
    BY <1>7, WindowThreads
  <1> QED BY <1>1, <1>2, <1>3, <1>4, <1>5, <1>6, <1>7 DEF Next

Stream == IInv /\ Course /\ Window

LEMMA StreamSteps == Stream /\ [Next]_vars => Stream'
  <1> SUFFICES ASSUME Stream, [Next]_vars PROVE Stream'
    OBVIOUS
  <1>1. Typing /\ cfg \in Shapes
    BY DEF Stream, IInv, Typing
  <1> QED BY <1>1, Steps, CourseSteps, WindowSteps DEF Stream

\* Whatever the overlap, the decoded picture buffer holds the newest references
\* of the coding order under their frame_nums: what a decoder of the stream has.
THEOREM CodingOrderKept == Spec => []DpbCodingOrder
  <1>1. Init => Stream
    BY Start, CourseStart, WindowStart DEF Stream
  <1>2. Stream => DpbCodingOrder
    BY WindowIsCodingOrder DEF Stream, IInv
  <1> QED BY <1>1, <1>2, StreamSteps, PTL DEF Spec

-----------------------------------------------------------------------------
(* The stage each chain is at.                                              *)

Phase(b) ==
    \/ b.pc = "prep" /\ b.R.st = "off" /\ b.L.st = "off"
    \/ b.pc = "prepL" /\ b.nb > 1 /\ b.R.st = "ready" /\ b.L.st = "off"
    \/ b.pc = "rbgate" /\ b.R.st = (IF b.nb > 1 THEN "ready" ELSE "off") /\ b.L.st = "ready"
    \/ b.pc = "leaf" /\ (IF b.nb > 1 THEN b.R.st \in {"run", "done"} ELSE b.R.st = "off")
                     /\ b.L.st = "run"
    \/ b.pc = "join" /\ b.R.st = (IF b.nb > 1 THEN "done" ELSE "off") /\ b.L.st = "done"
    \/ b.pc = "idle" /\ b.R.st \in {"off", "done"} /\ b.L.st \in {"off", "done"}

\* A launched burst whose chain waits for its predecessor to be retired.
Unarmed(k) == apc = "retire" /\ k = cur

InStage(k) ==
    LET b == bur[k]
    IN  /\ Phase(b)
        /\ Unarmed(k) => b.R.st = "off" /\ b.L.st = "off"
        /\ b.live => b.A.st \in {"run", "done"}
        /\ b.A.st \in {"run", "done"} \/ b.L.st # "off" => b.n > 0
        /\ b.R.st # "off" => b.n \in 1 .. Len(cfg.script) /\ b.nb = cfg.script[b.n] /\ b.nb > 1
        /\ ~b.live => b.n \in 0 .. Last - nlive
        /\ apc = "begin" /\ k = Next_slot =>
             /\ b.A.st = "ready" /\ b.R.st = "off" /\ b.L.st = "off" /\ b.col = None
             /\ b.prevP = (IF cfg.wide THEN fly ELSE None)
Stages == \A k \in Ring : InStage(k)

LEMMA StagesThreads ==
  ASSUME cfg \in Shapes, Course, Stages, NEW k \in Ring,
         \/ PrepR(k) \/ PrepL(k) \/ Encode(k) \/ LeafDone(k) \/ Join(k)
         \/ \E j \in Kinds : Analyze(k, j) \/ Trail(k, j) \/ Emit(k, j)
  PROVE  Stages'
  <1>0. Bursts /\ Order /\ Rows \in Nat /\ InRing(k) /\ InStage(k) /\ IsBurst(bur[k])
    BY ShapeFacts DEF Course, Order, Stages, Bursts
  <1>1. /\ cfg' = cfg /\ UNCHANGED <<apc, n, cur, fly, nlive>> /\ Bursts'
        /\ Alone(k) /\ Fixed(bur'[k], bur[k])
    BY ThreadSteps
  <1>2. Last' = Last /\ Next_slot' = Next_slot
    BY <1>1 DEF Last, Next_slot
  <1>3. ASSUME NEW m \in Ring, m # k PROVE InStage(m)'
    <2>1. bur'[m] = bur[m] /\ InStage(m)
      BY <1>3, <1>1 DEF Alone, Stages
    <2> QED BY <1>1, <1>2, <2>1 DEF InStage, Phase, Unarmed
  <1>4. ASSUME PrepR(k) PROVE InStage(k)'
    <2>1. /\ bur[k].pc = "prep" /\ bur'[k].pc = "prepL" /\ bur'[k].col = bur[k].col
          /\ bur'[k].A = bur[k].A /\ bur'[k].L = bur[k].L /\ bur'[k].R.st = "ready"
      BY <1>0, <1>1, <1>4, PrepRWrites
    <2>2. bur[k].nb > 1
      BY <1>4 DEF PrepR, HasR, HasRef
    <2>3. apc \in {"ready", "failing"} /\ bur[k].live
      BY <1>0, <2>1 DEF InRing, Preparing
    <2> QED BY <1>0, <1>1, <1>2, <2>1, <2>2, <2>3 DEF InStage, InRing, Phase, Unarmed, Fixed
  <1>5. ASSUME PrepL(k) PROVE InStage(k)'
    <2>1. /\ bur[k].pc = (IF bur[k].nb > 1 THEN "prepL" ELSE "prep") /\ bur'[k].pc = "rbgate"
          /\ bur'[k].A = bur[k].A /\ bur'[k].R = bur[k].R /\ bur'[k].L.st = "ready"
      BY <1>0, <1>1, <1>5, PrepLWrites
    <2>3. apc \in {"ready", "failing"} /\ bur[k].live
      BY <1>0, <2>1 DEF InRing, Preparing
    <2> QED BY <1>0, <1>1, <1>2, <2>1, <2>3 DEF InStage, InRing, Phase, Unarmed, Fixed
  <1>6. ASSUME Encode(k) PROVE InStage(k)'
    <2>1. /\ bur[k].pc = "rbgate" /\ bur'[k].pc = "leaf" /\ bur'[k].col = bur[k].col
          /\ bur'[k].A = bur[k].A
          /\ bur'[k].R.st = (IF bur[k].nb > 1 THEN "run" ELSE bur[k].R.st)
          /\ bur'[k].L.st = "run"
      BY <1>0, <1>1, <1>6, EncodeWrites DEF Becomes
    <2> QED BY <1>0, <1>1, <1>2, <2>1 DEF InStage, InRing, Phase, Unarmed, Fixed
  <1>7. ASSUME LeafDone(k) PROVE InStage(k)'
    <2>1. /\ bur[k].pc = "leaf" /\ bur'[k].pc = "join" /\ (bur[k].nb > 1 => bur[k].R.st = "done")
          /\ bur'[k].A = bur[k].A /\ bur'[k].R = bur[k].R /\ bur'[k].L.st = "done"
          /\ bur'[k].col = bur[k].col
      BY <1>0, <1>1, <1>7, LeafDoneWrites DEF Becomes
    <2> QED BY <1>0, <1>1, <1>2, <2>1 DEF InStage, InRing, Phase, Unarmed, Fixed
  <1>8. ASSUME Join(k) PROVE InStage(k)'
    <2>1. /\ bur[k].pc = "join" /\ bur'[k].pc = "idle"
          /\ bur'[k].A = bur[k].A /\ bur'[k].R.st = bur[k].R.st /\ bur'[k].L = bur[k].L
          /\ bur'[k].col = bur[k].col
      BY <1>0, <1>1, <1>8, JoinWrites
    <2> QED BY <1>0, <1>1, <1>2, <2>1 DEF InStage, InRing, Phase, Unarmed, Fixed
  <1>9. ASSUME NEW j \in Kinds, Analyze(k, j) \/ Trail(k, j)
        PROVE  InStage(k)'
    <2>1. /\ bur'[k].pc = bur[k].pc /\ bur'[k].col = bur[k].col
          /\ bur'[k].A.st = bur[k].A.st /\ bur'[k].R.st = bur[k].R.st
          /\ bur'[k].L.st = bur[k].L.st
      <3>1. /\ bur'[k].pc = bur[k].pc /\ bur'[k].col = bur[k].col
            /\ AloneJob(k, j)
            /\ bur'[k][j].st = bur[k][j].st
        <4>1. CASE Analyze(k, j)
          BY <1>0, <1>1, <4>1, AnalyzeWrites DEF Kept
        <4>2. CASE Trail(k, j)
          <5>1. /\ bur'[k].pc = bur[k].pc /\ bur'[k].col = bur[k].col
                /\ AloneJob(k, j)
                /\ bur[k][j].st = "run" /\ bur'[k][j].st = "run"
            BY <1>0, <1>1, <4>2, TrailKeeps
          <5> QED BY <5>1
        <4> QED BY <1>9, <4>1, <4>2
      <3> QED BY <3>1 DEF Kinds, AloneJob
    <2> QED BY <1>0, <1>1, <1>2, <2>1 DEF InStage, Phase, Unarmed, Fixed
  <1>10. ASSUME NEW j \in Kinds, Emit(k, j) PROVE InStage(k)'
    <2>1. /\ bur'[k].pc = bur[k].pc /\ bur'[k].col = bur[k].col
          /\ AloneJob(k, j)
          /\ bur[k][j].st = "run" /\ bur'[k][j].st = "done" /\ j \in {"A", "R"}
      BY <1>0, <1>1, <1>10, EmitWrites DEF Kept
    <2>2. CASE j = "A"
      <3>1. bur'[k].R = bur[k].R /\ bur'[k].L = bur[k].L /\ bur[k].A.st = "run"
            /\ bur'[k].A.st = "done"
        BY <2>1, <2>2 DEF Kinds, AloneJob
      <3> QED BY <1>0, <1>1, <1>2, <2>1, <3>1 DEF InStage, Phase, Unarmed, Fixed
    <2>3. CASE j = "R"
      <3>1. bur'[k].A = bur[k].A /\ bur'[k].L = bur[k].L /\ bur[k].R.st = "run"
            /\ bur'[k].R.st = "done"
        BY <2>1, <2>3 DEF Kinds, AloneJob
      <3> QED BY <1>0, <1>1, <1>2, <2>1, <3>1 DEF InStage, Phase, Unarmed, Fixed
    <2> QED BY <2>1, <2>2, <2>3
  <1>11. InStage(k)'
    BY <1>4, <1>5, <1>6, <1>7, <1>8, <1>9, <1>10
  <1>12. Ring' = Ring
    BY DEF Ring
  <1> QED BY <1>3, <1>11, <1>12 DEF Stages

LEMMA StagesStart == Init => Stages
  <1> SUFFICES ASSUME Init, NEW k \in Ring PROVE InStage(k)
    BY DEF Stages
  <1>1. /\ apc = "ready" /\ n = 1 /\ nlive = 0 /\ bur[k] = NoBurst
    BY DEF Init
  <1> QED BY <1>1 DEF InStage, NoBurst, IdleJob, Phase, Unarmed, Last

LEMMA StagesPrep ==
  ASSUME cfg \in Shapes, Course, Stages, Prep PROVE Stages'
  <1>0. Bursts /\ Order /\ cfg' = cfg /\ UNCHANGED <<n, cur, fly, nlive>>
    BY PrepFrame DEF Course
  <1>1. n \in 1 .. Len(cfg.script) + 1 /\ Next_slot \in Ring /\ (fly # None => fly \in Ring)
        /\ cur \in Ring /\ nlive \in Nat /\ Age(Next_slot) = K - 1 /\ K \in Nat
    BY <1>0, RingFacts, FlyIs, ShapeFacts DEF Order, Turn
  <1>2. /\ Alone(Next_slot)
        /\ bur'[Next_slot].n = bur[Next_slot].n /\ bur'[Next_slot].live = bur[Next_slot].live
        /\ bur'[Next_slot].pc = bur[Next_slot].pc
        /\ bur'[Next_slot].A.st = "ready" /\ bur'[Next_slot].R.st = "off"
        /\ bur'[Next_slot].L.st = "off" /\ bur'[Next_slot].col = None
        /\ bur'[Next_slot].prevP = (IF cfg.wide THEN fly ELSE None)
        /\ apc = "ready" /\ apc' = "begin" /\ RingRoom
    BY <1>0, <1>1, PrepWrites
  <1>3. ~bur[Next_slot].live
    <2>1. nlive < K
      BY <1>0, <1>1, <1>2, ShapeFacts DEF RingRoom, Order, Turn
    <2> QED BY <1>0, <1>1, <2>1 DEF Order, InRing
  <1>4. Last' = Last /\ Next_slot' = Next_slot
    BY <1>0, <1>2 DEF Last, Next_slot
  <1>5. ASSUME NEW m \in Ring PROVE InStage(m)'
    <2>1. InStage(m) /\ InRing(m)
      BY <1>0 DEF Stages, Order
    <2>2. CASE m = Next_slot
      <3>1. bur[m].pc = "idle"
        BY <1>3, <2>1, <2>2 DEF InRing
      <3> QED BY <1>0, <1>2, <1>3, <1>4, <2>1, <2>2, <3>1 DEF InStage, Phase, Unarmed
    <2>3. CASE m # Next_slot
      <3>1. bur'[m] = bur[m]
        BY <1>2, <2>3 DEF Alone
      <3> QED BY <1>0, <1>2, <1>4, <2>1, <2>3, <3>1 DEF InStage, Phase, Unarmed
    <2> QED BY <2>2, <2>3
  <1> QED BY <1>5 DEF Stages, Ring

LEMMA StagesBegin ==
  ASSUME cfg \in Shapes, Course, Stages, Begin PROVE Stages'
  <1>0. Bursts /\ Order /\ cfg' = cfg
    BY DEF Course, Begin
  <1>1. n \in Nat /\ n > 0 /\ Next_slot \in Ring /\ cur \in Ring /\ nlive \in Nat
        /\ Age(Next_slot) = K - 1 /\ K \in Nat
    BY <1>0, RingFacts, ShapeFacts DEF Order, Turn
  <1>2. /\ Alone(Next_slot)
        /\ bur'[Next_slot].n = n /\ bur'[Next_slot].live = TRUE
        /\ IF Waits THEN bur'[Next_slot].fired = bur[Next_slot].fired
                         /\ bur'[Next_slot].pc = bur[Next_slot].pc
                    ELSE bur'[Next_slot].fired = FALSE /\ bur'[Next_slot].pc = "prep"
        /\ bur'[Next_slot].A.st = "run"
        /\ bur'[Next_slot].R = bur[Next_slot].R /\ bur'[Next_slot].L = bur[Next_slot].L
        /\ apc = "begin" /\ cur' = Next_slot /\ nlive' = nlive + 1
        /\ IF Waits THEN apc' = "retire" /\ n' = n ELSE apc' = "ready" /\ n' = n + 1
    BY <1>0, <1>1, BeginWrites, Zenon
  <1>3. ~bur[Next_slot].live
    <2>1. nlive < K
      BY <1>0, <1>2 DEF Order, Turn
    <2> QED BY <1>0, <1>1, <2>1 DEF Order, InRing
  <1>4. Last = n - 1 /\ Last' = n /\ (apc' = "retire" \/ apc' = "ready")
        /\ (apc' = "retire" <=> Waits) /\ Last' - nlive' = Last - nlive
    BY <1>1, <1>2 DEF Last
  <1>5. ASSUME NEW m \in Ring PROVE InStage(m)'
    <2>1. InStage(m) /\ InRing(m)
      BY <1>0 DEF Stages, Order
    <2>2. CASE m = Next_slot
      <3>1. bur[m].pc = "idle" /\ bur[m].R.st = "off" /\ bur[m].L.st = "off"
        BY <1>2, <1>3, <2>1, <2>2 DEF InRing, InStage
      <3>2. /\ bur'[m].live /\ bur'[m].n > 0 /\ bur'[m].A.st = "run" /\ bur'[m].R.st = "off"
            /\ bur'[m].L.st = "off" /\ bur'[m].pc \in {"idle", "prep"}
        BY <1>1, <1>2, <2>2, <3>1
      <3> QED BY <1>0, <1>4, <3>2 DEF InStage, Phase, Unarmed
    <2>3. CASE m # Next_slot
      <3>1. bur'[m] = bur[m]
        BY <1>2, <2>3 DEF Alone
      <3> QED BY <1>0, <1>2, <1>4, <2>1, <2>3, <3>1 DEF InStage, Phase, Unarmed
    <2> QED BY <2>2, <2>3
  <1> QED BY <1>5 DEF Stages, Ring

\* Who drains whom.
LEMMA DrainsOldest ==
  ASSUME cfg \in Shapes, Course, Drain
  PROVE  /\ nlive \in Nat /\ nlive > 0 /\ cur \in Ring
         /\ Oldest \in Ring /\ Age(Oldest) = nlive - 1 /\ bur[Oldest].live
         /\ bur[Oldest].n = Last - (nlive - 1)
         /\ Last' = Last /\ Last \in Nat
         /\ apc \in {"ready", "retire"} /\ apc' \in {"ready", "failing"}
         /\ fly = cur /\ (apc = "retire" => Oldest # cur /\ bur[cur].live)
  <1>0. Bursts /\ Order /\ cfg' = cfg
    BY DEF Course, Drain
  <1>1. nlive \in Nat /\ nlive > 0 /\ cur \in Ring /\ apc \in {"ready", "retire"}
    BY <1>0 DEF Drain, DrainDue, Order, Turn
  <1>2. Oldest \in Ring /\ Age(Oldest) = nlive - 1 /\ bur[Oldest].live
    BY <1>0, <1>1, OldestIs
  <1>3. apc' \in {"ready", "failing"} /\ n' = IF apc = "retire" THEN n + 1 ELSE n
    BY <1>0, <1>2, DrainWrites, Zenon
  <1>4. Last' = Last /\ Last \in Nat
    BY <1>0, <1>1, <1>3 DEF Last, Order, Turn
  <1>5. fly = cur /\ Age(cur) = 0
    BY <1>0, <1>1, RingFacts DEF Order, Turn
  <1>6. apc = "retire" => nlive = 2
    BY <1>0 DEF Order, Turn
  <1>7. apc = "retire" => Oldest # cur /\ bur[cur].live
    BY <1>0, <1>1, <1>2, <1>5, <1>6 DEF Order, InRing
  <1> QED BY <1>0, <1>1, <1>2, <1>3, <1>4, <1>5, <1>7 DEF Order, InRing

LEMMA StagesDrain ==
  ASSUME cfg \in Shapes, Course, Stages, Drain PROVE Stages'
  <1>0. Bursts /\ Order /\ cfg' = cfg
    BY DEF Course, Drain
  <1>1. /\ nlive \in Nat /\ nlive > 0 /\ cur \in Ring
        /\ Oldest \in Ring /\ Age(Oldest) = nlive - 1 /\ bur[Oldest].live
        /\ bur[Oldest].n = Last - (nlive - 1)
        /\ Last' = Last /\ Last \in Nat
        /\ apc \in {"ready", "retire"} /\ apc' \in {"ready", "failing"}
        /\ fly = cur /\ (apc = "retire" => Oldest # cur /\ bur[cur].live)
    BY DrainsOldest
  <1>2. /\ nlive' = nlive - 1
        /\ \A m \in Ring :
              /\ bur'[m].live = (m # Oldest /\ bur[m].live)
              /\ bur'[m].n = bur[m].n /\ bur'[m].nb = bur[m].nb
              /\ bur'[m].A = bur[m].A /\ bur'[m].R = bur[m].R /\ bur'[m].L = bur[m].L
              /\ IF m # Oldest /\ apc = "retire" /\ m = fly
                 THEN bur'[m].fired = FALSE /\ bur'[m].pc = "prep"
                 ELSE bur'[m].fired = bur[m].fired /\ bur'[m].pc = bur[m].pc
    BY <1>0, <1>1, DrainWrites, Zenon
  <1>3. ASSUME NEW m \in Ring PROVE InStage(m)'
    <2>1. InStage(m) /\ InRing(m) /\ bur[m].n \in Nat
      BY <1>0 DEF Stages, Order, Bursts, IsBurst
    <2>2. /\ bur'[m].live = (m # Oldest /\ bur[m].live)
          /\ bur'[m].n = bur[m].n /\ bur'[m].nb = bur[m].nb
          /\ bur'[m].A = bur[m].A /\ bur'[m].R = bur[m].R /\ bur'[m].L = bur[m].L
          /\ \/ bur'[m].pc = bur[m].pc
             \/ apc = "retire" /\ m = cur /\ bur'[m].pc = "prep"
      BY <1>1, <1>2
    <2>3. Phase(bur[m])'
      BY <2>1, <2>2 DEF InStage, Phase, Unarmed
    <2>4. ~bur'[m].live => bur'[m].n \in 0 .. Last' - nlive'
      <3>1. CASE m = Oldest
        BY <1>1, <1>2, <2>1, <2>2, <3>1
      <3>2. CASE m # Oldest
        <4>1. ~bur'[m].live => ~bur[m].live
          BY <2>2, <3>2
        <4>2. ~bur[m].live => bur[m].n \in 0 .. Last - nlive
          BY <2>1 DEF InStage
        <4> QED BY <1>1, <1>2, <2>2, <4>1, <4>2
      <3> QED BY <3>1, <3>2
    <2>5. bur'[m].live => bur[m].live
      BY <2>2
    <2> QED BY <1>0, <1>1, <2>1, <2>2, <2>3, <2>4, <2>5 DEF InStage, Unarmed
  <1> QED BY <1>3 DEF Stages, Ring

LEMMA StagesSteps ==
  ASSUME cfg \in Shapes, Course, Stages, [Next]_vars PROVE Stages'
  <1>0. Bursts /\ Order
    BY DEF Course
  <1>1. CASE CodeSerial \/ Close \/ Closed \/ UNCHANGED vars
    <2>1. /\ UNCHANGED <<cfg, bur, cur, fly, nlive>> /\ n' \in {n, n + 1}
          /\ apc' \in {apc, "closed"} /\ (apc # "ready" => n' = n)
          /\ (apc' # apc => apc \in {"ready", "failing"} /\ n' = n)
          /\ (n' # n => nlive = 0)
      BY <1>1 DEF CodeSerial, Close, Closed, vars, ctx
    <2>2. Last' \in {Last, Last + 1} /\ (Last' # Last => nlive = 0) /\ Last \in Nat
          /\ Next_slot' = Next_slot /\ nlive \in Nat /\ Last + 1 \in Nat
      <3>1. n \in Nat /\ n > 0 /\ nlive \in Nat
        BY <1>0 DEF Order, Turn
      <3>2. apc' = "retire" <=> apc = "retire"
        BY <2>1
      <3>3. apc = "retire" => n' = n
        BY <2>1
      <3>4. Last = (IF apc = "retire" THEN n ELSE n - 1)
            /\ Last' = (IF apc = "retire" THEN n' ELSE n' - 1)
        BY <3>2 DEF Last
      <3>5. Next_slot' = Next_slot
        BY <2>1 DEF Next_slot
      <3>6. CASE n' = n
        <4>1. Last' = Last /\ Last \in Nat
          BY <3>1, <3>2, <3>4, <3>6
        <4> QED BY <3>1, <3>5, <4>1
      <3>7. CASE n' = n + 1 /\ n' # n
        <4>1. apc # "retire" /\ nlive = 0
          BY <2>1, <3>3, <3>7
        <4>2. Last' = Last + 1 /\ Last \in Nat
          BY <3>1, <3>2, <3>4, <3>7, <4>1
        <4> QED BY <3>1, <3>5, <4>1, <4>2
      <3>8. n' = n \/ (n' = n + 1 /\ n' # n)
        BY <2>1, <3>1
      <3> QED BY <3>6, <3>7, <3>8
    <2>3. ASSUME NEW m \in Ring PROVE InStage(m)'
      <3>1. InStage(m) /\ bur[m].n \in Nat
        BY <1>0 DEF Stages, Bursts, IsBurst
      <3>2. ~bur[m].live => bur[m].n \in 0 .. Last' - nlive'
        BY <2>1, <2>2, <3>1 DEF InStage
      <3>3. Phase(bur[m])'
        BY <2>1, <3>1 DEF InStage, Phase
      <3>4. /\ apc' = "retire" => apc = "retire"
            /\ apc' = "begin" => apc = "begin"
        BY <2>1
      <3> QED BY <2>1, <2>2, <3>1, <3>2, <3>3, <3>4 DEF InStage, Unarmed
    <2> QED BY <2>3 DEF Stages, Ring
  <1> QED BY <1>1, StagesPrep, StagesBegin, StagesDrain, StagesThreads DEF Next

-----------------------------------------------------------------------------
(* The watermarks and what is final.                                        *)

HasRefB(m) == m \in 1 .. Len(cfg.script) /\ cfg.script[m] > 1
AFin(m) == fin[<<m, "A">>] = Rows
RFin(m) == HasRefB(m) => fin[<<m, "R">>] = Rows

\* The watermarks of a slot are those of the pictures it holds; a chain that
\* has run to its end leaves final pictures.
Marked(k) ==
    LET b == bur[k]
    IN  /\ b.n > 0 => fin[<<b.n, "A">>] = b.A.pub
        /\ b.R.st # "off" => fin[<<b.n, "R">>] = b.R.pub
        /\ b.R.st = "off" /\ b.live => fin[<<b.n, "R">>] = -1
        /\ b.R.st = "done" => fin[<<b.n, "R">>] = Rows /\ b.R.arow = Rows
        /\ b.refb_done > 0 /\ b.n > 0 => fin[<<b.n, "R">>] = Rows
        /\ b.live /\ b.pc = "idle" /\ ~Unarmed(k) => AFin(b.n) /\ RFin(b.n)
        /\ b.L.st = "done" => AFin(b.n)

\* Retired mini-GOPs are final, the ones to come are not begun.
Final ==
    /\ DOMAIN fin = Pics /\ \A p \in Pics : fin[p] \in -1 .. Rows
    /\ \A p \in Pics : p[1] > Last => fin[p] = -1
    /\ \A m \in 0 .. Last - nlive : AFin(m) /\ RFin(m)
Marks == Final /\ \A k \in Ring : Marked(k)

LEMMA RunsInPics ==
  ASSUME cfg \in Shapes, Course, Stages, NEW k \in Ring
  PROVE  /\ bur[k].n \in 0 .. Len(cfg.script) /\ bur[k].n <= Last
         /\ \A j \in Kinds : <<bur[k].n, j>> \in Pics
         /\ Last \in Nat /\ nlive \in Nat /\ Last <= Len(cfg.script) /\ Len(cfg.script) \in Nat
  <1>1. Last \in Nat /\ Last <= Len(cfg.script) /\ nlive \in Nat /\ Len(cfg.script) \in Nat
    BY ShapeFacts DEF Course, Order, Turn, Last
  <1>2. Age(k) \in Nat
    BY RingFacts, ShapeFacts DEF Course, Order, Turn
  <1>3. bur[k].n \in 0 .. Len(cfg.script) /\ bur[k].n <= Last
    <2>1. CASE bur[k].live
      BY <1>1, <1>2, <2>1 DEF Course, Order, InRing
    <2>2. CASE ~bur[k].live
      BY <1>1, <2>2 DEF Stages, InStage
    <2> QED BY <2>1, <2>2
  <1> QED BY <1>1, <1>3 DEF Pics

\* No other slot holds the mini-GOP of a live one.
LEMMA OneSlot ==
  ASSUME cfg \in Shapes, Course, Stages, NEW k \in Ring, bur[k].live, NEW m \in Ring, m # k
  PROVE  bur[m].n # bur[k].n
  <1>1. Last \in Nat /\ nlive \in Nat /\ Age(k) \in Nat /\ Age(m) \in Nat /\ Age(m) # Age(k)
    BY RunsInPics, RingFacts, ShapeFacts DEF Course, Order, Turn
  <1>2. bur[k].n = Last - Age(k) /\ Age(k) < nlive
    BY DEF Course, Order, InRing
  <1>3. CASE bur[m].live
    BY <1>1, <1>2, <1>3 DEF Course, Order, InRing
  <1>4. CASE ~bur[m].live
    <2>1. bur[m].n \in 0 .. Last - nlive
      BY <1>4 DEF Stages, InStage
    <2> QED BY <1>1, <1>2, <2>1
  <1> QED BY <1>3, <1>4

\* A row published is one of a live burst, and of a picture not yet final.
LEMMA TrailMarks ==
  ASSUME cfg \in Shapes, Course, Stages, Marks, NEW k \in Ring, NEW j \in Kinds, Trail(k, j)
  PROVE  \E w \in 0 .. Rows :
            /\ bur[k].live /\ j \in {"A", "R"} /\ bur[k].n \in 1 .. Last
            /\ <<bur[k].n, j>> \in Pics /\ fin[<<bur[k].n, j>>] = bur[k][j].pub
            /\ bur[k][j].pub < w /\ bur'[k][j].pub = w
            /\ fin[<<bur[k].n, j>>] # Rows
            /\ DOMAIN fin' = Pics /\ fin'[<<bur[k].n, j>>] = w
            /\ \A q \in Pics : q # <<bur[k].n, j>> => fin'[q] = fin[q]
            /\ bur'[k].refb_done = IF j = "R" /\ w = Rows THEN bur[k].refb_done + 1
                                   ELSE bur[k].refb_done
  <1>0. Bursts /\ Order /\ Rows \in Nat /\ cfg' = cfg /\ IsBurst(bur[k]) /\ IsJob(bur[k][j])
    BY ShapeFacts DEF Course, Trail, Bursts, IsBurst, Kinds
  <1>1. PICK w \in 0 .. Rows :
              /\ w > bur[k][j].pub
              /\ bur'[k][j].pub = w /\ fin' = [fin EXCEPT ![<<bur[k].n, j>>] = w]
              /\ bur'[k].refb_done = IF j = "R" /\ w = Rows THEN bur[k].refb_done + 1
                                     ELSE bur[k].refb_done
    BY <1>0, TrailWrites
  <1>2. j \in {"A", "R"} /\ bur[k][j].st = "run"
    BY <1>0, TrailKeeps
  <1>3. bur[k].n \in 0 .. Len(cfg.script) /\ bur[k].n <= Last /\ <<bur[k].n, j>> \in Pics
        /\ Last \in Nat
    BY RunsInPics
  <1>4. bur[k].n > 0 /\ fin[<<bur[k].n, j>>] = bur[k][j].pub
        /\ (j = "R" => HasRefB(bur[k].n))
    <2>1. CASE j = "A"
      BY <1>2, <1>3, <2>1 DEF Stages, InStage, Marks, Marked
    <2>2. CASE j = "R"
      <3>1. bur[k].R.st # "off"
        BY <1>2, <2>2
      <3>2. bur[k].n \in 1 .. Len(cfg.script) /\ bur[k].nb = cfg.script[bur[k].n] /\ bur[k].nb > 1
        BY <3>1 DEF Stages, InStage
      <3>3. HasRefB(bur[k].n) /\ bur[k].n > 0
        BY <3>2 DEF HasRefB
      <3>4. Marked(k)
        BY DEF Marks
      <3>5. fin[<<bur[k].n, "R">>] = bur[k].R.pub
        BY <3>1, <3>4 DEF Marked
      <3> QED BY <2>2, <3>3, <3>5
    <2> QED BY <1>2, <2>1, <2>2
  <1>5. fin[<<bur[k].n, j>>] # Rows /\ bur[k][j].pub < w
    BY <1>0, <1>1, <1>4 DEF IsJob
  <1>6. bur[k].live
    <2> SUFFICES ASSUME ~bur[k].live PROVE FALSE
      OBVIOUS
    <2>1. bur[k].n \in 0 .. Last - nlive
      BY DEF Stages, InStage
    <2>2. AFin(bur[k].n) /\ RFin(bur[k].n)
      BY <2>1 DEF Marks, Final
    <2> QED BY <1>2, <1>4, <1>5, <2>2 DEF AFin, RFin
  <1>7. DOMAIN fin = Pics
    BY DEF Marks, Final
  <1>8. /\ DOMAIN fin' = Pics /\ fin'[<<bur[k].n, j>>] = w
        /\ \A q \in Pics : q # <<bur[k].n, j>> => fin'[q] = fin[q]
    BY <1>1, <1>3, <1>7
  <1>9. bur[k].n \in 1 .. Last
    BY <1>3, <1>4
  <1> QED BY <1>1, <1>2, <1>3, <1>4, <1>5, <1>6, <1>8, <1>9

\* Finality, from the values.
LEMMA FinalAfter ==
  ASSUME cfg' = cfg
  PROVE  /\ Pics' = Pics /\ Rows' = Rows /\ Lag' = Lag /\ Ring' = Ring
         /\ \A m : AFin(m)' <=> fin'[<<m, "A">>] = Rows
         /\ \A m : RFin(m)' <=> (HasRefB(m) => fin'[<<m, "R">>] = Rows)
         /\ \A m : HasRefB(m)' <=> HasRefB(m)
  BY DEF Pics, Rows, Lag, Ring, AFin, RFin, HasRefB

\* No step takes a final row back.
Grows == \A p \in Pics : fin'[p] \in -1 .. Rows /\ fin[p] \in -1 .. Rows /\ fin[p] <= fin'[p]

LEMMA FinGrows ==
  ASSUME cfg \in Shapes, Course, Stages, Marks, [Next]_vars
  PROVE  Grows /\ DOMAIN fin' = Pics
  <1>0. /\ DOMAIN fin = Pics /\ (\A p \in Pics : fin[p] \in -1 .. Rows) /\ Rows \in Nat
    BY ShapeFacts DEF Marks, Final
  <1>1. CASE fin' = fin
    BY <1>0, <1>1 DEF Grows
  <1>2. ASSUME NEW k \in Ring, NEW j \in Kinds, Trail(k, j)
        PROVE  Grows /\ DOMAIN fin' = Pics
    <2>1. PICK w \in 0 .. Rows :
            /\ fin[<<bur[k].n, j>>] = bur[k][j].pub
            /\ bur[k][j].pub < w
            /\ DOMAIN fin' = Pics /\ fin'[<<bur[k].n, j>>] = w
            /\ \A q \in Pics : q # <<bur[k].n, j>> => fin'[q] = fin[q]
      BY <1>2, TrailMarks
    <2>2. ASSUME NEW p \in Pics
          PROVE  fin'[p] \in -1 .. Rows /\ fin[p] \in -1 .. Rows /\ fin[p] <= fin'[p]
      BY <1>0, <2>1
    <2> QED BY <2>1, <2>2 DEF Grows
  <1>3. CASE CodeSerial
    <2>1. fin' = [fin EXCEPT ![<<n, "A">>] = Rows]
      BY <1>3 DEF CodeSerial
    <2> QED BY <1>0, <2>1 DEF Grows
  <1>4. CASE Prep \/ Begin \/ Drain \/ Close \/ Closed \/ UNCHANGED vars
    <2>1. fin' = fin
      <3>1. CASE Prep
        BY <3>1, PrepFrame
      <3>2. CASE Begin \/ Drain \/ Close \/ Closed \/ UNCHANGED vars
        BY <3>2, Zenon DEF Begin, Drain, Close, Closed, vars
      <3> QED BY <1>4, <3>1, <3>2
    <2> QED BY <1>1, <2>1
  <1>5. ASSUME NEW k \in Ring, PrepR(k) \/ PrepL(k) \/ Encode(k) \/ LeafDone(k) \/ Join(k)
        PROVE  Grows /\ DOMAIN fin' = Pics
    <2>1. fin' = fin
      BY <1>5, Zenon DEF PrepR, PrepL, Encode, LeafDone, Join
    <2> QED BY <1>1, <2>1
  <1>6. ASSUME NEW k \in Ring, NEW j \in Kinds, Analyze(k, j) \/ Emit(k, j)
        PROVE  Grows /\ DOMAIN fin' = Pics
    <2>1. fin' = fin
      BY <1>6 DEF Analyze, Emit
    <2> QED BY <1>1, <2>1
  <1> QED BY <1>2, <1>3, <1>4, <1>5, <1>6 DEF Next

-----------------------------------------------------------------------------
(* What a burst may rely on, and what its jobs read.                        *)

\* Something but the newest anchor reads pixels of the mini-GOP before.
Deep == cfg.nref > 1 \/ ~cfg.wide

\* The chain of k will wait for the reference B of mini-GOP m.
GateOn(k, m) ==
    /\ bur[k].rbgate \in Ring /\ bur[k].rbseq = m /\ HasRefB(m)
    /\ bur[bur[k].rbgate].n = m /\ bur[bur[k].rbgate].nb = cfg.script[m]

\* The pictures before the burst of slot k are final, but those of the
\* mini-GOP just before it, which its chain has yet to wait for.
Behind(k) ==
    LET b == bur[k]
    IN  b.live =>
          /\ \A i \in 0 .. b.n - 2 : AFin(i)
          /\ \/ Unarmed(k)
             \/ AFin(b.n - 1)
             \/ b.pc = "prep" /\ b.prevP \in Ring /\ bur[b.prevP].n = b.n - 1 /\ b.n > 1
          /\ Deep => \A i \in 0 .. b.n - 2 : RFin(i)
          /\ Deep /\ (Preparing(b) \/ b.pc = "rbgate") => RFin(b.n - 1) \/ GateOn(k, b.n - 1)
Ahead ==
    apc = "begin" /\ cfg.nref > 1 =>
      /\ \A i \in 0 .. n - 2 : RFin(i)
      /\ RFin(n - 1) \/ (fly # None /\ bur[Next_slot].rbgate = fly /\ GateOn(Next_slot, n - 1))
History == Ahead /\ \A k \in Ring : Behind(k)

\* A reference read row by row is final, or one of the job's gates follows it.
Streams(r, q) ==
    \/ fin[r.pic] = Rows
    \/ \E g \in q.gates : /\ r.pic = <<bur[g[1]].n, g[2]>> /\ bur[g[1]].n > 0
                          /\ g[2] = "R" => bur[g[1]].R.st # "off"

Referenced(q) == \A r \in q.refs : r.pic \in RefPics
Streamed(q) == q.st = "ready" \/ (q.st = "run" /\ q.arow < Rows) =>
                 \A r \in q.refs : r.part => Streams(r, q)
Settled(q, j) == q.st = "run" \/ (q.st = "ready" /\ j = "A") =>
                   \A r \in q.refs : ~r.part => fin[r.pic] = Rows
Awaited(k, q) == \A r \in q.refs : ~r.part =>
                   fin[r.pic] = Rows \/ (Deep /\ r.pic = <<bur[k].n - 1, "R">>)
Clear(q) == q.st \in {"run", "done"} /\ q.arow > 0 =>
              \A r \in q.refs : r.part => fin[r.pic] >= Least((q.arow - 1) + Lag, Rows)
FromA(k, q) == \E r \in q.refs : r.part /\ r.pic = <<bur[k].n, "A">>
FromR(k, q) == \E r \in q.refs : r.part /\ r.pic = <<bur[k].n, "R">>

Reads(k, j) ==
    LET q == bur[k][j]
    IN  /\ Referenced(q) /\ Streamed(q) /\ Settled(q, j) /\ Clear(q)
        /\ q.st = "ready" /\ j # "A" => Awaited(k, q) /\ q.arow = 0
        /\ q.st # "off" /\ j = "R" => FromA(k, q)
        /\ q.st # "off" /\ j = "L" => FromA(k, q) \/ (FromR(k, q) /\ bur[k].R.st # "off")
Jobs == \A k \in Ring, j \in Kinds : Reads(k, j)

\* The colocated field of the newest burst is in one of its own pictures.
Colocated ==
    fly # None =>
      LET c == bur[cur].col
      IN  /\ Preparing(bur[cur]) \/ apc = "retire" => c = None
          /\ c # None => c \in Slots /\ dpb[c].pic \in RefPics /\ dpb[c].pic[1] = Last

-----------------------------------------------------------------------------
(* What stays.                                                              *)

LEMMA RefInPics ==
  ASSUME NEW p \in RefPics
  PROVE  /\ p \in Pics /\ p = <<p[1], p[2]>> /\ p[1] \in 0 .. Len(cfg.script)
         /\ p[2] \in {"A", "R"} /\ (p[2] = "R" => HasRefB(p[1]))
  BY DEF RefPics, Pics, Kinds, HasRefB

LEMMA StaysFinal ==
  ASSUME cfg' = cfg, Rows \in Nat, Grows
  PROVE  /\ \A p \in Pics : fin[p] = Rows => fin'[p] = Rows
         /\ \A m \in 0 .. Len(cfg.script) : (AFin(m) => AFin(m)') /\ (RFin(m) => RFin(m)')
  <1>1. \A p \in Pics : fin[p] = Rows => fin'[p] = Rows
    BY DEF Grows
  <1>2. \A m \in 0 .. Len(cfg.script) : <<m, "A">> \in Pics /\ <<m, "R">> \in Pics
    BY DEF Pics, Kinds
  <1> QED BY <1>1, <1>2 DEF AFin, RFin, HasRefB, Rows

\* Each slot keeps its pictures, or they are final.
GatesKeep ==
    \A m \in Ring : \/ bur'[m].n = bur[m].n /\ (bur[m].R.st # "off" => bur'[m].R.st # "off")
                    \/ AFin(bur[m].n) /\ RFin(bur[m].n)
NextStreams(r, q) ==
    \/ fin'[r.pic] = Rows
    \/ \E g \in q.gates : /\ r.pic = <<bur'[g[1]].n, g[2]>> /\ bur'[g[1]].n > 0
                          /\ g[2] = "R" => bur'[g[1]].R.st # "off"

LEMMA StreamsStay ==
  ASSUME cfg' = cfg, Rows \in Nat, Grows, GatesKeep,
         NEW r, r.pic \in RefPics, NEW q, \A g \in q.gates : g[1] \in Ring, Streams(r, q)
  PROVE  NextStreams(r, q)
  <1>1. r.pic \in Pics
    BY RefInPics
  <1>2. CASE fin[r.pic] = Rows
    BY <1>1, <1>2, StaysFinal DEF NextStreams
  <1>3. ASSUME NEW g \in q.gates, r.pic = <<bur[g[1]].n, g[2]>>, bur[g[1]].n > 0,
               g[2] = "R" => bur[g[1]].R.st # "off"
        PROVE  NextStreams(r, q)
    <2>1. CASE bur'[g[1]].n = bur[g[1]].n
               /\ (bur[g[1]].R.st # "off" => bur'[g[1]].R.st # "off")
      BY <1>3, <2>1 DEF NextStreams
    <2>2. CASE AFin(bur[g[1]].n) /\ RFin(bur[g[1]].n)
      <3>1. g[2] \in {"A", "R"} /\ (g[2] = "R" => HasRefB(bur[g[1]].n))
        BY <1>3, RefInPics
      <3>2. fin[r.pic] = Rows
        BY <1>3, <2>2, <3>1 DEF AFin, RFin
      <3> QED BY <1>1, <3>2, StaysFinal DEF NextStreams
    <2>3. g[1] \in Ring
      OBVIOUS
    <2> QED BY <2>1, <2>2, <2>3 DEF GatesKeep
  <1> QED BY <1>2, <1>3 DEF Streams

\* A job whose rows and references a step leaves alone.
LEMMA ReadsStay ==
  ASSUME cfg' = cfg, Rows \in Nat, Lag \in Nat, Grows, GatesKeep,
         NEW k \in Ring, NEW j \in Kinds,
         IsJob(bur[k][j]), Reads(k, j),
         bur'[k][j].st = bur[k][j].st, bur'[k][j].arow = bur[k][j].arow,
         bur'[k][j].refs = bur[k][j].refs, bur'[k][j].gates = bur[k][j].gates,
         bur'[k].n = bur[k].n, bur[k].R.st # "off" => bur'[k].R.st # "off"
  PROVE  Reads(k, j)'
  <1> DEFINE q == bur[k][j]
             o == bur'[k][j]
  <1>0. /\ Rows' = Rows /\ Lag' = Lag /\ RefPics' = RefPics /\ (Deep' <=> Deep)
        /\ \A r \in q.refs : r.pic \in RefPics /\ r.pic \in Pics
        /\ \A g \in q.gates : g[1] \in Ring
    BY RefInPics DEF Rows, Lag, RefPics, Pics, Deep, Reads, Referenced, IsJob
  <1>1. Referenced(q)'
    BY <1>0 DEF Referenced
  <1>2. Streamed(q)'
    <2> SUFFICES ASSUME q.st = "ready" \/ (q.st = "run" /\ q.arow < Rows),
                        NEW r \in q.refs, r.part
                 PROVE  NextStreams(r, o)
      BY <1>0 DEF Streamed, Streams, NextStreams
    <2>1. Streams(r, q)
      BY DEF Reads, Streamed
    <2>2. NextStreams(r, q)
      <3> HIDE DEF q
      <3> QED BY <1>0, <2>1, StreamsStay
    <2> QED BY <2>2 DEF NextStreams
  <1>3. \A r \in q.refs : fin[r.pic] = Rows => fin'[r.pic] = Rows
    BY <1>0, StaysFinal
  <1>4. \A r \in q.refs : fin[r.pic] \in Int /\ fin'[r.pic] \in Int /\ fin[r.pic] <= fin'[r.pic]
    BY <1>0 DEF Grows
  <1>5. Settled(q, j)'
    BY <1>0, <1>3 DEF Reads, Settled
  <1>6. Clear(q)'
    <2> DEFINE w == Least((q.arow - 1) + Lag, Rows)
    <2>1. w \in Int
      BY DEF IsJob, Least
    <2>2. Clear(q) <=> (q.st \in {"run", "done"} /\ q.arow > 0 =>
                          \A r \in q.refs : r.part => fin[r.pic] >= w)
      BY DEF Clear
    <2>3. Clear(q)' <=> (q.st \in {"run", "done"} /\ q.arow > 0 =>
                          \A r \in q.refs : r.part => fin'[r.pic] >= w)
      BY <1>0 DEF Clear, Least
    <2>4. Clear(q)
      BY DEF Reads
    <2> HIDE DEF w, q
    <2> QED BY <1>4, <2>1, <2>2, <2>3, <2>4
  <1>7. Awaited(k, q) => Awaited(k, q)'
    BY <1>0, <1>3 DEF Awaited
  <1>8. (FromA(k, q) => FromA(k, q)') /\ (FromR(k, q) => FromR(k, q)')
    BY DEF FromA, FromR
  <1> QED BY <1>1, <1>2, <1>5, <1>6, <1>7, <1>8 DEF Reads

\* A slot whose watermarks and stage a step leaves alone.
LEMMA MarkedStays ==
  ASSUME cfg' = cfg, NEW m \in Ring, Marked(m),
         bur'[m].n = bur[m].n, bur'[m].A.pub = bur[m].A.pub,
         bur'[m].R.st = bur[m].R.st, bur'[m].R.pub = bur[m].R.pub,
         bur'[m].R.arow = bur[m].R.arow, bur'[m].L.st = bur[m].L.st,
         bur'[m].refb_done = bur[m].refb_done,
         bur'[m].live => bur[m].live,
         bur'[m].live /\ bur'[m].pc = "idle" /\ ~Unarmed(m)' => bur[m].pc = "idle" /\ ~Unarmed(m),
         \A j \in {"A", "R"} : fin'[<<bur[m].n, j>>] = fin[<<bur[m].n, j>>]
  PROVE  Marked(m)'
  <1>1. Rows' = Rows /\ (AFin(bur[m].n) => AFin(bur[m].n)') /\ (RFin(bur[m].n) => RFin(bur[m].n)')
    BY DEF Rows, AFin, RFin, HasRefB
  <1>2. fin'[<<bur[m].n, "A">>] = fin[<<bur[m].n, "A">>]
        /\ fin'[<<bur[m].n, "R">>] = fin[<<bur[m].n, "R">>]
    OBVIOUS
  <1> QED BY <1>1, <1>2 DEF Marked, AFin, RFin, HasRefB

\* Once the leaves are analysed the anchor they read is final, and the
\* reference B's is if they read that one instead.
LEMMA LeafSees ==
  ASSUME cfg \in Shapes, Course, Stages, Marks, Jobs, NEW k \in Ring, LeafDone(k)
  PROVE  AFin(bur[k].n)
  <1>0. Bursts /\ cfg' = cfg /\ Rows \in Nat /\ Rows > 0 /\ Lag \in Nat /\ Lag > 0
        /\ InStage(k) /\ IsBurst(bur[k]) /\ Marked(k)
    BY ShapeFacts DEF Course, LeafDone, Stages, Bursts, Marks
  <1>1. bur[k].pc = "leaf" /\ bur[k].L.arow = Rows /\ (bur[k].nb > 1 => bur[k].R.st = "done")
    BY <1>0, LeafDoneWrites
  <1>2. bur[k].L.st = "run"
    BY <1>0, <1>1 DEF InStage, Phase
  <1>3. Reads(k, "L") /\ Reads(k, "R")
    BY DEF Jobs, Kinds
  <1>4. Least((Rows - 1) + Lag, Rows) = Rows
    BY <1>0 DEF Least
  <1>5. \A r \in bur[k].L.refs : r.part => fin[r.pic] >= Rows
    <2>1. Clear(bur[k].L)
      BY <1>3 DEF Reads
    <2> QED BY <1>0, <1>1, <1>2, <1>4, <2>1 DEF Clear
  <1>6. \A r : r.pic \in Pics /\ fin[r.pic] >= Rows => fin[r.pic] = Rows
    BY <1>0 DEF Marks, Final
  <1>7. <<bur[k].n, "A">> \in Pics
    BY RunsInPics DEF Kinds
  <1>8. CASE FromA(k, bur[k].L)
    <2>1. fin[<<bur[k].n, "A">>] >= Rows
      BY <1>5, <1>8 DEF FromA
    <2> QED BY <1>0, <1>7, <2>1 DEF AFin, Marks, Final
  <1>9. CASE FromR(k, bur[k].L) /\ bur[k].R.st # "off"
    <2>1. bur[k].R.st = "done" /\ bur[k].R.arow = Rows
      BY <1>0, <1>1, <1>9 DEF InStage, Phase, Marked
    <2>2. Clear(bur[k].R) /\ FromA(k, bur[k].R)
      BY <1>3, <2>1 DEF Reads
    <2>3. fin[<<bur[k].n, "A">>] >= Rows
      BY <1>0, <1>4, <2>1, <2>2 DEF Clear, FromA
    <2> QED BY <1>0, <1>7, <2>3 DEF AFin, Marks, Final
  <1> QED BY <1>2, <1>3, <1>8, <1>9 DEF Reads

LEMMA MarksThreads ==
  ASSUME cfg \in Shapes, Course, Stages, Marks, Jobs, NEW k \in Ring,
         \/ PrepR(k) \/ PrepL(k) \/ Encode(k) \/ LeafDone(k) \/ Join(k)
         \/ \E j \in Kinds : Analyze(k, j) \/ Trail(k, j) \/ Emit(k, j)
  PROVE  Marks'
  <1>0. /\ Bursts /\ Order /\ Rows \in Nat /\ Rows > 1
        /\ InStage(k) /\ IsBurst(bur[k]) /\ Marked(k) /\ InRing(k)
    BY ShapeFacts DEF Course, Stages, Bursts, Marks, Order
  <1>1. /\ cfg' = cfg /\ UNCHANGED <<apc, n, cur, fly, nlive>> /\ Bursts'
        /\ Alone(k) /\ Fixed(bur'[k], bur[k])
    BY ThreadSteps
  <1>2. Last' = Last /\ (\A m : Unarmed(m)' <=> Unarmed(m)) /\ Rows' = Rows
        /\ Pics' = Pics /\ Ring' = Ring
    BY <1>1 DEF Last, Unarmed, Rows, Pics, Ring
  <1>3. Grows /\ DOMAIN fin' = Pics
    <2>1. [Next]_vars
      BY DEF Next
    <2> QED BY <2>1, FinGrows
  <1>4. \A m \in 0 .. Last - nlive : AFin(m)' /\ RFin(m)'
    <2>1. Last \in Nat /\ nlive \in Nat /\ Last <= Len(cfg.script) /\ Len(cfg.script) \in Nat
      BY RunsInPics
    <2>2. \A m \in 0 .. Last - nlive : m \in 0 .. Len(cfg.script)
      BY <2>1
    <2> QED BY <1>0, <1>1, <1>3, <2>2, StaysFinal DEF Marks, Final
  <1>5. \A p \in Pics : p[1] > Last => fin'[p] = -1
    <2>1. CASE fin' = fin
      BY <2>1 DEF Marks, Final
    <2>2. ASSUME NEW j \in Kinds, Trail(k, j), NEW p \in Pics, p[1] > Last PROVE fin'[p] = -1
      <3>1. /\ bur[k].n \in 1 .. Last
            /\ \A q \in Pics : q # <<bur[k].n, j>> => fin'[q] = fin[q]
        BY <2>2, TrailMarks
      <3>2. p # <<bur[k].n, j>>
        <4>1. Last \in Nat
          BY RunsInPics
        <4> QED BY <2>2, <3>1, <4>1
      <3> QED BY <2>2, <3>1, <3>2 DEF Marks, Final
    <2>3. fin' = fin \/ \E j \in Kinds : Trail(k, j)
      BY Zenon DEF PrepR, PrepL, Encode, LeafDone, Join, Analyze, Emit
    <2> QED BY <2>1, <2>2, <2>3
  <1>6. Final'
    BY <1>1, <1>2, <1>3, <1>4, <1>5 DEF Final, Grows
  <1>7. ASSUME NEW m \in Ring, m # k PROVE Marked(m)'
    <2>1. bur'[m] = bur[m] /\ Marked(m)
      BY <1>1, <1>7 DEF Alone, Marks
    <2>2. \A j \in {"A", "R"} : fin'[<<bur[m].n, j>>] = fin[<<bur[m].n, j>>]
      <3>1. CASE fin' = fin
        BY <3>1
      <3>2. ASSUME NEW i \in Kinds, Trail(k, i), NEW j \in {"A", "R"}
            PROVE  fin'[<<bur[m].n, j>>] = fin[<<bur[m].n, j>>]
        <4>1. /\ bur[k].live /\ \A q \in Pics : q # <<bur[k].n, i>> => fin'[q] = fin[q]
          BY <3>2, TrailMarks
        <4>2. bur[m].n # bur[k].n
          BY <1>7, <4>1, OneSlot
        <4>3. <<bur[m].n, j>> \in Pics
          BY RunsInPics, Zenon DEF Kinds
        <4> QED BY <4>1, <4>2, <4>3
      <3>3. fin' = fin \/ \E j \in Kinds : Trail(k, j)
        BY Zenon DEF PrepR, PrepL, Encode, LeafDone, Join, Analyze, Emit
      <3> QED BY <3>1, <3>2, <3>3
    <2> QED BY <1>1, <1>2, <2>1, <2>2, MarkedStays
  <1>8. ASSUME PrepR(k) PROVE Marked(k)'
    <2>1. fin' = fin
      BY <1>8 DEF PrepR
    <2>2. /\ bur[k].pc = "prep" /\ bur'[k].pc = "prepL"
          /\ bur'[k].refb_done = bur[k].refb_done
          /\ bur'[k].A = bur[k].A /\ bur'[k].L = bur[k].L
          /\ bur'[k].R.st = "ready" /\ bur'[k].R.arow = 0 /\ bur'[k].R.pub = -1
      BY <1>0, <1>1, <1>8, PrepRWrites
    <2>3. bur[k].R.st = "off" /\ bur[k].live
      BY <1>0, <2>2 DEF InStage, Phase, InRing, Preparing
    <2>4. fin[<<bur[k].n, "R">>] = -1
      BY <1>0, <2>3 DEF Marked
    <2> QED BY <1>0, <1>1, <1>2, <2>1, <2>2, <2>3, <2>4 DEF Marked, Fixed, AFin, RFin, HasRefB
  <1>9. ASSUME PrepL(k) PROVE Marked(k)'
    <2>1. fin' = fin
      BY <1>9, Zenon DEF PrepL
    <2>2. /\ bur'[k].pc = "rbgate" /\ bur'[k].refb_done = bur[k].refb_done
          /\ bur'[k].A = bur[k].A /\ bur'[k].R = bur[k].R
          /\ bur'[k].L.st = "ready"
      BY <1>0, <1>1, <1>9, PrepLWrites
    <2> QED BY <1>0, <1>1, <1>2, <2>1, <2>2 DEF Marked, Fixed, AFin, RFin, HasRefB
  <1>10. ASSUME Encode(k) PROVE Marked(k)'
    <2>1. fin' = fin
      BY <1>10 DEF Encode
    <2>2. /\ bur[k].pc = "rbgate" /\ bur'[k].pc = "leaf" /\ bur'[k].refb_done = bur[k].refb_done
          /\ bur'[k].A = bur[k].A
          /\ bur'[k].R.st = (IF bur[k].nb > 1 THEN "run" ELSE bur[k].R.st)
          /\ bur'[k].R.pub = bur[k].R.pub /\ bur'[k].R.arow = bur[k].R.arow
          /\ bur'[k].L.st = "run"
      BY <1>0, <1>1, <1>10, EncodeWrites DEF Becomes
    <2>3. bur[k].R.st = (IF bur[k].nb > 1 THEN "ready" ELSE "off")
      BY <1>0, <2>2 DEF InStage, Phase
    <2> QED BY <1>0, <1>1, <1>2, <2>1, <2>2, <2>3 DEF Marked, Fixed, AFin, RFin, HasRefB
  <1>11. ASSUME LeafDone(k) PROVE Marked(k)'
    <2>1. fin' = fin
      BY <1>11 DEF LeafDone
    <2>2. /\ bur'[k].pc = "join" /\ bur'[k].refb_done = bur[k].refb_done
          /\ bur'[k].A = bur[k].A /\ bur'[k].R = bur[k].R
      BY <1>0, <1>1, <1>11, LeafDoneWrites
    <2>3. AFin(bur[k].n)
      BY <1>11, LeafSees
    <2> QED BY <1>0, <1>1, <1>2, <2>1, <2>2, <2>3 DEF Marked, Fixed, AFin, RFin, HasRefB
  <1>12. ASSUME Join(k) PROVE Marked(k)'
    <2>1. fin' = fin
      BY <1>12 DEF Join
    <2>2. /\ bur[k].pc = "join" /\ bur'[k].refb_done = (IF bur[k].nb > 1 THEN 1 ELSE 0)
          /\ bur'[k].A = bur[k].A /\ bur'[k].L = bur[k].L
          /\ bur'[k].R.st = bur[k].R.st /\ bur'[k].R.arow = bur[k].R.arow
          /\ bur'[k].R.pub = (IF bur[k].nb > 1 THEN Rows ELSE bur[k].R.pub)
      BY <1>0, <1>1, <1>12, JoinWrites
    <2>3. bur[k].L.st = "done" /\ bur[k].R.st = (IF bur[k].nb > 1 THEN "done" ELSE "off")
      BY <1>0, <2>2 DEF InStage, Phase
    <2>4. bur[k].nb > 1 => fin[<<bur[k].n, "R">>] = Rows
      BY <1>0, <2>3 DEF Marked
    <2>5. bur[k].live /\ HasRefB(bur[k].n) => bur[k].nb > 1
      BY <1>0 DEF InRing, HasRefB
    <2> QED BY <1>0, <1>1, <1>2, <2>1, <2>2, <2>3, <2>4, <2>5
            DEF Marked, Fixed, AFin, RFin, HasRefB
  <1>13. ASSUME NEW j \in Kinds, Analyze(k, j) PROVE Marked(k)'
    <2>1. fin' = fin
      BY <1>13 DEF Analyze
    <2>2. /\ Kept(bur'[k], bur[k]) /\ AloneJob(k, j)
          /\ bur[k][j].st = "run" /\ bur'[k][j].st = "run" /\ bur'[k][j].pub = bur[k][j].pub
      BY <1>0, <1>1, <1>13, AnalyzeWrites
    <2>3. /\ bur'[k].A.pub = bur[k].A.pub /\ bur'[k].R.pub = bur[k].R.pub
          /\ bur'[k].R.st = bur[k].R.st /\ bur'[k].L.st = bur[k].L.st
          /\ (bur[k].R.st = "done" => bur'[k].R.arow = bur[k].R.arow)
      BY <2>2 DEF Kinds, AloneJob
    <2> QED BY <1>0, <1>1, <1>2, <2>1, <2>2, <2>3 DEF Marked, Kept, Fixed, AFin, RFin, HasRefB
  <1>14. ASSUME NEW j \in Kinds, Emit(k, j) PROVE Marked(k)'
    <2>1. fin' = fin
      BY <1>14 DEF Emit
    <2>2. /\ Kept(bur'[k], bur[k]) /\ AloneJob(k, j) /\ j \in {"A", "R"}
          /\ bur[k][j].st = "run" /\ bur'[k][j].st = "done"
          /\ bur'[k][j].pub = Rows /\ bur[k][j].pub = Rows /\ bur'[k][j].arow = Rows
      BY <1>0, <1>1, <1>14, EmitWrites
    <2>3. /\ bur'[k].A.pub = bur[k].A.pub /\ bur'[k].R.pub = bur[k].R.pub
          /\ bur'[k].L.st = bur[k].L.st
          /\ \/ bur'[k].R.st = bur[k].R.st /\ bur'[k].R.arow = bur[k].R.arow
             \/ /\ bur[k].R.st = "run" /\ bur[k].R.pub = Rows
                /\ bur'[k].R.st = "done" /\ bur'[k].R.arow = Rows
      BY <2>2 DEF Kinds, AloneJob
    <2> QED BY <1>0, <1>1, <1>2, <2>1, <2>2, <2>3 DEF Marked, Kept, Fixed, AFin, RFin, HasRefB
  <1>15. ASSUME NEW j \in Kinds, Trail(k, j) PROVE Marked(k)'
    <2>1. PICK w \in 0 .. Rows :
            /\ bur[k].live /\ j \in {"A", "R"} /\ bur[k].n \in 1 .. Last
            /\ fin[<<bur[k].n, j>>] = bur[k][j].pub
            /\ bur[k][j].pub < w /\ bur'[k][j].pub = w
            /\ fin[<<bur[k].n, j>>] # Rows
            /\ fin'[<<bur[k].n, j>>] = w
            /\ \A q \in Pics : q # <<bur[k].n, j>> => fin'[q] = fin[q]
            /\ bur'[k].refb_done = IF j = "R" /\ w = Rows THEN bur[k].refb_done + 1
                                   ELSE bur[k].refb_done
      BY <1>15, TrailMarks
    <2>2. /\ AloneJob(k, j) /\ bur'[k].pc = bur[k].pc
          /\ bur[k][j].st = "run" /\ bur'[k][j].st = "run"
          /\ bur'[k][j].arow = bur[k][j].arow
      BY <1>0, <1>1, <1>15, TrailKeeps
    <2>3. \A i \in {"A", "R"} : <<bur[k].n, i>> \in Pics
      BY RunsInPics DEF Kinds
    <2>4. \A i \in {"A", "R"} : i # j => fin'[<<bur[k].n, i>>] = fin[<<bur[k].n, i>>]
      BY <2>1, <2>3
    <2>5. /\ bur'[k].R.st = bur[k].R.st /\ bur'[k].L.st = bur[k].L.st
          /\ bur'[k].R.arow = bur[k].R.arow
      BY <2>1, <2>2 DEF Kinds, AloneJob
    <2>7. CASE j = "A"
      <3>1. bur'[k].A.pub = fin'[<<bur[k].n, "A">>] /\ ~AFin(bur[k].n)
            /\ bur'[k].refb_done = bur[k].refb_done
        BY <2>1, <2>7 DEF AFin
      <3>2. bur'[k].R = bur[k].R /\ fin'[<<bur[k].n, "R">>] = fin[<<bur[k].n, "R">>]
        BY <2>2, <2>4, <2>7 DEF AloneJob, Kinds
      <3> QED BY <1>0, <1>1, <1>2, <2>2, <2>5, <3>1, <3>2 DEF Marked, Fixed, AFin, RFin, HasRefB
    <2>8. CASE j = "R"
      <3>1. /\ bur[k].R.st = "run" /\ bur'[k].R.st = "run"
            /\ bur'[k].R.pub = fin'[<<bur[k].n, "R">>] /\ fin[<<bur[k].n, "R">>] # Rows
            /\ (bur'[k].refb_done = bur[k].refb_done \/ fin'[<<bur[k].n, "R">>] = Rows)
        BY <2>1, <2>2, <2>8
      <3>2. bur'[k].A = bur[k].A /\ fin'[<<bur[k].n, "A">>] = fin[<<bur[k].n, "A">>]
        BY <2>2, <2>4, <2>8 DEF AloneJob, Kinds
      <3> QED BY <1>0, <1>1, <1>2, <2>2, <2>5, <3>1, <3>2 DEF Marked, Fixed, AFin, RFin, HasRefB
    <2> QED BY <2>1, <2>7, <2>8
  <1>16. Marked(k)'
    BY <1>8, <1>9, <1>10, <1>11, <1>12, <1>13, <1>14, <1>15
  <1> QED BY <1>2, <1>6, <1>7, <1>16 DEF Marks

LEMMA MarksPrep ==
  ASSUME cfg \in Shapes, Course, Stages, Marks, Prep PROVE Marks'
  <1>0. /\ Bursts /\ Order /\ cfg' = cfg /\ n \in 1 .. Len(cfg.script) + 1
        /\ Next_slot \in Ring /\ (fly # None => fly \in Ring)
        /\ UNCHANGED <<n, cur, fly, nlive, fin>> /\ Rows \in Nat
    <2>1. /\ Bursts /\ Order /\ cfg' = cfg /\ UNCHANGED <<n, cur, fly, nlive, fin>>
      BY PrepFrame DEF Course
    <2>2. n \in 1 .. Len(cfg.script) + 1 /\ cur \in Ring
      BY <2>1 DEF Order, Turn
    <2> QED BY <2>1, <2>2, ShapeFacts, RingFacts, FlyIs
  <1>k. PICK k \in Ring : k = Next_slot
    BY <1>0
  <1>1. /\ Alone(k)
        /\ bur'[k].n = bur[k].n /\ bur'[k].live = bur[k].live /\ bur'[k].pc = bur[k].pc
        /\ bur'[k].refb_done = bur[k].refb_done
        /\ bur'[k].A.pub = bur[k].A.pub
        /\ bur'[k].R.st = "off" /\ bur'[k].R.pub = bur[k].R.pub
        /\ bur'[k].L.st = "off"
        /\ apc = "ready" /\ apc' = "begin" /\ RingRoom
    BY <1>0, <1>k, PrepWrites
  <1>2. Last' = Last /\ (\A m : ~Unarmed(m)' /\ ~Unarmed(m)) /\ Rows' = Rows
        /\ Pics' = Pics /\ Ring' = Ring
    BY <1>0, <1>1 DEF Last, Unarmed, Rows, Pics, Ring
  <1>3. Final'
    BY <1>0, <1>2 DEF Final, Marks, AFin, RFin, HasRefB
  <1>4. ~bur[k].live
    <2>1. nlive < K
      <3>1. cfg.wide \in BOOLEAN /\ K \in Nat /\ K > 1
        BY ShapeFacts
      <3> QED BY <1>0, <1>1, <3>1 DEF RingRoom, Order, Turn
    <2>2. Age(k) = K - 1 /\ K \in Nat
      BY <1>0, <1>k, RingFacts DEF Order, Turn
    <2> QED BY <1>0, <2>1, <2>2 DEF Order, InRing, Turn
  <1>5. ASSUME NEW m \in Ring, m # k PROVE Marked(m)'
    <2>1. bur'[m] = bur[m] /\ Marked(m)
      BY <1>1, <1>5 DEF Alone, Marks
    <2> QED BY <1>0, <1>2, <2>1, MarkedStays
  <1>6. Marked(k)'
    <2>1. Marked(k)
      BY <1>0 DEF Marks
    <2> QED BY <1>0, <1>1, <1>2, <1>4, <2>1 DEF Marked, AFin, RFin, HasRefB
  <1> QED BY <1>2, <1>3, <1>5, <1>6 DEF Marks

LEMMA MarksBegin ==
  ASSUME cfg \in Shapes, Course, Stages, Marks, Begin PROVE Marks'
  <1>0. /\ Bursts /\ Order /\ cfg' = cfg /\ n \in 1 .. Len(cfg.script) + 1 /\ n \in Nat
        /\ Next_slot \in Ring /\ fin' = fin /\ Rows \in Nat /\ nlive \in Nat
        /\ Len(cfg.script) \in Nat
    BY ShapeFacts, RingFacts DEF Course, Begin, Order, Turn
  <1>k. PICK k \in Ring : k = Next_slot
    BY <1>0
  <1>1. /\ Alone(k)
        /\ bur'[k].n = n /\ bur'[k].live = TRUE /\ bur'[k].refb_done = 0
        /\ IF Waits THEN bur'[k].fired = bur[k].fired /\ bur'[k].pc = bur[k].pc
                    ELSE bur'[k].fired = FALSE /\ bur'[k].pc = "prep"
        /\ bur'[k].A.pub = -1 /\ bur'[k].R = bur[k].R /\ bur'[k].L = bur[k].L
        /\ apc = "begin" /\ cur' = k /\ nlive' = nlive + 1
        /\ IF Waits THEN apc' = "retire" /\ n' = n ELSE apc' = "ready" /\ n' = n + 1
    BY <1>0, <1>k, BeginWrites, Zenon
  <1>2. Last = n - 1 /\ Last' = n /\ Rows' = Rows /\ Pics' = Pics /\ Ring' = Ring
        /\ n <= Len(cfg.script) /\ (\A m : ~Unarmed(m))
    BY <1>0, <1>1 DEF Last, Rows, Pics, Ring, Order, Turn, Unarmed
  <1>3. Last' - nlive' = Last - nlive
    BY <1>0, <1>1, <1>2
  <1>4. \A p \in Pics : p[1] \in Nat
    BY <1>0 DEF Pics
  <1>5. Final'
    <2>1. \A p \in Pics : p[1] > Last' => fin'[p] = -1
      BY <1>0, <1>2, <1>4 DEF Final, Marks
    <2>2. \A m \in 0 .. Last' - nlive' : AFin(m)' /\ RFin(m)'
      BY <1>0, <1>2, <1>3, Zenon DEF Final, Marks, AFin, RFin, HasRefB
    <2> QED BY <1>0, <1>2, <2>1, <2>2 DEF Final, Marks
  <1>6. ASSUME NEW m \in Ring, m # k PROVE Marked(m)'
    <2>1. bur'[m] = bur[m] /\ Marked(m)
      BY <1>1, <1>6 DEF Alone, Marks
    <2> QED BY <1>0, <1>2, <2>1, MarkedStays
  <1>7. Marked(k)'
    <2>1. bur[k].R.st = "off" /\ bur[k].L.st = "off"
      BY <1>0, <1>1, <1>k DEF Stages, InStage
    <2>2. fin[<<n, "A">>] = -1 /\ fin[<<n, "R">>] = -1
      <3>1. <<n, "A">> \in Pics /\ <<n, "R">> \in Pics
        BY <1>0, <1>2 DEF Pics, Kinds
      <3> QED BY <1>0, <1>2, <3>1 DEF Marks, Final
    <2>3. bur'[k].pc = "idle" => Unarmed(k)'
      BY <1>1, <1>k DEF Unarmed
    <2> QED BY <1>0, <1>1, <1>2, <2>1, <2>2, <2>3 DEF Marked
  <1> QED BY <1>2, <1>5, <1>6, <1>7 DEF Marks

LEMMA MarksDrain ==
  ASSUME cfg \in Shapes, Course, Stages, Marks, Drain PROVE Marks'
  <1>0. Bursts /\ Order /\ cfg' = cfg /\ fin' = fin /\ Rows \in Nat
    BY ShapeFacts DEF Course, Drain
  <1>1. /\ nlive \in Nat /\ nlive > 0 /\ cur \in Ring
        /\ Oldest \in Ring /\ bur[Oldest].live /\ bur[Oldest].n = Last - (nlive - 1)
        /\ Last' = Last /\ Last \in Nat
        /\ apc \in {"ready", "retire"} /\ apc' \in {"ready", "failing"}
        /\ fly = cur /\ (apc = "retire" => Oldest # cur /\ bur[cur].live)
    BY DrainsOldest
  <1>2. /\ nlive' = nlive - 1 /\ cur' = cur /\ bur[Oldest].pc = "idle"
        /\ \A m \in Ring :
              /\ bur'[m].live = (m # Oldest /\ bur[m].live)
              /\ bur'[m].n = bur[m].n
              /\ bur'[m].A = bur[m].A /\ bur'[m].R = bur[m].R /\ bur'[m].L = bur[m].L
              /\ bur'[m].refb_done = bur[m].refb_done
              /\ IF m # Oldest /\ apc = "retire" /\ m = fly
                 THEN bur'[m].fired = FALSE /\ bur'[m].pc = "prep"
                 ELSE bur'[m].fired = bur[m].fired /\ bur'[m].pc = bur[m].pc
    BY <1>0, <1>1, DrainWrites, Zenon
  <1>3. Rows' = Rows /\ Pics' = Pics /\ Ring' = Ring /\ (\A m : ~Unarmed(m)')
    BY <1>0, <1>1 DEF Rows, Pics, Ring, Unarmed
  <1>4. ~Unarmed(Oldest)
    BY <1>1 DEF Unarmed
  <1>5. AFin(bur[Oldest].n) /\ RFin(bur[Oldest].n)
    BY <1>1, <1>2, <1>4 DEF Marks, Marked
  <1>6. Final'
    <2>1. ASSUME NEW m \in 0 .. Last - (nlive - 1) PROVE AFin(m) /\ RFin(m)
      <3>1. CASE m = bur[Oldest].n
        BY <1>5, <3>1
      <3>2. CASE m # bur[Oldest].n
        <4>1. m \in 0 .. Last - nlive
          BY <1>1, <3>2
        <4> QED BY <4>1 DEF Marks, Final
      <3> QED BY <3>1, <3>2
    <2>2. \A m \in 0 .. Last' - nlive' : AFin(m)' /\ RFin(m)'
      BY <1>0, <1>1, <1>2, <1>3, <2>1, Zenon DEF AFin, RFin, HasRefB
    <2> QED BY <1>0, <1>1, <1>3, <2>2 DEF Final, Marks
  <1>7. ASSUME NEW m \in Ring PROVE Marked(m)'
    <2>1. /\ bur'[m].live = (m # Oldest /\ bur[m].live)
          /\ bur'[m].n = bur[m].n
          /\ bur'[m].A = bur[m].A /\ bur'[m].R = bur[m].R /\ bur'[m].L = bur[m].L
          /\ bur'[m].refb_done = bur[m].refb_done
          /\ IF m # Oldest /\ apc = "retire" /\ m = fly
             THEN bur'[m].fired = FALSE /\ bur'[m].pc = "prep"
             ELSE bur'[m].fired = bur[m].fired /\ bur'[m].pc = bur[m].pc
      BY <1>2
    <2>2. bur'[m].live => bur[m].live /\ m # Oldest
      BY <2>1
    <2>3. bur'[m].live /\ bur'[m].pc = "idle" => bur[m].pc = "idle" /\ ~Unarmed(m)
      BY <1>1, <2>1, <2>2 DEF Unarmed
    <2>4. Marked(m)
      BY DEF Marks
    <2> QED BY <1>0, <2>1, <2>2, <2>3, <2>4, MarkedStays
  <1> QED BY <1>3, <1>6, <1>7 DEF Marks

LEMMA MarksRest ==
  ASSUME cfg \in Shapes, Course, Stages, Marks, CodeSerial \/ Close \/ Closed \/ UNCHANGED vars
  PROVE  Marks'
  <1>0. /\ Bursts /\ Order /\ cfg' = cfg /\ n \in 1 .. Len(cfg.script) + 1 /\ n \in Nat
        /\ Rows \in Nat /\ nlive \in Nat /\ Len(cfg.script) \in Nat
        /\ UNCHANGED <<bur, cur, fly, nlive>>
        /\ Rows' = Rows /\ Pics' = Pics /\ Ring' = Ring
    BY ShapeFacts DEF Course, CodeSerial, Close, Closed, vars, ctx, Order, Turn, Rows, Pics, Ring
  <1>1. CASE CodeSerial
    <2>1. /\ apc = "ready" /\ apc' = "ready" /\ nlive = 0 /\ n <= Len(cfg.script) /\ n' = n + 1
          /\ cfg.script[n] \in {Idr, 0} /\ fin' = [fin EXCEPT ![<<n, "A">>] = Rows]
      BY <1>1 DEF CodeSerial, Arriving, Serial
    <2>2. Last = n - 1 /\ Last' = n /\ (\A m : ~Unarmed(m) /\ ~Unarmed(m)')
      BY <1>0, <2>1 DEF Last, Unarmed
    <2>3. <<n, "A">> \in Pics /\ (\A p \in Pics : p[1] \in Nat)
      BY <1>0, <2>1 DEF Pics, Kinds
    <2>4. /\ DOMAIN fin' = Pics /\ fin'[<<n, "A">>] = Rows
          /\ \A p \in Pics : p # <<n, "A">> => fin'[p] = fin[p]
      BY <2>1, <2>3 DEF Marks, Final
    <2>5. ASSUME NEW m \in 0 .. n PROVE AFin(m)' /\ RFin(m)'
      <3>1. CASE m = n
        <4>1. ~HasRefB(n)
          BY <2>1 DEF HasRefB, Idr
        <4> QED BY <1>0, <2>4, <3>1, <4>1 DEF AFin, RFin, HasRefB
      <3>2. CASE m # n
        <4>1. m \in 0 .. Last - nlive /\ m \in 0 .. Len(cfg.script)
          BY <1>0, <2>1, <2>2, <3>2
        <4>2. AFin(m) /\ RFin(m)
          BY <4>1 DEF Marks, Final
        <4>3. <<m, "A">> \in Pics /\ <<m, "R">> \in Pics
          BY <4>1 DEF Pics, Kinds
        <4> QED BY <1>0, <2>4, <3>2, <4>2, <4>3 DEF AFin, RFin, HasRefB
      <3> QED BY <3>1, <3>2
    <2>6. Final'
      <3>1. \A p \in Pics : p[1] > n => fin'[p] = -1
        BY <1>0, <2>2, <2>3, <2>4 DEF Marks, Final
      <3>2. \A p \in Pics : fin'[p] \in -1 .. Rows
        BY <1>0, <2>3, <2>4 DEF Marks, Final
      <3>3. \A m \in 0 .. Last' - nlive' : AFin(m)' /\ RFin(m)'
        BY <1>0, <2>1, <2>2, <2>5
      <3> QED BY <1>0, <2>2, <2>4, <3>1, <3>2, <3>3 DEF Final
    <2>7. ASSUME NEW m \in Ring PROVE Marked(m)'
      <3>1. bur[m].n <= Last /\ bur[m].n \in Nat /\ \A j \in Kinds : <<bur[m].n, j>> \in Pics
        BY RunsInPics
      <3>2. \A j \in {"A", "R"} : fin'[<<bur[m].n, j>>] = fin[<<bur[m].n, j>>]
        <4>1. bur[m].n # n
          BY <1>0, <2>2, <3>1
        <4> QED BY <2>4, <3>1, <4>1 DEF Kinds
      <3>3. Marked(m)
        BY DEF Marks
      <3> QED BY <1>0, <2>2, <3>2, <3>3, MarkedStays
    <2> QED BY <1>0, <2>6, <2>7 DEF Marks
  <1>2. CASE Close \/ Closed \/ UNCHANGED vars
    <2>1. /\ UNCHANGED <<n, fin>>
          /\ apc' = apc \/ (apc \in {"ready", "failing"} /\ apc' = "closed")
      BY <1>2 DEF Close, Closed, vars
    <2>2. Last' = Last /\ (\A m : Unarmed(m)' <=> Unarmed(m))
      BY <1>0, <2>1 DEF Last, Unarmed
    <2>3. Final'
      BY <1>0, <2>1, <2>2 DEF Final, Marks, AFin, RFin, HasRefB
    <2>4. ASSUME NEW m \in Ring PROVE Marked(m)'
      <3>1. Marked(m)
        BY DEF Marks
      <3> QED BY <1>0, <2>1, <2>2, <3>1, MarkedStays
    <2> QED BY <1>0, <2>3, <2>4 DEF Marks
  <1> QED BY <1>1, <1>2

LEMMA MarksSteps ==
  ASSUME cfg \in Shapes, Course, Stages, Marks, Jobs, [Next]_vars PROVE Marks'
  BY MarksThreads, MarksPrep, MarksBegin, MarksDrain, MarksRest DEF Next

LEMMA MarksStart == Init => Marks
  <1> SUFFICES ASSUME Init PROVE Marks
    OBVIOUS
  <1>0. cfg \in Shapes /\ Rows \in Nat /\ Len(cfg.script) \in Nat
    BY ShapeFacts DEF Init
  <1>1. /\ apc = "ready" /\ n = 1 /\ nlive = 0 /\ Last = 0
        /\ fin = [p \in Pics |-> IF p = <<0, "A">> THEN Rows ELSE -1]
    BY DEF Init, Last
  <1>2. <<0, "A">> \in Pics /\ (\A p \in Pics : p[1] \in Nat) /\ fin[<<0, "A">>] = Rows
    BY <1>0, <1>1 DEF Pics, Kinds
  <1>3. \A p \in Pics : fin[p] \in -1 .. Rows /\ (p[1] > 0 => fin[p] = -1)
    BY <1>0, <1>1, <1>2
  <1>4. AFin(0) /\ RFin(0)
    BY <1>2 DEF AFin, RFin, HasRefB
  <1>5. Final
    BY <1>0, <1>1, <1>2, <1>3, <1>4 DEF Final
  <1>6. ASSUME NEW k \in Ring PROVE Marked(k)
    <2>1. bur[k] = NoBurst
      BY DEF Init
    <2> QED BY <2>1 DEF Marked, NoBurst, IdleJob
  <1> QED BY <1>5, <1>6 DEF Marks

-----------------------------------------------------------------------------
(* The slots, and what their gates are worth after a step.                  *)

\* A mini-GOP that is not yet retired has a slot.
LEMMA SlotOf ==
  ASSUME cfg \in Shapes, Course, NEW i \in 0 .. Last, i > Last - nlive
  PROVE  \E F \in Ring : bur[F].live /\ bur[F].n = i /\ (i # Last => F # cur)
  <1>1. /\ K \in Nat /\ nlive \in 0 .. K /\ cur \in 0 .. K - 1 /\ Last \in Nat
    BY ShapeFacts, LastIs DEF Course, Order, Turn, Ring
  <1> DEFINE a == Last - i
             F == IF a <= cur THEN cur - a ELSE (cur - a) + K
  <1>2. a \in Nat /\ a < nlive /\ a < K
    BY <1>1
  <1>3. F \in Ring /\ Age(F) = a
    <2> HIDE DEF a
    <2> QED BY <1>1, <1>2 DEF Ring, Age
  <1>4. bur[F].live /\ bur[F].n = Last - a
    <2> HIDE DEF F
    <2> QED BY <1>2, <1>3 DEF Course, Order, InRing
  <1>5. i # Last => F # cur
    BY <1>1, <1>3, RingFacts DEF a
  <1> HIDE DEF F
  <1> QED BY <1>1, <1>3, <1>4, <1>5 DEF a

\* The pictures of a slot that is not live are final.
LEMMA DeadIsFinal ==
  ASSUME Stages, Marks, NEW m \in Ring, ~bur[m].live
  PROVE  AFin(bur[m].n) /\ RFin(bur[m].n)
  <1>1. bur[m].n \in 0 .. Last - nlive
    BY DEF Stages, InStage
  <1> QED BY <1>1 DEF Marks, Final

\* The slot a launch takes is not live.
LEMMA NextIsDead ==
  ASSUME cfg \in Shapes, Course, apc = "begin" \/ Prep
  PROVE  Next_slot \in Ring /\ ~bur[Next_slot].live /\ Next_slot # cur /\ cur \in Ring
  <1>0. Order /\ K \in Nat /\ K > 1 /\ cfg.wide \in BOOLEAN
    BY ShapeFacts DEF Course
  <1>1. nlive < K
    <2>1. CASE apc = "begin"
      BY <1>0, <2>1 DEF Order, Turn
    <2>2. CASE Prep
      <3>1. RingRoom /\ apc = "ready"
        BY <2>2, PrepFrame
      <3> QED BY <1>0, <3>1 DEF RingRoom, Order, Turn
    <2> QED BY <2>1, <2>2
  <1>2. /\ Next_slot \in Ring /\ Next_slot # cur /\ cur \in Ring /\ Age(Next_slot) = K - 1
    BY <1>0, RingFacts DEF Order, Turn
  <1> QED BY <1>0, <1>1, <1>2 DEF Order, InRing, Turn

LEMMA ThreadsKeepR ==
  ASSUME cfg \in Shapes, Course, NEW k \in Ring,
         \/ PrepR(k) \/ PrepL(k) \/ Encode(k) \/ LeafDone(k) \/ Join(k)
         \/ \E j \in Kinds : Analyze(k, j) \/ Trail(k, j) \/ Emit(k, j)
  PROVE  bur[k].R.st # "off" => bur'[k].R.st # "off"
  <1>0. Bursts /\ Rows \in Nat /\ cfg' = cfg
    BY ThreadSteps, ShapeFacts DEF Course
  <1>1. CASE PrepR(k)
    BY <1>0, <1>1, PrepRWrites
  <1>2. CASE PrepL(k)
    BY <1>0, <1>2, PrepLWrites
  <1>3. CASE Encode(k)
    BY <1>0, <1>3, EncodeWrites DEF Becomes
  <1>4. CASE LeafDone(k)
    BY <1>0, <1>4, LeafDoneWrites
  <1>5. CASE Join(k)
    BY <1>0, <1>5, JoinWrites
  <1>6. ASSUME NEW j \in Kinds, Analyze(k, j) \/ Trail(k, j) \/ Emit(k, j)
        PROVE  bur[k].R.st # "off" => bur'[k].R.st # "off"
    <2>1. AloneJob(k, j) /\ bur'[k][j].st # "off"
      <3>1. CASE Analyze(k, j)
        BY <1>0, <3>1, AnalyzeWrites
      <3>2. CASE Trail(k, j)
        <4>1. AloneJob(k, j) /\ bur'[k][j].st = "run"
          BY <1>0, <3>2, TrailKeeps
        <4> QED BY <4>1
      <3>3. CASE Emit(k, j)
        BY <1>0, <3>3, EmitWrites
      <3> QED BY <1>6, <3>1, <3>2, <3>3
    <2> QED BY <2>1 DEF AloneJob, Kinds
  <1> QED BY <1>1, <1>2, <1>3, <1>4, <1>5, <1>6

LEMMA GatesKept ==
  ASSUME cfg \in Shapes, Course, Stages, Marks, [Next]_vars PROVE GatesKeep
  <1>0. Bursts /\ Order /\ cfg' = cfg /\ n \in 1 .. Len(cfg.script) + 1 /\ n \in Nat
        /\ Next_slot \in Ring /\ (fly # None => fly \in Ring)
    BY CourseSteps, ShapeFacts, RingFacts, FlyIs DEF Course, Order, Turn
  <1>1. CASE Prep \/ Begin
    <2>1. Alone(Next_slot)
      <3>1. CASE Prep
        BY <1>0, <3>1, PrepWrites
      <3>2. CASE Begin
        BY <1>0, <3>2, BeginWrites, Zenon
      <3> QED BY <1>1, <3>1, <3>2
    <2>2. ~bur[Next_slot].live
      BY <1>1, NextIsDead DEF Begin
    <2> QED BY <1>0, <2>1, <2>2, DeadIsFinal DEF GatesKeep, Alone
  <1>2. CASE Drain
    <2>1. \A m \in Ring : bur'[m].n = bur[m].n /\ bur'[m].R = bur[m].R
      <3>1. Oldest \in Ring
        BY <1>2, DrainsOldest
      <3> QED BY <1>0, <1>2, <3>1, DrainWrites, Zenon
    <2> QED BY <2>1 DEF GatesKeep
  <1>3. CASE CodeSerial \/ Close \/ Closed \/ UNCHANGED vars
    <2>1. bur' = bur
      BY <1>3 DEF CodeSerial, Close, Closed, vars
    <2> QED BY <2>1 DEF GatesKeep
  <1>4. ASSUME NEW k \in Ring,
               \/ PrepR(k) \/ PrepL(k) \/ Encode(k) \/ LeafDone(k) \/ Join(k)
               \/ \E j \in Kinds : Analyze(k, j) \/ Trail(k, j) \/ Emit(k, j)
        PROVE  GatesKeep
    <2>1. Alone(k) /\ Fixed(bur'[k], bur[k])
      BY <1>4, ThreadSteps
    <2>2. bur[k].R.st # "off" => bur'[k].R.st # "off"
      BY <1>4, ThreadsKeepR
    <2> QED BY <2>1, <2>2 DEF GatesKeep, Alone, Fixed
  <1> QED BY <1>1, <1>2, <1>3, <1>4 DEF Next

\* When a launch may begin, every anchor before the newest one is final.
LEMMA AnchorsBefore ==
  ASSUME cfg \in Shapes, Course, Marks, History, apc \in {"ready", "begin"},
         fly # None => ~Preparing(bur[cur])
  PROVE  \A i \in 0 .. Last - 1 : AFin(i)
  <1>0. Order /\ Last \in Nat /\ nlive \in Nat /\ cur \in Ring
    BY LastIs, ShapeFacts DEF Course, Order, Turn
  <1>1. CASE fly = None
    <2>1. nlive = 0
      BY <1>0, <1>1, ShapeFacts DEF Order, Turn, Ring, None
    <2> QED BY <1>0, <2>1 DEF Marks, Final
  <1>2. CASE fly # None
    <2>1. bur[cur].live /\ bur[cur].n = Last
      BY <1>0, <1>2, FlyIs
    <2>2. ~Unarmed(cur) /\ bur[cur].pc # "prep"
      BY <1>2 DEF Unarmed, Preparing
    <2>3. (\A i \in 0 .. Last - 2 : AFin(i)) /\ AFin(Last - 1)
      BY <1>0, <2>1, <2>2 DEF History, Behind
    <2>4. ASSUME NEW i \in 0 .. Last - 1 PROVE i \in 0 .. Last - 2 \/ i = Last - 1
      BY <1>0
    <2> QED BY <2>3, <2>4
  <1> QED BY <1>1, <1>2

-----------------------------------------------------------------------------
(* The pictures before a burst.                                             *)

\* The wait on prev_P: once the predecessor's anchor is published it is final.
LEMMA PrevIsFinal ==
  ASSUME Marks, NEW k \in Ring, Behind(k), bur[k].live, ~Unarmed(k),
         bur[k].n \in Nat, PrevPublished(k) \/ bur[k].pc # "prep"
  PROVE  AFin(bur[k].n - 1)
  <1>1. CASE bur[k].pc = "prep" /\ bur[k].prevP \in Ring
             /\ bur[bur[k].prevP].n = bur[k].n - 1 /\ bur[k].n > 1
    <2>1. bur[bur[k].prevP].A.pub = Rows
      BY <1>1 DEF PrevPublished, Ring, None
    <2>2. Marked(bur[k].prevP) /\ bur[bur[k].prevP].n > 0
      BY <1>1 DEF Marks
    <2> QED BY <1>1, <2>1, <2>2 DEF Marked, AFin
  <1> QED BY <1>1 DEF Behind

LEMMA BehindStays ==
  ASSUME cfg \in Shapes, cfg' = cfg, Rows \in Nat, Grows, NEW m \in Ring, Behind(m),
         bur[m].n \in 0 .. Len(cfg.script), bur[m].live => bur[m].n > 0,
         bur'[m].live => bur[m].live, bur'[m].n = bur[m].n, bur'[m].prevP = bur[m].prevP,
         bur'[m].rbgate = bur[m].rbgate, bur'[m].rbseq = bur[m].rbseq,
         bur'[m].pc = bur[m].pc \/ (bur[m].live /\ ~Unarmed(m) => AFin(bur[m].n - 1)),
         Preparing(bur'[m]) \/ bur'[m].pc = "rbgate"
           => Preparing(bur[m]) \/ bur[m].pc = "rbgate",
         Unarmed(m) => Unarmed(m)',
         \A g \in Ring : \/ bur'[g].n = bur[g].n /\ bur'[g].nb = bur[g].nb
                         \/ AFin(bur[g].n) /\ RFin(bur[g].n)
  PROVE  Behind(m)'
  <1> SUFFICES ASSUME bur'[m].live PROVE Behind(m)'
    BY DEF Behind
  <1>c. PICK c : c = bur[m].n
    OBVIOUS
  <1>0. /\ c \in 1 .. Len(cfg.script) /\ bur[m].live /\ Len(cfg.script) \in Nat /\ Ring' = Ring
        /\ bur[m].n = c /\ bur'[m].n = c
    BY <1>c, ShapeFacts DEF Ring
  <1>1. \A i \in 0 .. Len(cfg.script) : (AFin(i) => AFin(i)') /\ (RFin(i) => RFin(i)')
    BY StaysFinal
  <1>2. c - 1 \in 0 .. Len(cfg.script) /\ \A i \in 0 .. c - 2 : i \in 0 .. Len(cfg.script)
    BY <1>0
  <1>3. \A i \in 0 .. c - 2 : AFin(i)'
    BY <1>0, <1>1, <1>2 DEF Behind
  <1>4. Deep' => \A i \in 0 .. c - 2 : RFin(i)'
    <2>1. Deep' <=> Deep
      BY DEF Deep
    <2> QED BY <1>0, <1>1, <1>2, <2>1 DEF Behind
  <1>5. \/ Unarmed(m)' \/ AFin(c - 1)'
        \/ bur'[m].pc = "prep" /\ bur'[m].prevP \in Ring /\ bur'[bur'[m].prevP].n = c - 1 /\ c > 1
    <2>1. CASE AFin(c - 1)
      BY <1>1, <1>2, <2>1
    <2>2. CASE ~AFin(c - 1) /\ ~Unarmed(m)
      <3>1. bur[m].pc = "prep" /\ bur[m].prevP \in Ring /\ bur[bur[m].prevP].n = c - 1 /\ c > 1
        BY <1>0, <2>2 DEF Behind
      <3>2. bur'[m].pc = "prep"
        BY <1>0, <2>2, <3>1
      <3>3. bur'[bur[m].prevP].n = c - 1
        BY <2>2, <3>1
      <3> QED BY <3>1, <3>2, <3>3
    <2> QED BY <2>1, <2>2
  <1>6. Deep /\ (Preparing(bur'[m]) \/ bur'[m].pc = "rbgate")
          => RFin(c - 1)' \/ GateOn(m, c - 1)'
    <2> SUFFICES ASSUME Deep, Preparing(bur[m]) \/ bur[m].pc = "rbgate", ~RFin(c - 1)
                 PROVE  GateOn(m, c - 1)'
      BY <1>1, <1>2
    <2>1. GateOn(m, c - 1)
      BY <1>0 DEF Behind
    <2> DEFINE g == bur[m].rbgate
    <2>2. g \in Ring /\ bur[g].n = c - 1 /\ bur'[m].rbgate = g
      BY <2>1 DEF GateOn
    <2>3. bur'[g].n = bur[g].n /\ bur'[g].nb = bur[g].nb
      BY <2>2
    <2> QED BY <1>0, <2>1, <2>2, <2>3 DEF GateOn, HasRefB
  <1>7. Deep' <=> Deep
    BY DEF Deep
  <1>9. \A i \in 0 .. bur'[m].n - 2 : AFin(i)'
    BY <1>0, <1>3
  <1>10. Unarmed(m)' \/ AFin(bur[m].n - 1)'
         \/ (/\ bur'[m].pc = "prep" /\ bur'[m].prevP \in Ring'
             /\ bur'[bur'[m].prevP].n = bur'[m].n - 1 /\ bur'[m].n > 1)
    BY <1>0, <1>5
  <1>11. Deep' => \A i \in 0 .. bur'[m].n - 2 : RFin(i)'
    BY <1>0, <1>4
  <1>12. Deep' /\ (Preparing(bur'[m]) \/ bur'[m].pc = "rbgate")
          => RFin(bur[m].n - 1)' \/ GateOn(m, bur[m].n - 1)'
    BY <1>0, <1>6, <1>7
  <1> QED BY <1>9, <1>10, <1>11, <1>12, Zenon DEF Behind, Preparing

\* What a launch has waited for: with a deep list 0 the reference B's are
\* final, but that of the burst it gates its rows on.
LEMMA RefbsBefore ==
  ASSUME cfg \in Shapes, Course, Stages, Marks, RefbWaited, cfg.nref > 1
  PROVE  /\ \A i \in 0 .. Last - 1 : RFin(i)
         /\ RFin(Last) \/ (fly # None /\ Gated(fly))
  <1>0. /\ Order /\ Bursts /\ Last \in 0 .. Len(cfg.script) /\ Len(cfg.script) \in Nat
        /\ nlive \in Nat /\ cur \in Ring
    BY LastIs, ShapeFacts DEF Course, Order, Turn
  <1>1. ASSUME NEW i \in 0 .. Last, ~RFin(i) PROVE i = Last /\ fly # None /\ Gated(fly)
    <2>1. i > Last - nlive
      BY <1>0, <1>1 DEF Marks, Final
    <2>2. PICK F \in Ring : bur[F].live /\ bur[F].n = i /\ (i # Last => F # cur)
      BY <2>1, SlotOf
    <2>3. nlive > 0 /\ fly = cur /\ cur # None
      BY <1>0, <2>1, ShapeFacts DEF Order, Turn, Ring, None
    <2>4. HasRefB(i) /\ fin[<<i, "R">>] # Rows
      BY <1>1 DEF RFin
    <2>5. bur[F].nb = cfg.script[i] /\ i > 0
      BY <1>0, <2>2 DEF Order, InRing
    <2>6. HasR(F) /\ F \in Live
      BY <2>2, <2>4, <2>5 DEF HasR, HasRef, HasRefB, Live
    <2>7. ~(bur[F].refb_done >= 1)
      <3>1. Marked(F) /\ bur[F].refb_done \in Nat
        BY <1>0 DEF Marks, Bursts, IsBurst
      <3> QED BY <2>2, <2>4, <2>5, <3>1 DEF Marked
    <2>8. Gated(F)
      BY <2>6, <2>7 DEF RefbWaited
    <2>9. F = fly
      BY <2>8 DEF Gated
    <2> QED BY <2>2, <2>3, <2>8, <2>9
  <1> QED BY <1>0, <1>1

LEMMA GateStays ==
  ASSUME cfg' = cfg, NEW k \in Ring, NEW m, GateOn(k, m),
         bur'[k].rbgate = bur[k].rbgate, bur'[k].rbseq = bur[k].rbseq,
         bur'[bur[k].rbgate].n = bur[bur[k].rbgate].n,
         bur'[bur[k].rbgate].nb = bur[bur[k].rbgate].nb
  PROVE  /\ bur'[k].rbgate \in Ring /\ bur'[k].rbseq = m /\ HasRefB(m)'
         /\ bur'[bur'[k].rbgate].n = m /\ bur'[bur'[k].rbgate].nb = cfg.script[m]
  BY DEF GateOn, HasRefB

LEMMA HistoryThreads ==
  ASSUME cfg \in Shapes, Course, Stages, Marks, History, NEW k \in Ring,
         \/ PrepR(k) \/ PrepL(k) \/ Encode(k) \/ LeafDone(k) \/ Join(k)
         \/ \E j \in Kinds : Analyze(k, j) \/ Trail(k, j) \/ Emit(k, j)
  PROVE  History'
  <1>0. /\ Bursts /\ Order /\ Rows \in Nat /\ Len(cfg.script) \in Nat /\ Next_slot \in Ring
        /\ InRing(k) /\ InStage(k)
    BY ShapeFacts, RingFacts DEF Course, Order, Turn, Stages
  <1>1. /\ cfg' = cfg /\ UNCHANGED <<apc, n, cur, fly, nlive>> /\ Bursts'
        /\ Alone(k) /\ Fixed(bur'[k], bur[k])
    BY ThreadSteps
  <1>2. Grows /\ (\A m : Unarmed(m)' <=> Unarmed(m)) /\ Ring' = Ring /\ Next_slot' = Next_slot
    <2>1. [Next]_vars
      BY DEF Next
    <2> QED BY <1>1, <2>1, FinGrows DEF Unarmed, Ring, Next_slot
  <1>3. \A m \in Ring : Fixed(bur'[m], bur[m])
    BY <1>1 DEF Alone, Fixed
  <1>4. /\ Preparing(bur'[k]) \/ bur'[k].pc = "rbgate" => Preparing(bur[k]) \/ bur[k].pc = "rbgate"
        /\ bur'[k].pc = bur[k].pc \/ (bur[k].live /\ ~Unarmed(k) => AFin(bur[k].n - 1))
    <2>1. CASE PrepR(k) \/ PrepL(k)
      <3>1. Preparing(bur[k])
        <4>1. PrepR(k) => bur[k].pc = "prep"
          BY <1>0, <1>1, PrepRWrites
        <4>2. PrepL(k) => bur[k].pc = (IF bur[k].nb > 1 THEN "prepL" ELSE "prep")
          BY <1>0, <1>1, PrepLWrites, Zenon
        <4> QED BY <2>1, <4>1, <4>2 DEF Preparing
      <3>2. PrevPublished(k) \/ bur[k].pc # "prep"
        BY <2>1, Zenon DEF PrepR, PrepL, Chain
      <3>3. bur[k].n \in Nat /\ Behind(k)
        BY <1>0 DEF Bursts, IsBurst, History
      <3> QED BY <3>1, <3>2, <3>3, PrevIsFinal
    <2>2. CASE Encode(k) \/ LeafDone(k) \/ Join(k)
      <3>1. /\ bur[k].pc \in {"rbgate", "leaf", "join"}
            /\ bur'[k].pc \in {"leaf", "join", "idle"}
        <4>1. Encode(k) => bur[k].pc = "rbgate" /\ bur'[k].pc = "leaf"
          BY <1>0, <1>1, EncodeWrites
        <4>2. LeafDone(k) => bur[k].pc = "leaf" /\ bur'[k].pc = "join"
          BY <1>0, <1>1, LeafDoneWrites
        <4>3. Join(k) => bur[k].pc = "join" /\ bur'[k].pc = "idle"
          BY <1>0, <1>1, JoinWrites
        <4> QED BY <2>2, <4>1, <4>2, <4>3
      <3>2. bur[k].live /\ ~Unarmed(k) => AFin(bur[k].n - 1)
        <4>1. bur[k].pc # "prep" /\ Behind(k) /\ bur[k].n \in Nat
          BY <1>0, <3>1 DEF History, Bursts, IsBurst
        <4> QED BY <4>1, PrevIsFinal
      <3> QED BY <3>1, <3>2 DEF Preparing
    <2>3. ASSUME NEW j \in Kinds, Analyze(k, j) \/ Trail(k, j) \/ Emit(k, j)
          PROVE  bur'[k].pc = bur[k].pc
      <3>1. Analyze(k, j) => bur'[k].pc = bur[k].pc
        BY <1>0, <1>1, AnalyzeWrites DEF Kept
      <3>2. Trail(k, j) => bur'[k].pc = bur[k].pc
        BY <1>0, <1>1, TrailKeeps
      <3>3. Emit(k, j) => bur'[k].pc = bur[k].pc
        BY <1>0, <1>1, EmitWrites DEF Kept
      <3> QED BY <2>3, <3>1, <3>2, <3>3
    <2> QED BY <2>1, <2>2, <2>3 DEF Preparing
  <1>5. ASSUME NEW m \in Ring PROVE Behind(m)'
    <2>1. /\ Fixed(bur'[m], bur[m]) /\ Behind(m) /\ bur[m].n \in 0 .. Len(cfg.script)
          /\ (bur[m].live => bur[m].n > 0)
      BY <1>0, <1>3, RunsInPics DEF History, Order, InRing
    <2>2. /\ Preparing(bur'[m]) \/ bur'[m].pc = "rbgate"
             => Preparing(bur[m]) \/ bur[m].pc = "rbgate"
          /\ bur'[m].pc = bur[m].pc \/ (bur[m].live /\ ~Unarmed(m) => AFin(bur[m].n - 1))
      BY <1>1, <1>4 DEF Alone
    <2>3. \A g \in Ring : bur'[g].n = bur[g].n /\ bur'[g].nb = bur[g].nb
      BY <1>3 DEF Fixed
    <2> QED BY <1>0, <1>1, <1>2, <2>1, <2>2, <2>3, BehindStays DEF Fixed
  <1>6. Ahead'
    <2> SUFFICES ASSUME apc = "begin", cfg.nref > 1 PROVE Ahead'
      BY <1>1 DEF Ahead
    <2>1. n \in 1 .. Len(cfg.script)
      BY <1>0 DEF Order, Turn
    <2>2. (\A i \in 0 .. n - 2 : RFin(i)')
          /\ (RFin(n - 1) => RFin(n - 1)')
      <3>1. n - 1 \in 0 .. Len(cfg.script) /\ \A i \in 0 .. n - 2 : i \in 0 .. Len(cfg.script)
        BY <1>0, <2>1
      <3> QED BY <1>0, <1>1, <1>2, <3>1, StaysFinal DEF History, Ahead
    <2>3. fly # None /\ bur[Next_slot].rbgate = fly /\ GateOn(Next_slot, n - 1)
            => fly' # None /\ bur'[Next_slot'].rbgate = fly' /\ GateOn(Next_slot, n - 1)'
      <3>1. PICK h \in Ring : h = Next_slot /\ h = Next_slot'
        BY <1>0, <1>2
      <3> SUFFICES ASSUME fly # None, bur[h].rbgate = fly, GateOn(h, n - 1)
                   PROVE  bur'[h].rbgate = fly /\ GateOn(h, n - 1)'
        BY <1>1, <3>1
      <3>2. bur'[h].rbgate = bur[h].rbgate /\ bur'[h].rbseq = bur[h].rbseq /\ bur[h].rbgate \in Ring
            /\ bur'[bur[h].rbgate].n = bur[bur[h].rbgate].n
            /\ bur'[bur[h].rbgate].nb = bur[bur[h].rbgate].nb
        BY <1>3 DEF Fixed, GateOn
      <3> QED BY <1>1, <1>2, <3>2, GateStays DEF GateOn
    <2> QED BY <1>1, <2>2, <2>3 DEF History, Ahead
  <1> QED BY <1>2, <1>5, <1>6 DEF History

LEMMA HistoryPrep ==
  ASSUME cfg \in Shapes, Course, Stages, Marks, History, Prep PROVE History'
  <1>0. /\ Bursts /\ Order /\ cfg' = cfg /\ n \in 1 .. Len(cfg.script) + 1
        /\ Next_slot \in Ring /\ (fly # None => fly \in Ring)
        /\ UNCHANGED <<n, cur, fly, nlive, fin>> /\ Rows \in Nat /\ Len(cfg.script) \in Nat
    <2>1. /\ Bursts /\ Order /\ cfg' = cfg /\ UNCHANGED <<n, cur, fly, nlive, fin>>
      BY PrepFrame DEF Course
    <2>2. n \in 1 .. Len(cfg.script) + 1 /\ cur \in Ring
      BY <2>1 DEF Order, Turn
    <2> QED BY <2>1, <2>2, ShapeFacts, RingFacts, FlyIs
  <1>k. PICK k \in Ring : k = Next_slot /\ k = Next_slot'
    BY <1>0 DEF Next_slot
  <1>1. /\ Alone(k) /\ bur'[k].n = bur[k].n /\ bur'[k].live = bur[k].live
        /\ bur'[k].rbgate = (IF fly # None /\ Gated(fly) THEN fly ELSE None)
        /\ bur'[k].rbseq = (IF fly # None /\ Gated(fly) THEN bur[fly].n ELSE 0)
        /\ apc = "ready" /\ apc' = "begin" /\ RefbWaited
    BY <1>0, <1>k, PrepWrites
  <1>2. /\ ~bur[k].live /\ k # cur
    BY <1>k, NextIsDead
  <1>3. AFin(bur[k].n) /\ RFin(bur[k].n)
    BY <1>2, DeadIsFinal
  <1>4. Grows /\ (\A m : ~Unarmed(m)) /\ Ring' = Ring
    <2>1. [Next]_vars
      BY DEF Next
    <2> QED BY <1>1, <2>1, FinGrows DEF Unarmed, Ring
  <1>5. ASSUME NEW m \in Ring PROVE Behind(m)'
    <2>1. CASE m = k
      BY <1>1, <1>2, <2>1 DEF Behind
    <2>2. CASE m # k
      <3>1. /\ Behind(m) /\ bur[m].n \in 0 .. Len(cfg.script) /\ (bur[m].live => bur[m].n > 0)
            /\ bur'[m] = bur[m]
        BY <1>0, <1>1, <2>2, RunsInPics DEF History, Order, InRing, Alone
      <3>2. \A g \in Ring : \/ bur'[g].n = bur[g].n /\ bur'[g].nb = bur[g].nb
                            \/ AFin(bur[g].n) /\ RFin(bur[g].n)
        BY <1>1, <1>3 DEF Alone
      <3> QED BY <1>0, <1>4, <3>1, <3>2, BehindStays
    <2> QED BY <2>1, <2>2
  <1>6. Ahead'
    <2> SUFFICES ASSUME cfg.nref > 1 PROVE Ahead'
      BY <1>0 DEF Ahead
    <2>1. Last = n - 1
      BY <1>1 DEF Last
    <2>2. /\ \A i \in 0 .. Last - 1 : RFin(i)
          /\ RFin(Last) \/ (fly # None /\ Gated(fly))
      BY <1>1, RefbsBefore
    <2>3. \A i : RFin(i) => RFin(i)'
      BY <1>0 DEF RFin, HasRefB, Rows
    <2>4. \A i \in 0 .. n - 2 : RFin(i)'
      BY <1>0, <2>1, <2>2, <2>3
    <2>5. CASE RFin(Last)
      BY <1>0, <1>1, <2>1, <2>3, <2>4, <2>5 DEF Ahead
    <2>6. CASE fly # None /\ Gated(fly)
      <3>1. /\ fly = cur /\ fly \in Ring /\ fly # k /\ bur[fly].n = n - 1
            /\ bur[fly].nb = cfg.script[n - 1] /\ n - 1 \in 1 .. Len(cfg.script)
        BY <1>0, <1>2, <2>1, <2>6, FlyIs
      <3>2. HasRefB(n - 1)
        BY <2>6, <3>1 DEF Gated, HasR, HasRef, HasRefB
      <3>3. bur'[fly] = bur[fly] /\ bur'[k].rbgate = fly /\ bur'[k].rbseq = n - 1
        BY <1>1, <2>6, <3>1 DEF Alone
      <3>4. GateOn(k, n - 1)'
        BY <1>0, <1>4, <3>1, <3>2, <3>3 DEF GateOn, HasRefB
      <3> QED BY <1>0, <1>k, <2>4, <2>6, <3>3, <3>4 DEF Ahead
    <2> QED BY <2>2, <2>5, <2>6
  <1> QED BY <1>4, <1>5, <1>6 DEF History

LEMMA HistoryBegin ==
  ASSUME cfg \in Shapes, Course, Stages, Marks, History, Begin PROVE History'
  <1>0. /\ Bursts /\ Order /\ cfg' = cfg /\ n \in 1 .. Len(cfg.script) + 1 /\ n \in Nat
        /\ Next_slot \in Ring /\ fin' = fin /\ Rows \in Nat /\ nlive \in Nat
        /\ Len(cfg.script) \in Nat /\ cur \in Ring
    BY ShapeFacts, RingFacts DEF Course, Begin, Order, Turn
  <1>k. PICK k \in Ring : k = Next_slot
    BY <1>0
  <1>1. /\ Alone(k)
        /\ bur'[k].n = n /\ bur'[k].live = TRUE
        /\ IF Waits THEN bur'[k].fired = bur[k].fired /\ bur'[k].pc = bur[k].pc
                    ELSE bur'[k].fired = FALSE /\ bur'[k].pc = "prep"
        /\ bur'[k].prevP = bur[k].prevP
        /\ bur'[k].rbgate = bur[k].rbgate /\ bur'[k].rbseq = bur[k].rbseq
        /\ apc = "begin" /\ cur' = k /\ nlive' = nlive + 1
        /\ IF Waits THEN apc' = "retire" /\ n' = n ELSE apc' = "ready" /\ n' = n + 1
    BY <1>0, <1>k, BeginWrites, Zenon
  <1>2. ~bur[k].live /\ k # cur /\ bur[k].pc = "idle"
    BY <1>0, <1>1, <1>k, NextIsDead DEF Order, InRing
  <1>3. AFin(bur[k].n) /\ RFin(bur[k].n)
    BY <1>2, DeadIsFinal
  <1>4. Grows /\ (\A m : ~Unarmed(m)) /\ Ring' = Ring
    <2>1. [Next]_vars
      BY DEF Next
    <2> QED BY <1>1, <2>1, FinGrows DEF Unarmed, Ring
  <1>5. Last = n - 1 /\ n <= Len(cfg.script) /\ (fly # None => ~Preparing(bur[cur]))
    BY <1>0, <1>1 DEF Last, Order, Turn, InRing
  <1>6. ASSUME NEW m \in Ring, m # k PROVE Behind(m)'
    <2>1. /\ Behind(m) /\ bur[m].n \in 0 .. Len(cfg.script) /\ (bur[m].live => bur[m].n > 0)
          /\ bur'[m] = bur[m]
      BY <1>0, <1>1, <1>6, RunsInPics DEF History, Order, InRing, Alone
    <2>2. \A g \in Ring : \/ bur'[g].n = bur[g].n /\ bur'[g].nb = bur[g].nb
                          \/ AFin(bur[g].n) /\ RFin(bur[g].n)
      BY <1>1, <1>3 DEF Alone
    <2> QED BY <1>0, <1>4, <2>1, <2>2, BehindStays
  <1>7. \A i : (AFin(i) => AFin(i)') /\ (RFin(i) => RFin(i)')
    BY <1>0 DEF AFin, RFin, HasRefB, Rows
  <1>8. \A i \in 0 .. n - 2 : AFin(i)
    BY <1>0, <1>1, <1>5, AnchorsBefore
  <1>9. Unarmed(k)' \/ AFin(n - 1)
        \/ (/\ bur'[k].pc = "prep" /\ bur'[k].prevP \in Ring
            /\ bur'[bur'[k].prevP].n = n - 1 /\ n > 1)
    <2>1. CASE Waits
      BY <1>1, <2>1 DEF Unarmed
    <2>2. CASE ~Waits /\ nlive = 0
      BY <1>0, <1>5, <2>2 DEF Marks, Final
    <2>3. CASE ~Waits /\ nlive # 0
      <3>1. cfg.wide /\ fly = cur /\ fly # None
        <4>1. cfg.wide \in BOOLEAN /\ K \in Nat /\ K > 1
          BY ShapeFacts
        <4> QED BY <1>0, <2>3, <4>1 DEF Waits, Order, Turn, Ring, None
      <3>2. bur[k].prevP = cur
        BY <1>0, <1>1, <1>k, <3>1 DEF Stages, InStage
      <3>3. bur[cur].n = n - 1 /\ n - 1 > 0
        BY <1>0, <1>5, <3>1, FlyIs
      <3>4. bur'[cur] = bur[cur]
        BY <1>0, <1>1, <1>2 DEF Alone
      <3> QED BY <1>0, <1>1, <2>3, <3>2, <3>3, <3>4
    <2> QED BY <2>1, <2>2, <2>3
  <1>10. ASSUME ~cfg.wide, NEW i \in 0 .. n - 1, i <= n - 2 \/ ~Waits PROVE RFin(i)
    <2>1. i <= Last - nlive
      <3>1. nlive <= 1
        BY <1>0, <1>1, <1>10 DEF Order, Turn
      <3> QED BY <1>0, <1>5, <1>10, <3>1 DEF Waits
    <2>2. i \in 0 .. Last - nlive
      BY <1>0, <1>5, <2>1
    <2> QED BY <2>2 DEF Marks, Final
  <1>11. Deep => \A i \in 0 .. n - 2 : RFin(i)
    <2>1. \A i \in 0 .. n - 2 : i \in 0 .. n - 1 /\ i <= n - 2
      BY <1>0
    <2> QED BY <1>1, <1>10, <2>1 DEF Deep, History, Ahead
  <1>c. PICK c : c = n - 1
    OBVIOUS
  <1>12. Deep /\ ~Waits => RFin(c) \/ GateOn(k, c)'
    <2>1. ASSUME ~cfg.wide, ~Waits PROVE RFin(c)
      <3>1. c \in 0 .. n - 1
        BY <1>0, <1>c
      <3> QED BY <1>c, <1>10, <2>1, <3>1
    <2>2. ASSUME cfg.nref > 1, ~RFin(c) PROVE GateOn(k, c)'
      <3>1. fly # None /\ bur[k].rbgate = fly /\ GateOn(k, c)
        BY <1>1, <1>k, <1>c, <2>2 DEF History, Ahead
      <3>2. fly = cur /\ bur'[cur] = bur[cur]
        BY <1>0, <1>1, <1>2, <3>1, FlyIs DEF Alone
      <3>4. /\ bur'[k].rbgate \in Ring /\ bur'[k].rbseq = c /\ HasRefB(c)
            /\ bur'[bur'[k].rbgate].n = c /\ bur'[bur'[k].rbgate].nb = cfg.script[c]
        BY <1>1, <3>1, <3>2 DEF GateOn
      <3>5. HasRefB(c)'
        BY <1>0, <3>4 DEF HasRefB
      <3> QED BY <1>0, <1>4, <3>4, <3>5 DEF GateOn
    <2> QED BY <2>1, <2>2 DEF Deep
  <1>13. Behind(k)'
    <2>0. bur'[k].n - 1 = c /\ bur'[k].n - 2 = n - 2 /\ (Deep' <=> Deep)
      BY <1>0, <1>1, <1>c DEF Deep
    <2>1. \A i \in 0 .. bur'[k].n - 2 : AFin(i)'
      BY <1>7, <1>8, <2>0
    <2>2. Unarmed(k)' \/ AFin(c)' \/ (/\ bur'[k].pc = "prep" /\ bur'[k].prevP \in Ring
                                     /\ bur'[bur'[k].prevP].n = c /\ n > 1)
      BY <1>7, <1>9, <1>c
    <2>3. Unarmed(k)' \/ AFin(bur[k].n - 1)'
          \/ (/\ bur'[k].pc = "prep" /\ bur'[k].prevP \in Ring'
              /\ bur'[bur'[k].prevP].n = bur'[k].n - 1 /\ bur'[k].n > 1)
      BY <1>1, <1>4, <2>0, <2>2
    <2>4. Deep' => \A i \in 0 .. bur'[k].n - 2 : RFin(i)'
      BY <1>7, <1>11, <2>0
    <2>5. Deep' /\ (Preparing(bur'[k]) \/ bur'[k].pc = "rbgate") => RFin(c)' \/ GateOn(k, c)'
      <3>1. Preparing(bur'[k]) \/ bur'[k].pc = "rbgate" => ~Waits
        BY <1>1, <1>2 DEF Preparing
      <3> QED BY <1>7, <1>12, <2>0, <3>1
    <2>6. Deep' /\ (Preparing(bur'[k]) \/ bur'[k].pc = "rbgate")
            => RFin(bur[k].n - 1)' \/ GateOn(k, bur[k].n - 1)'
      BY <2>0, <2>5
    <2> QED BY <2>1, <2>3, <2>4, <2>6, Zenon DEF Behind, Preparing
  <1>14. Ahead'
    BY <1>1 DEF Ahead
  <1> QED BY <1>4, <1>6, <1>13, <1>14 DEF History

LEMMA HistoryDrain ==
  ASSUME cfg \in Shapes, Course, Stages, Marks, History, Drain PROVE History'
  <1>0. /\ Bursts /\ Order /\ cfg' = cfg /\ fin' = fin /\ Rows \in Nat /\ Len(cfg.script) \in Nat
    BY ShapeFacts DEF Course, Drain
  <1>1. /\ nlive \in Nat /\ nlive > 0 /\ cur \in Ring
        /\ Oldest \in Ring /\ bur[Oldest].live /\ bur[Oldest].n = Last - (nlive - 1)
        /\ Last \in Nat /\ apc \in {"ready", "retire"} /\ apc' \in {"ready", "failing"}
        /\ fly = cur /\ (apc = "retire" => Oldest # cur /\ bur[cur].live)
    BY DrainsOldest
  <1>2. /\ bur[Oldest].pc = "idle"
        /\ \A m \in Ring :
              /\ bur'[m].live = (m # Oldest /\ bur[m].live)
              /\ bur'[m].n = bur[m].n /\ bur'[m].nb = bur[m].nb /\ bur'[m].prevP = bur[m].prevP
              /\ bur'[m].rbgate = bur[m].rbgate /\ bur'[m].rbseq = bur[m].rbseq
              /\ IF m # Oldest /\ apc = "retire" /\ m = fly
                 THEN bur'[m].fired = FALSE /\ bur'[m].pc = "prep"
                 ELSE bur'[m].fired = bur[m].fired /\ bur'[m].pc = bur[m].pc
    BY <1>0, <1>1, DrainWrites, Zenon
  <1>3. Ring' = Ring /\ (\A m : ~Unarmed(m)') /\ (Deep' <=> Deep)
        /\ (\A i : (AFin(i) => AFin(i)') /\ (RFin(i) => RFin(i)'))
    BY <1>0, <1>1 DEF Ring, Unarmed, Deep, AFin, RFin, HasRefB, Rows
  <1>4. Grows
    <2>1. [Next]_vars
      BY DEF Next
    <2> QED BY <2>1, FinGrows
  <1>5. ASSUME NEW m \in Ring, ~Unarmed(m) PROVE Behind(m)'
    <2>1. /\ Behind(m) /\ bur[m].n \in 0 .. Len(cfg.script) /\ (bur[m].live => bur[m].n > 0)
      BY <1>0, RunsInPics DEF History, Order, InRing
    <2>2. /\ bur'[m].live => bur[m].live
          /\ bur'[m].n = bur[m].n /\ bur'[m].prevP = bur[m].prevP
          /\ bur'[m].rbgate = bur[m].rbgate /\ bur'[m].rbseq = bur[m].rbseq
          /\ bur'[m].pc = bur[m].pc
      BY <1>1, <1>2, <1>5 DEF Unarmed
    <2>3. \A g \in Ring : bur'[g].n = bur[g].n /\ bur'[g].nb = bur[g].nb
      BY <1>2
    <2>4. Preparing(bur'[m]) \/ bur'[m].pc = "rbgate" => Preparing(bur[m]) \/ bur[m].pc = "rbgate"
      BY <2>2 DEF Preparing
    <2> QED BY <1>0, <1>4, <1>5, <2>1, <2>2, <2>3, <2>4, BehindStays
  <1>6. ASSUME NEW k \in Ring, Unarmed(k) PROVE Behind(k)'
    <2>1. /\ apc = "retire" /\ nlive = 2 /\ bur[cur].live /\ bur[cur].n = Last /\ fly # None
      <3>1. apc = "retire" /\ nlive = 2 /\ fly = cur /\ bur[cur].live
        BY <1>0, <1>1, <1>6 DEF Unarmed, Order, Turn
      <3>2. fly # None
        BY <1>1, <3>1, ShapeFacts DEF Ring, None
      <3> QED BY <1>0, <3>1, <3>2, FlyIs
    <2>2. AFin(bur[Oldest].n) /\ RFin(bur[Oldest].n) /\ bur[Oldest].n = Last - 1
      <3>1. PICK o \in Ring : o = Oldest
        BY <1>1
      <3>2. ~Unarmed(o) /\ bur[o].pc = "idle" /\ bur[o].live /\ Marked(o)
        BY <1>1, <1>2, <2>1, <3>1 DEF Unarmed, Marks
      <3>3. AFin(bur[o].n) /\ RFin(bur[o].n)
        BY <3>2 DEF Marked
      <3>4. bur[o].n = Last - 1
        BY <1>1, <2>1, <3>1
      <3> QED BY <3>1, <3>3, <3>4
    <2>3. Behind(cur) /\ Last \in Nat /\ Last > 0
      BY <1>0, <1>1, <2>1 DEF History, Order, InRing
    <2>4. (\A i \in 0 .. Last - 2 : AFin(i)) /\ (Deep => \A i \in 0 .. Last - 2 : RFin(i))
      BY <2>1, <2>3 DEF Behind
    <2>5. k = cur
      BY <1>6 DEF Unarmed
    <2>6. bur'[k].n = Last
      BY <1>2, <2>1, <2>5
    <2>7. \A i \in 0 .. bur'[k].n - 2 : AFin(i)'
      BY <1>3, <2>4, <2>6
    <2>8. Deep' => \A i \in 0 .. bur'[k].n - 2 : RFin(i)'
      BY <1>3, <2>4, <2>6
    <2>9. AFin(bur[k].n - 1)' /\ RFin(bur[k].n - 1)'
      <3>1. PICK c : c = Last - 1 /\ AFin(c) /\ RFin(c)
        BY <2>2
      <3>2. bur'[k].n - 1 = c
        BY <2>6, <3>1
      <3>3. AFin(c)' /\ RFin(c)'
        BY <1>3, <3>1
      <3> QED BY <3>2, <3>3
    <2>10. Behind(k)'
      BY <2>7, <2>8, <2>9, Zenon DEF Behind, Preparing
    <2> QED BY <2>10
  <1>7. Ahead'
    BY <1>1 DEF Ahead
  <1>8. \A m \in Ring : Behind(m)'
    BY <1>5, <1>6
  <1> QED BY <1>3, <1>7, <1>8 DEF History

LEMMA HistoryRest ==
  ASSUME cfg \in Shapes, Course, Stages, Marks, History,
         CodeSerial \/ Close \/ Closed \/ UNCHANGED vars
  PROVE  History'
  <1>0. /\ Bursts /\ Order /\ cfg' = cfg /\ Rows \in Nat /\ Len(cfg.script) \in Nat
        /\ UNCHANGED <<bur, cur, fly, nlive>> /\ Ring' = Ring
    BY ShapeFacts DEF Course, CodeSerial, Close, Closed, vars, ctx, Ring
  <1>1. Grows
    <2>1. [Next]_vars
      BY DEF Next
    <2> QED BY <2>1, FinGrows
  <1>2. CASE CodeSerial
    <2>1. apc = "ready" /\ apc' = "ready" /\ nlive = 0 /\ nlive \in Nat /\ cur \in Ring
      BY <1>0, <1>2 DEF CodeSerial, Order, Turn
    <2>2. \A m \in Ring : ~bur[m].live
      <3>1. \A m \in Ring : Age(m) \in Nat
        BY <2>1, RingFacts, ShapeFacts
      <3> QED BY <1>0, <2>1, <3>1 DEF Order, InRing
    <2> QED BY <1>0, <2>1, <2>2 DEF History, Ahead, Behind
  <1>3. CASE Close \/ Closed \/ UNCHANGED vars
    <2>1. /\ UNCHANGED <<n, fin>>
          /\ apc' = apc \/ (apc \in {"ready", "failing"} /\ apc' = "closed")
      BY <1>3 DEF Close, Closed, vars
    <2>2. ASSUME NEW m \in Ring PROVE Behind(m)'
      <3>1. /\ Behind(m) /\ bur[m].n \in 0 .. Len(cfg.script) /\ (bur[m].live => bur[m].n > 0)
        BY <1>0, RunsInPics DEF History, Order, InRing
      <3>2. Unarmed(m) => Unarmed(m)'
        BY <1>0, <2>1 DEF Unarmed
      <3> QED BY <1>0, <1>1, <3>1, <3>2, BehindStays
    <2>3. Ahead'
      <3>1. Next_slot' = Next_slot
        BY <1>0 DEF Next_slot
      <3>2. GateOn(Next_slot, n - 1) => GateOn(Next_slot, n - 1)'
        BY <1>0, <2>1, <3>1 DEF GateOn, HasRefB
      <3> QED BY <1>0, <2>1, <3>1, <3>2 DEF History, Ahead, RFin, HasRefB, Rows
    <2> QED BY <1>0, <2>2, <2>3 DEF History
  <1> QED BY <1>2, <1>3

LEMMA HistorySteps ==
  ASSUME cfg \in Shapes, Course, Stages, Marks, History, [Next]_vars PROVE History'
  BY HistoryThreads, HistoryPrep, HistoryBegin, HistoryDrain, HistoryRest DEF Next

LEMMA HistoryStart == Init => History
  BY DEF Init, History, Ahead, Behind, NoBurst

-----------------------------------------------------------------------------
(* The reference lists.                                                     *)

\* The display position of a reference picture.
LEMMA RefPoc ==
  ASSUME cfg \in Shapes, NEW s, dpb[s].pic \in RefPics
  PROVE  \E m \in 0 .. Len(cfg.script) :
            \/ dpb[s].pic = <<m, "A">> /\ SlotPoc(s) = 4 * m
            \/ /\ dpb[s].pic = <<m, "R">> /\ HasRefB(m)
               /\ SlotPoc(s) \in Int /\ 4 * (m - 1) < SlotPoc(s) /\ SlotPoc(s) < 4 * m
  <1>1. PICK m \in 0 .. Len(cfg.script) :
            \/ dpb[s].pic = <<m, "A">>
            \/ m > 0 /\ cfg.script[m] > 1 /\ dpb[s].pic = <<m, "R">>
    BY RefPicForms
  <1>2. CASE dpb[s].pic = <<m, "A">>
    <2>1. SlotPoc(s) = 4 * m - 0
      BY <1>2 DEF SlotPoc, Poc
    <2> QED BY <1>2, <2>1
  <1>3. CASE m > 0 /\ cfg.script[m] > 1 /\ dpb[s].pic = <<m, "R">>
    <2>1. SlotPoc(s) = 4 * m - (IF cfg.script[m] = 3 THEN 2 ELSE 1)
      BY <1>3 DEF SlotPoc, Poc
    <2>2. HasRefB(m)
      BY <1>3 DEF HasRefB
    <2> QED BY <1>3, <2>1, <2>2
  <1> QED BY <1>1, <1>2, <1>3

\* The references held: one slot for each, of pictures no newer than the newest.
LEMMA UsedPics ==
  ASSUME Typing, Window
  PROVE  /\ IsFiniteSet(Used) /\ Newest \in RefPics /\ nfn = Index(Newest) + 1
         /\ \A s \in Used : dpb[s].pic \in RefPics /\ dpb[s].pic \in Earlier(Newest) \cup {Newest}
         /\ \A s, t \in Used : dpb[s].pic = dpb[t].pic => s = t
         /\ \A p \in Earlier(Newest) \cup {Newest} :
               nfn - Mrf <= Index(p) => \E s \in Used : dpb[s].pic = p
  <1>1. cfg \in Shapes /\ IsDpb(dpb) /\ nfn \in Nat /\ UsedIn(dpb) = Used
    BY DEF Typing, UsedIn, Used
  <1>2. IsFiniteSet(Used)
    BY <1>1, WindowSize DEF Window
  <1>3. PicWindow(dpb, nfn, Newest) /\ FnWindow(dpb, nfn)
    BY DEF Window
  <1>4. Newest \in RefPics /\ Earlier(Newest) \subseteq RefPics
    BY <1>1, <1>3, EarlierFinite DEF PicWindow
  <1>5. \A s, t \in Used : dpb[s].pic = dpb[t].pic => s = t
    BY <1>1, <1>3 DEF PicWindow, FnWindow
  <1> QED BY <1>1, <1>2, <1>3, <1>4, <1>5 DEF PicWindow

\* No set of slots has fewer than no members, and only the empty one none.
LEMMA FewSlots ==
  ASSUME IsFiniteSet(Used), NEW S, S \subseteq Used
  PROVE  ~(Cardinality(S) < 0) /\ (Cardinality(S) < 1 <=> S = {})
  <1>1. IsFiniteSet(S) /\ Cardinality(S) \in Nat
    BY FS_Subset, FS_CardinalityType
  <1> QED BY <1>1, FS_EmptySet

\* A B picture of mini-GOP m, when the references go up to its anchor.
BView(m, q) ==
    /\ m \in 1 .. Len(cfg.script) /\ q \in 4 * m - 3 .. 4 * m - 1
    /\ \A s \in Used : dpb[s].pic[1] <= m
    /\ \E s \in Used : dpb[s].pic = <<m, "A">>

LEMMA Around ==
  ASSUME Typing, Window, NEW m, NEW q, BView(m, q), NEW s \in Used
  PROVE  /\ SlotPoc(s) \in Int /\ m \in Nat /\ q \in Int
         /\ SlotPoc(s) > q => dpb[s].pic \in {<<m, "A">>, <<m, "R">>}
         /\ SlotPoc(s) > 4 * (m - 1) => dpb[s].pic \in {<<m, "A">>, <<m, "R">>}
         /\ dpb[s].pic = <<m, "A">> => SlotPoc(s) = 4 * m
         /\ dpb[s].pic = <<m, "R">> => 4 * (m - 1) < SlotPoc(s) /\ SlotPoc(s) < 4 * m
         /\ dpb[s].pic = <<m - 1, "A">> => SlotPoc(s) = 4 * (m - 1)
         /\ SlotPoc(s) = 4 * (m - 1) => dpb[s].pic = <<m - 1, "A">>
  <1>1. cfg \in Shapes /\ Len(cfg.script) \in Nat
    BY ShapeFacts DEF Typing
  <1>2. m \in 1 .. Len(cfg.script) /\ q \in 4 * m - 3 .. 4 * m - 1 /\ dpb[s].pic[1] <= m
    BY DEF BView
  <1>3. PICK i \in 0 .. Len(cfg.script) :
            \/ dpb[s].pic = <<i, "A">> /\ SlotPoc(s) = 4 * i
            \/ /\ dpb[s].pic = <<i, "R">>
               /\ SlotPoc(s) \in Int /\ 4 * (i - 1) < SlotPoc(s) /\ SlotPoc(s) < 4 * i
    BY <1>1, UsedPics, RefPoc
  <1>4. i <= m
    BY <1>2, <1>3
  <1>5. m \in Nat /\ q \in Int /\ i \in Nat /\ 4 * (m - 1) < q /\ q < 4 * m
    BY <1>1, <1>2
  <1>6. CASE dpb[s].pic = <<i, "A">> /\ SlotPoc(s) = 4 * i
    <2>1. SlotPoc(s) \in Int /\ (SlotPoc(s) > 4 * (m - 1) => i = m)
          /\ (SlotPoc(s) = 4 * (m - 1) => i = m - 1)
      BY <1>4, <1>5, <1>6
    <2> QED BY <1>4, <1>5, <1>6, <2>1
  <1>7. CASE /\ dpb[s].pic = <<i, "R">>
             /\ SlotPoc(s) \in Int /\ 4 * (i - 1) < SlotPoc(s) /\ SlotPoc(s) < 4 * i
    <2>1. (SlotPoc(s) > 4 * (m - 1) => i = m) /\ SlotPoc(s) # 4 * (m - 1)
      BY <1>4, <1>5, <1>7
    <2> QED BY <1>4, <1>5, <1>7, <2>1
  <1> QED BY <1>3, <1>6, <1>7

\* Its list 1 starts in its own mini-GOP.
LEMMA FutureIs ==
  ASSUME Typing, Window, NEW m, NEW q, BView(m, q)
  PROVE  Future(q) \in Used /\ dpb[Future(q)].pic \in {<<m, "A">>, <<m, "R">>}
  <1> DEFINE S == {t \in Used : SlotPoc(t) > q}
             Above(s) == {t \in S : -SlotPoc(t) > -SlotPoc(s)}
  <1>0. IsFiniteSet(Used)
    BY UsedPics
  <1>1. \A s \in Used : Cardinality(Above(s)) < 1 <=> Above(s) = {}
    <2> SUFFICES ASSUME NEW s \in Used PROVE Cardinality(Above(s)) < 1 <=> Above(s) = {}
      OBVIOUS
    <2>1. Above(s) \subseteq Used
      OBVIOUS
    <2> HIDE DEF Above
    <2> QED BY <1>0, <2>1, FewSlots
  <1>2. PICK a \in Used : dpb[a].pic = <<m, "A">>
    BY DEF BView
  <1>3. SlotPoc(a) = 4 * m /\ m \in Nat /\ q \in 4 * m - 3 .. 4 * m - 1
    BY <1>2, Around DEF BView
  <1>4. \E s \in S : Above(s) = {}
    <2>1. CASE \E r \in S : dpb[r].pic = <<m, "R">>
      <3>1. PICK r \in S : dpb[r].pic = <<m, "R">>
        BY <2>1
      <3>2. ASSUME NEW t \in S PROVE ~(-SlotPoc(t) > -SlotPoc(r))
        <4>1. dpb[t].pic \in {<<m, "A">>, <<m, "R">>}
          BY <3>2, Around
        <4>2. CASE dpb[t].pic = <<m, "A">>
          BY <1>3, <3>1, <4>2, Around
        <4>3. CASE dpb[t].pic = <<m, "R">>
          <5>1. t = r
            BY <3>1, <4>3, UsedPics
          <5>2. SlotPoc(t) \in Int
            BY Around
          <5> QED BY <5>1, <5>2
        <4> QED BY <4>1, <4>2, <4>3
      <3> QED BY <3>2
    <2>2. CASE ~ \E r \in S : dpb[r].pic = <<m, "R">>
      <3>1. a \in S
        BY <1>2, <1>3
      <3>2. ASSUME NEW t \in S PROVE ~(-SlotPoc(t) > -SlotPoc(a))
        <4>1. dpb[t].pic = <<m, "A">>
          BY <2>2, <3>2, Around
        <4> QED BY <1>3, <4>1, Around
      <3> QED BY <3>1, <3>2
    <2> QED BY <2>1, <2>2
  <1>5. Future(q) = CHOOSE s \in Used : s \in {r \in S : Cardinality(Above(r)) < 1}
    BY DEF Future, Top
  <1>6. \E s \in Used : s \in {r \in S : Cardinality(Above(r)) < 1}
    BY <1>1, <1>4
  <1>7. Future(q) \in Used /\ Future(q) \in S
    <2> HIDE DEF S, Above
    <2> QED BY <1>5, <1>6
  <1> QED BY <1>7, Around

\* Its list 0 looks back, nearest first; of its own mini-GOP it holds the
\* reference B alone, which is then the nearest.
LEMMA ListIs ==
  ASSUME Typing, Window, NEW m, NEW q, BView(m, q), NEW s \in List0B(q)
  PROVE  /\ s \in Used /\ dpb[s].pic # <<m, "A">>
         /\ dpb[s].pic[1] = m => dpb[s].pic = <<m, "R">> /\ Past(q) = s
         /\ cfg.nref = 1 => \A t \in Used : SlotPoc(t) < q => ~(SlotPoc(t) > SlotPoc(s))
  <1> DEFINE S == {t \in Used : SlotPoc(t) < q}
             Above(r) == {t \in S : SlotPoc(t) > SlotPoc(r)}
  <1>0. IsFiniteSet(Used) /\ m \in Nat /\ q \in 4 * m - 3 .. 4 * m - 1
    BY UsedPics, Around DEF BView
  <1>1. \A r \in Used : Cardinality(Above(r)) < 1 <=> Above(r) = {}
    <2> SUFFICES ASSUME NEW r \in Used PROVE Cardinality(Above(r)) < 1 <=> Above(r) = {}
      OBVIOUS
    <2>1. Above(r) \subseteq Used
      OBVIOUS
    <2> HIDE DEF Above
    <2> QED BY <1>0, <2>1, FewSlots
  <1>2. s \in S /\ (cfg.nref = 1 => Cardinality(Above(s)) < 1)
    BY DEF List0B, Top
  <1>3. cfg.nref = 1 => \A t \in Used : SlotPoc(t) < q => ~(SlotPoc(t) > SlotPoc(s))
    <2>1. cfg.nref = 1 => Above(s) = {}
      BY <1>1, <1>2
    <2> QED BY <2>1
  <1>4. dpb[s].pic # <<m, "A">>
    BY <1>0, <1>2, Around
  <1>5. ASSUME dpb[s].pic[1] = m PROVE dpb[s].pic = <<m, "R">> /\ Past(q) = s
    <2>1. dpb[s].pic = <<m, "R">>
      <3>1. dpb[s].pic \in RefPics
        BY <1>2, UsedPics
      <3> QED BY <1>4, <1>5, <3>1, RefPicForms DEF Typing
    <2>2. Past(q) = CHOOSE r \in Used : r \in {t \in S : Cardinality(Above(t)) < 1}
      BY DEF Past, Top
    <2>3. ASSUME NEW r \in Used PROVE r \in {t \in S : Cardinality(Above(t)) < 1} <=> r = s
      <3>1. SlotPoc(s) \in Int /\ SlotPoc(r) \in Int /\ 4 * (m - 1) < SlotPoc(s)
        BY <1>2, <2>1, Around
      <3>2. ASSUME NEW t \in S, SlotPoc(t) > 4 * (m - 1) PROVE t = s
        <4>1. dpb[t].pic \in {<<m, "A">>, <<m, "R">>} /\ SlotPoc(t) \in Int
          BY <3>2, Around
        <4>2. dpb[t].pic # <<m, "A">>
          BY <1>0, <3>2, <4>1, Around
        <4> QED BY <1>2, <2>1, <4>1, <4>2, UsedPics
      <3>3. Above(s) = {}
        <4> SUFFICES ASSUME NEW t \in S, SlotPoc(t) > SlotPoc(s) PROVE FALSE
          OBVIOUS
        <4>1. SlotPoc(t) > 4 * (m - 1)
          BY <1>0, <3>1, Around
        <4>2. t = s
          BY <3>2, <4>1
        <4> QED BY <3>1, <4>2
      <3>4. r \in S /\ r # s => s \in Above(r)
        <4> SUFFICES ASSUME r \in S, r # s PROVE SlotPoc(s) > SlotPoc(r)
          BY <1>2
        <4>1. ~(SlotPoc(r) > 4 * (m - 1))
          BY <3>2
        <4> QED BY <1>0, <3>1, <4>1
      <3> HIDE DEF S, Above
      <3> QED BY <1>1, <1>2, <3>3, <3>4
    <2> HIDE DEF S, Above
    <2>4. s \in Used
      BY <1>2 DEF S
    <2>5. Past(q) = CHOOSE r \in Used : r = s
      <3> DEFINE P(r) == r \in {t \in S : Cardinality(Above(t)) < 1}
      <3>1. Past(q) \in Used /\ P(Past(q))
        BY <2>2, <2>3, <2>4
      <3> QED BY <2>3, <2>4, <3>1
    <2> QED BY <2>1, <2>4, <2>5
  <1> QED BY <1>2, <1>3, <1>4, <1>5

\* The anchors a burst looks back to are still held.
LEMMA HeldAnchors ==
  ASSUME Typing, Course, Window
  PROVE  /\ \A s \in Used : dpb[s].pic[1] <= Last
         /\ \E s \in Used : dpb[s].pic = <<Last, "A">>
         /\ Last > 0 /\ cfg.script[Last] # Idr /\ (Newest = <<Last, "A">> \/ cfg.wide)
               => \E s \in Used : dpb[s].pic = <<Last - 1, "A">>
         /\ Newest \in {<<Last, "A">>, LastRef(Last)}
  <1>0. cfg \in Shapes /\ Order /\ Len(cfg.script) \in Nat /\ Mrf \in Nat /\ Mrf > 2
        /\ (cfg.wide => Mrf > 3)
    BY ShapeFacts DEF Typing, Course
  <1>1. Last \in 0 .. Len(cfg.script)
    BY <1>0, LastIs
  <1> DEFINE a == <<Last, "A">>
             l == LastRef(Last)
  <1>2. Newest \in {a, l}
    BY DEF Newest, LastRef
  <1>3. /\ Index(a) \in Nat /\ Index(l) \in Nat
        /\ l = a \/ (Index(l) = Index(a) + 1 /\ Earlier(l) = Earlier(a) \cup {a})
    <2>1. Index(a) \in Nat /\ Index(l) \in Nat
      BY <1>0, EarlierFinite
    <2>2. CASE Last > 0 /\ cfg.script[Last] > 1
      <3>1. l = <<Last, "R">> /\ Last \in 1 .. Len(cfg.script)
        BY <1>0, <1>1, <2>2 DEF LastRef
      <3> QED BY <1>0, <2>1, <2>2, <3>1, NextIsR
    <2>3. CASE ~(Last > 0 /\ cfg.script[Last] > 1)
      BY <2>1, <2>3 DEF LastRef
    <2> QED BY <2>1, <2>2, <2>3
  <1>4. /\ nfn = Index(Newest) + 1
        /\ \A p \in Earlier(Newest) \cup {Newest} :
               nfn - Mrf <= Index(p) => \E s \in Used : dpb[s].pic = p
        /\ \A s \in Used : dpb[s].pic \in Earlier(Newest) \cup {Newest}
    BY UsedPics
  <1>5. \A p \in Earlier(Newest) \cup {Newest} : p[1] <= Last
    <2>1. Newest[1] = Last
      BY <1>2 DEF LastRef
    <2>2. ASSUME NEW p \in Earlier(Newest) PROVE p[1] <= Last
      <3>1. p \in RefPics /\ (p[1] < Newest[1] \/ p[1] = Newest[1])
        BY DEF Earlier, Precedes
      <3>2. p[1] \in Nat /\ Last \in Nat
        BY <1>0, <1>1, <3>1, RefInPics
      <3> QED BY <2>1, <3>1, <3>2
    <2> QED BY <1>1, <2>1, <2>2
  <1>6. a \in Earlier(Newest) \cup {Newest} /\ nfn - Mrf <= Index(a)
        /\ Earlier(a) \subseteq Earlier(Newest) /\ nfn <= Index(a) + 2
        /\ (Newest = a => nfn = Index(a) + 1)
    BY <1>0, <1>2, <1>3, <1>4
  <1>7. ASSUME Last > 0, cfg.script[Last] # Idr, Newest = a \/ cfg.wide
        PROVE  \E s \in Used : dpb[s].pic = <<Last - 1, "A">>
    <2>1. PICK i : i = Last - 1 /\ i \in 0 .. Len(cfg.script) - 1 /\ i + 1 = Last
      BY <1>0, <1>1, <1>7
    <2> DEFINE b == <<i, "A">>
               c == LastRef(i)
    <2>2. Earlier(a) = Earlier(c) \cup {c} /\ Index(a) = Index(c) + 1
      BY <1>0, <1>7, <2>1, NextIsA
    <2>3. /\ Index(b) \in Nat /\ Index(c) \in Nat
          /\ c = b \/ (Index(c) = Index(b) + 1 /\ Earlier(c) = Earlier(b) \cup {b})
      <3>1. Index(b) \in Nat /\ Index(c) \in Nat
        BY <1>0, EarlierFinite
      <3>2. CASE i > 0 /\ cfg.script[i] > 1
        <4>1. c = <<i, "R">> /\ i \in 1 .. Len(cfg.script)
          BY <1>0, <2>1, <3>2 DEF LastRef
        <4> QED BY <1>0, <3>1, <3>2, <4>1, NextIsR
      <3>3. CASE ~(i > 0 /\ cfg.script[i] > 1)
        BY <3>1, <3>3 DEF LastRef
      <3> QED BY <3>1, <3>2, <3>3
    <2>4. b \in Earlier(Newest)
      BY <1>6, <2>2, <2>3
    <2>5. Index(b) + 2 >= Index(a) /\ nfn - Mrf <= Index(b)
      <3>1. Index(b) + 2 >= Index(a)
        BY <2>2, <2>3
      <3> HIDE DEF a, b, c, l
      <3>2. Index(a) \in Nat /\ Index(b) \in Nat /\ nfn \in Nat
        BY <1>3, <2>3 DEF Typing
      <3>3. CASE Newest = a
        BY <1>0, <1>6, <3>1, <3>2, <3>3
      <3>4. CASE cfg.wide
        BY <1>0, <1>6, <3>1, <3>2, <3>4
      <3> QED BY <1>7, <3>1, <3>3, <3>4
    <2>6. \E s \in Used : dpb[s].pic = b
      BY <1>4, <2>4, <2>5
    <2> QED BY <2>1, <2>6
  <1> QED BY <1>2, <1>4, <1>5, <1>6, <1>7

LEMMA RefFields ==
  ASSUME NEW s, NEW p \in BOOLEAN
  PROVE  Ref(s, p).pic = dpb[s].pic /\ (Ref(s, p).part <=> p)
  BY DEF Ref

LEMMA BRefIs ==
  ASSUME NEW k, NEW q, NEW r \in BRefs(k, q)
  PROVE  \E s \in List0B(q) \cup {Future(q)} :
             r.pic = dpb[s].pic /\ (r.part <=> dpb[s].pic[1] = bur[k].n)
  <1>1. PICK s \in List0B(q) \cup {Future(q)} : r = Ref(s, dpb[s].pic[1] = bur[k].n)
    BY DEF BRefs
  <1>2. PICK p \in BOOLEAN : p = (dpb[s].pic[1] = bur[k].n)
    OBVIOUS
  <1>3. r.pic = dpb[s].pic /\ (r.part <=> p)
    BY <1>1, <1>2, RefFields
  <1> QED BY <1>2, <1>3

\* What a B of the newest burst refers to.
LEMMA BurstRefs ==
  ASSUME Typing, Course, Window, NEW m, m = Last, m \in 1 .. Len(cfg.script),
         cfg.script[m] # Idr, NEW k \in Ring, bur[k].n = m,
         NEW q \in 4 * m - 3 .. 4 * m - 1
  PROVE  /\ BView(m, q)
         /\ \A r \in BRefs(k, q) :
              /\ r.pic \in RefPics
              /\ r.part => \E g \in BGates(k, q) : /\ g[1] = k /\ g[2] \in {"A", "R"}
                                                   /\ r.pic = <<m, g[2]>>
              /\ ~r.part => r.pic[1] \in Nat /\ r.pic[1] < m
         /\ \E r \in BRefs(k, q) : r.part /\ r.pic \in {<<m, "A">>, <<m, "R">>}
         /\ \A g \in BGates(k, q) : g[1] = k /\ g[2] \in {"A", "R"}
  <1>0. cfg \in Shapes /\ Len(cfg.script) \in Nat /\ m \in Nat
    BY ShapeFacts DEF Typing
  <1>1. BView(m, q)
    BY HeldAnchors DEF BView
  <1>2. Future(q) \in Used /\ dpb[Future(q)].pic \in {<<m, "A">>, <<m, "R">>}
    BY <1>1, FutureIs
  <1>3. ASSUME NEW s \in List0B(q) \cup {Future(q)}
        PROVE  s \in Used /\ dpb[s].pic \in RefPics /\ dpb[s].pic[1] \in Nat /\ dpb[s].pic[1] <= m
    <2>1. s \in Used
      BY <1>1, <1>2, <1>3, ListIs
    <2>2. dpb[s].pic \in RefPics
      BY <2>1, UsedPics
    <2> QED BY <1>1, <2>1, <2>2, RefInPics DEF BView
  <1>4. ASSUME NEW s \in List0B(q) \cup {Future(q)}, dpb[s].pic[1] = m
        PROVE  \E g \in BGates(k, q) : /\ g[1] = k /\ g[2] \in {"A", "R"}
                                       /\ dpb[s].pic = <<m, g[2]>>
    <2>1. CASE s = Future(q)
      <3>1. CASE dpb[s].pic = <<m, "A">>
        <4>1. << k, "A" >> \in BGates(k, q)
          BY <2>1, <3>1 DEF BGates, A
        <4> QED BY <3>1, <4>1
      <3>2. CASE dpb[s].pic = <<m, "R">>
        <4>1. << k, "R" >> \in BGates(k, q)
          BY <2>1, <3>2 DEF BGates
        <4> QED BY <3>2, <4>1
      <3> QED BY <1>2, <2>1, <3>1, <3>2
    <2>2. CASE s \in List0B(q)
      <3>1. dpb[s].pic = <<m, "R">> /\ Past(q) = s
        BY <1>1, <1>4, <2>2, ListIs
      <3>2. << k, "R" >> \in BGates(k, q)
        BY <3>1 DEF BGates
      <3> QED BY <3>1, <3>2
    <2> QED BY <1>4, <2>1, <2>2
  <1>5. \A r \in BRefs(k, q) : \E s \in List0B(q) \cup {Future(q)} :
            r.pic = dpb[s].pic /\ (r.part <=> dpb[s].pic[1] = m)
    BY BRefIs
  <1>6. \E r \in BRefs(k, q) : r.part /\ r.pic = dpb[Future(q)].pic
    <2>1. Ref(Future(q), dpb[Future(q)].pic[1] = bur[k].n) \in BRefs(k, q)
      BY DEF BRefs
    <2>2. PICK f : f = Future(q)
      OBVIOUS
    <2>3. Ref(f, dpb[f].pic[1] = bur[k].n) \in BRefs(k, q) /\ dpb[f].pic[1] = bur[k].n
      BY <1>2, <2>1, <2>2
    <2>4. Ref(f, dpb[f].pic[1] = bur[k].n) = Ref(f, TRUE)
      BY <2>3 DEF Ref
    <2>5. Ref(f, TRUE).part /\ Ref(f, TRUE).pic = dpb[f].pic
      BY DEF Ref
    <2> QED BY <2>2, <2>3, <2>4, <2>5
  <1>7. \A g \in BGates(k, q) : g[1] = k /\ g[2] \in {"A", "R"}
    BY DEF BGates
  <1>8. ASSUME NEW r \in BRefs(k, q)
        PROVE  /\ r.pic \in RefPics
               /\ r.part => \E g \in BGates(k, q) : /\ g[1] = k /\ g[2] \in {"A", "R"}
                                                    /\ r.pic = <<m, g[2]>>
               /\ ~r.part => r.pic[1] \in Nat /\ r.pic[1] < m
    <2>1. PICK s \in List0B(q) \cup {Future(q)} :
            r.pic = dpb[s].pic /\ (r.part <=> dpb[s].pic[1] = m)
      BY <1>5
    <2>2. /\ dpb[s].pic \in RefPics /\ dpb[s].pic[1] \in Nat /\ dpb[s].pic[1] <= m
      BY <1>3
    <2>3. r.part => \E g \in BGates(k, q) : /\ g[1] = k /\ g[2] \in {"A", "R"}
                                           /\ r.pic = <<m, g[2]>>
      BY <1>4, <2>1
    <2>4. ~r.part => r.pic[1] \in Nat /\ r.pic[1] < m
      <3>1. ~r.part => dpb[s].pic[1] # m
        BY <2>1
      <3>2. r.pic[1] = dpb[s].pic[1]
        BY <2>1
      <3> HIDE <2>1
      <3> QED BY <1>0, <2>2, <3>1, <3>2
    <2> QED BY <2>1, <2>2, <2>3, <2>4
  <1> QED BY <1>1, <1>2, <1>6, <1>7, <1>8

\* A picture read whole is final by the time the burst's chain is let go.
LEMMA BurstAwaits ==
  ASSUME Typing, Course, Window, Marks, NEW m, m = Last, m \in 1 .. Len(cfg.script),
         cfg.script[m] # Idr, NEW k \in Ring, bur[k].n = m, bur[k].live, ~Unarmed(k),
         Behind(k), PrevPublished(k) \/ bur[k].pc # "prep",
         NEW q \in 4 * m - 3 .. 4 * m - 1
  PROVE  \A r \in BRefs(k, q) : ~r.part =>
             fin[r.pic] = Rows \/ (Deep /\ r.pic = <<m - 1, "R">>)
  <1> SUFFICES ASSUME NEW r \in BRefs(k, q), ~r.part, fin[r.pic] # Rows
               PROVE  Deep /\ r.pic = <<m - 1, "R">>
    OBVIOUS
  <1>0. cfg \in Shapes /\ Len(cfg.script) \in Nat /\ m \in Nat /\ cfg.wide \in BOOLEAN
        /\ cfg.nref \in Nat /\ cfg.nref > 0
    BY ShapeFacts DEF Typing
  <1>1. r.pic \in RefPics /\ r.pic[1] \in Nat /\ r.pic[1] < m
    BY BurstRefs
  <1>2. r.pic = <<r.pic[1], r.pic[2]>> /\ r.pic[2] \in {"A", "R"}
        /\ (r.pic[2] = "R" => HasRefB(r.pic[1]))
    BY <1>1, RefInPics
  <1>3. r.pic[1] = m - 1 \/ r.pic[1] \in 0 .. m - 2
    <2>1. PICK i \in Nat : i = r.pic[1] /\ i < m
      BY <1>1
    <2> USE <1>0, <2>1
    <2>2. i = m - 1 \/ i \in 0 .. m - 2
      BY ONLY m \in Nat, i \in Nat, i < m
    <2> QED BY <2>1, <2>2
  <1>4. AFin(m - 1) /\ \A i \in 0 .. m - 2 : AFin(i)
    BY <1>0, PrevIsFinal DEF Behind
  <1>5. r.pic[2] = "R"
    BY <1>2, <1>3, <1>4 DEF AFin
  <1>6. Deep
    <2> SUFFICES ASSUME ~Deep PROVE FALSE
      OBVIOUS
    <2>1. cfg.nref = 1 /\ cfg.wide
      BY <1>0 DEF Deep
    <2>2. BView(m, q) /\ m \in 1 .. Len(cfg.script) /\ q \in 4 * m - 3 .. 4 * m - 1
      BY BurstRefs
    <2>3. PICK a \in Used : dpb[a].pic = <<m - 1, "A">>
      BY <1>0, <2>1, HeldAnchors
    <2>4. SlotPoc(a) = 4 * (m - 1) /\ SlotPoc(a) < q
      BY <1>0, <2>2, <2>3, Around
    <2>5. PICK s \in List0B(q) \cup {Future(q)} :
            r.pic = dpb[s].pic /\ (r.part <=> dpb[s].pic[1] = m)
      BY BRefIs
    <2>6. s \in List0B(q)
      <3>1. PICK f \in Used : f = Future(q) /\ dpb[f].pic \in {<<m, "A">>, <<m, "R">>}
        BY <2>2, FutureIs
      <3>2. dpb[f].pic[1] = m
        BY <3>1
      <3>3. s # f
        BY <1>0, <1>1, <2>5, <3>2
      <3> QED BY ONLY <2>5, <3>1, <3>3
    <2>7. s \in Used /\ ~(SlotPoc(a) > SlotPoc(s))
      BY <2>1, <2>2, <2>4, <2>6, ListIs
    <2>8. SlotPoc(s) \in Int /\ SlotPoc(s) >= 4 * (m - 1)
      BY <1>0, <2>2, <2>4, <2>7, Around
    <2>9. dpb[s].pic \in {<<m, "A">>, <<m, "R">>, <<m - 1, "A">>}
      <3>1. /\ SlotPoc(s) > 4 * (m - 1) => dpb[s].pic \in {<<m, "A">>, <<m, "R">>}
            /\ SlotPoc(s) = 4 * (m - 1) => dpb[s].pic = <<m - 1, "A">>
        BY <2>2, <2>7, Around
      <3>2. PICK x \in Int : x = SlotPoc(s) /\ x >= 4 * (m - 1)
        BY <2>8
      <3>3. x = 4 * (m - 1) \/ x > 4 * (m - 1)
        BY <1>0, <3>2
      <3> QED BY <3>1, <3>2, <3>3
    <2> QED BY <1>0, <1>1, <1>5, <2>5, <2>9
  <1>7. r.pic[1] = m - 1
    <2>1. Deep => \A i \in 0 .. m - 2 : RFin(i)
      BY DEF Behind
    <2>2. r.pic[1] \in 0 .. m - 2 => RFin(r.pic[1])
      BY <1>6, <2>1
    <2> QED BY <1>2, <1>3, <1>5, <2>2 DEF RFin
  <1> QED BY <1>2, <1>5, <1>6, <1>7

\* The display positions a chain preps at lie within its mini-GOP.
LEMMA PocRanges ==
  ASSUME NEW k, bur[k].n \in Nat, bur[k].nb \in 1 .. 3
  PROVE  /\ bur[k].nb > 1 => RPoc(k) \in 4 * bur[k].n - 3 .. 4 * bur[k].n - 1
         /\ LeafPocs(bur[k].n, bur[k].nb) \subseteq 4 * bur[k].n - 3 .. 4 * bur[k].n - 1
         /\ LastPoc(k) \in LeafPocs(bur[k].n, bur[k].nb)
  <1>0. PICK m \in Nat, b \in 1 .. 3 : m = bur[k].n /\ b = bur[k].nb
    OBVIOUS
  <1>1. b > 1 => RPoc(k) \in 4 * m - 3 .. 4 * m - 1
    <2>1. RPoc(k) = 4 * m - (IF b = 3 THEN 2 ELSE 1)
      BY <1>0 DEF RPoc, Poc
    <2> QED BY <2>1
  <1>2. /\ b = 1 => LeafPocs(m, b) = {4 * m - 1}
        /\ b = 2 => LeafPocs(m, b) = {4 * m - 2}
        /\ b = 3 => LeafPocs(m, b) = {4 * m - 1, 4 * m - 3}
    BY DEF LeafPocs
  <1>3. LeafPocs(m, b) \subseteq 4 * m - 3 .. 4 * m - 1
    <2>1. CASE b = 1
      BY <1>2, <2>1
    <2>2. CASE b = 2
      BY <1>2, <2>2
    <2>3. CASE b = 3
      BY <1>2, <2>3
    <2> QED BY <2>1, <2>2, <2>3
  <1>4. LastPoc(k) \in LeafPocs(m, b)
    <2>1. LastPoc(k) = CHOOSE q \in LeafPocs(m, b) : \A r \in LeafPocs(m, b) : r <= q
      BY <1>0 DEF LastPoc
    <2>2. \E q \in LeafPocs(m, b) : \A r \in LeafPocs(m, b) : r <= q
      <3>1. CASE b = 1
        BY <1>2, <3>1
      <3>2. CASE b = 2
        BY <1>2, <3>2
      <3>3. CASE b = 3
        BY <1>2, <3>3
      <3> QED BY <3>1, <3>2, <3>3
    <2> QED BY <2>1, <2>2
  <1> QED BY <1>0, <1>1, <1>3, <1>4

\* A chain preps in the newest slot, once its burst is live.
LEMMA PrepsNewest ==
  ASSUME cfg \in Shapes, Course, NEW k \in Ring, PrepR(k) \/ PrepL(k)
  PROVE  /\ k = cur /\ fly = cur /\ bur[k].live /\ apc \in {"ready", "failing"} /\ ~Unarmed(k)
         /\ bur[k].n = Last /\ Last \in 1 .. Len(cfg.script) /\ Last \in Nat
         /\ cfg.script[Last] # Idr /\ bur[k].nb = cfg.script[Last] /\ bur[k].nb \in 1 .. 3
         /\ Preparing(bur[k])
  <1>0. Bursts /\ Order /\ IsBurst(bur[k]) /\ InRing(k) /\ K \in Nat /\ K > 1
        /\ Len(cfg.script) \in Nat
    BY ShapeFacts DEF Course, Order, Bursts
  <1>1. Preparing(bur[k])
    BY Zenon DEF PrepR, PrepL, Chain, Preparing
  <1>2. k = cur /\ apc \in {"ready", "failing"} /\ bur[k].live
    BY <1>0, <1>1 DEF InRing, Preparing
  <1>3. fly # None
    <2>1. Age(k) < nlive /\ Age(cur) = 0 /\ nlive \in 0 .. K
      BY <1>0, <1>2, RingFacts DEF InRing, Order, Turn
    <2> QED BY <1>0, <1>2, <2>1 DEF Order, Turn, Ring, None
  <1>4. fly = cur /\ bur[cur].n = Last /\ Last \in 1 .. Len(cfg.script)
        /\ bur[cur].nb = cfg.script[Last]
    BY <1>0, <1>3, FlyIs
  <1>5. bur[k].nb \in 1 .. 3
    BY <1>0, <1>2 DEF InRing, IsBurst
  <1> QED BY <1>0, <1>1, <1>2, <1>4, <1>5 DEF Idr, Unarmed

LEMMA ColocatedThreads ==
  ASSUME Typing, Course, Window, Colocated, NEW k \in Ring,
         \/ PrepR(k) \/ PrepL(k) \/ Encode(k) \/ LeafDone(k) \/ Join(k)
         \/ \E j \in Kinds : Analyze(k, j) \/ Trail(k, j) \/ Emit(k, j)
  PROVE  Colocated'
  <1>0. cfg \in Shapes /\ Bursts /\ Order /\ Rows \in Nat /\ cur \in Ring
    BY ShapeFacts DEF Typing, Course, Order, Turn
  <1>1. /\ cfg' = cfg /\ UNCHANGED <<apc, n, cur, fly, nlive>> /\ Alone(k)
        /\ Preparing(bur'[k]) => Preparing(bur[k])
    BY <1>0, ThreadSteps
  <1>2. Last' = Last /\ RefPics' = RefPics /\ Slots' = Slots
    BY <1>1 DEF Last, RefPics, Pics, Slots, Mrf
  <1>3. CASE PrepR(k)
    <2>1. k = cur /\ fly = cur /\ Preparing(bur[k])
      BY <1>0, <1>3, PrepsNewest
    <2>2. bur'[k].col = bur[k].col
      BY <1>0, <1>1, <1>3, PrepRWrites
    <2> QED BY <1>1, <2>1, <2>2 DEF Colocated
  <1>4. CASE PrepL(k)
    <2>1. /\ k = cur /\ fly = cur /\ apc \in {"ready", "failing"}
          /\ bur[k].n = Last /\ Last \in 1 .. Len(cfg.script) /\ Last \in Nat
          /\ cfg.script[Last] # Idr /\ bur[k].nb \in 1 .. 3
      BY <1>0, <1>4, PrepsNewest
    <2>2. bur'[k].pc = "rbgate" /\ bur'[k].col = Future(LastPoc(k)) /\ dpb' = dpb
      BY <1>0, <1>1, <1>4, PrepLWrites, Zenon DEF PrepL, store
    <2>3. PICK q \in 4 * Last - 3 .. 4 * Last - 1 : q = LastPoc(k)
      BY <2>1, PocRanges
    <2>4. Future(q) \in Used /\ dpb[Future(q)].pic \in {<<Last, "A">>, <<Last, "R">>}
      BY <2>1, BurstRefs, FutureIs
    <2>5. Future(q) \in Slots /\ dpb[Future(q)].pic \in RefPics /\ dpb[Future(q)].pic[1] = Last
      BY <2>4, UsedPics DEF Used
    <2> QED BY <1>1, <1>2, <2>1, <2>2, <2>3, <2>5 DEF Colocated, Preparing
  <1>5. CASE \/ Encode(k) \/ LeafDone(k) \/ Join(k)
             \/ \E j \in Kinds : Analyze(k, j) \/ Trail(k, j) \/ Emit(k, j)
    <2>1. dpb' = dpb
      BY <1>5, Zenon DEF Encode, LeafDone, Join, Analyze, Trail, Emit, store
    <2>2. bur'[k].col = bur[k].col
      <3>1. CASE Encode(k) \/ LeafDone(k) \/ Join(k)
        BY <1>0, <1>1, <3>1, EncodeWrites, LeafDoneWrites, JoinWrites
      <3>2. ASSUME NEW j \in Kinds, Analyze(k, j) \/ Trail(k, j) \/ Emit(k, j)
            PROVE  bur'[k].col = bur[k].col
        <4>1. CASE Analyze(k, j)
          BY <1>0, <1>1, <4>1, AnalyzeWrites DEF Kept
        <4>2. CASE Trail(k, j)
          BY <1>0, <1>1, <4>2, TrailKeeps
        <4>3. CASE Emit(k, j)
          BY <1>0, <1>1, <4>3, EmitWrites DEF Kept
        <4> QED BY <3>2, <4>1, <4>2, <4>3
      <3> QED BY <1>5, <3>1, <3>2
    <2>3. bur'[cur].col = bur[cur].col /\ (Preparing(bur'[cur]) => Preparing(bur[cur]))
      BY <1>0, <1>1, <2>2 DEF Alone
    <2> QED BY <1>1, <1>2, <2>1, <2>3 DEF Colocated
  <1> QED BY <1>3, <1>4, <1>5

LEMMA ColocatedSteps ==
  ASSUME Typing, Course, Stages, Window, Colocated, [Next]_vars PROVE Colocated'
  <1>0. cfg \in Shapes /\ Bursts /\ Order /\ cur \in Ring /\ nlive \in Nat
    BY ShapeFacts DEF Typing, Course, Order, Turn
  <1>1. CASE Prep
    <2>1. /\ Next_slot \in Ring /\ Next_slot # cur /\ n \in 1 .. Len(cfg.script) + 1
          /\ (fly # None => fly \in Ring) /\ UNCHANGED <<cfg, n, cur, fly, dpb>>
      <3>1. UNCHANGED <<cfg, n, cur, fly, dpb>>
        BY <1>1, PrepFrame
      <3>2. n \in 1 .. Len(cfg.script) + 1
        BY <1>0 DEF Order, Turn
      <3> QED BY <1>0, <1>1, <3>1, <3>2, NextIsDead, FlyIs
    <2>2. Alone(Next_slot) /\ apc = "ready" /\ apc' = "begin"
      BY <1>0, <1>1, <2>1, PrepWrites
    <2>3. bur'[cur] = bur[cur]
      BY <1>0, <2>1, <2>2 DEF Alone
    <2> QED BY <2>1, <2>2, <2>3 DEF Colocated, Last, RefPics, Pics, Slots, Mrf
  <1>2. CASE Begin
    <2>1. cfg' = cfg /\ Next_slot \in Ring /\ n \in Nat /\ apc = "begin"
      BY <1>0, <1>2, RingFacts DEF Begin, Order, Turn
    <2>2. PICK k \in Ring : k = Next_slot
      BY <2>1
    <2>3. bur'[k].col = bur[k].col /\ cur' = k
      BY <1>0, <1>2, <2>1, <2>2, BeginWrites, Zenon
    <2>4. bur[k].col = None
      BY <2>1, <2>2 DEF Stages, InStage
    <2>5. bur'[cur'].col = None
      BY <2>3, <2>4
    <2> QED BY <2>5 DEF Colocated
  <1>3. CASE Drain
    <2>1. /\ Last' = Last /\ apc' \in {"ready", "failing"} /\ Oldest \in Ring
      BY <1>0, <1>3, DrainsOldest DEF Course
    <2>2. /\ UNCHANGED <<cfg, cur, dpb>>
          /\ bur'[cur].col = bur[cur].col
          /\ \/ apc = "retire" /\ cur = fly
             \/ bur'[cur].pc = bur[cur].pc
          /\ fly' = (IF nlive = 1 THEN None ELSE fly)
      <3>1. UNCHANGED <<cfg, cur, dpb>>
        BY <1>3 DEF Drain, store
      <3> QED BY <1>0, <1>3, <2>1, <3>1, DrainWrites, Zenon
    <2> QED BY <2>1, <2>2 DEF Colocated, Preparing, RefPics, Pics, Slots, Mrf
  <1>4. CASE CodeSerial
    BY <1>0, <1>4 DEF CodeSerial, Colocated, Order, Turn, ctx
  <1>5. CASE Close \/ Closed \/ UNCHANGED vars
    <2>1. /\ UNCHANGED <<cfg, n, bur, cur, fly, dpb>>
          /\ apc' = apc \/ (apc \in {"ready", "failing"} /\ apc' = "closed")
      BY <1>5 DEF Close, Closed, vars, ctx, store
    <2> QED BY <2>1 DEF Colocated, Last, RefPics, Pics, Slots, Mrf
  <1>6. ASSUME NEW k \in Ring,
               \/ PrepR(k) \/ PrepL(k) \/ Encode(k) \/ LeafDone(k) \/ Join(k)
               \/ \E j \in Kinds : Analyze(k, j) \/ Trail(k, j) \/ Emit(k, j)
        PROVE  Colocated'
    BY <1>6, ColocatedThreads
  <1> QED BY <1>1, <1>2, <1>3, <1>4, <1>5, <1>6 DEF Next

LEMMA ColocatedStart == Init => Colocated
  BY DEF Init, Colocated

-----------------------------------------------------------------------------
(* What the jobs read after a step.                                         *)

\* A job whose rows and references a step leaves alone.
LEMMA JobStays ==
  ASSUME cfg \in Shapes, Course, Stages, Marks, Jobs, [Next]_vars,
         NEW k \in Ring, NEW j \in Kinds,
         bur'[k][j].st = bur[k][j].st, bur'[k][j].arow = bur[k][j].arow,
         bur'[k][j].refs = bur[k][j].refs, bur'[k][j].gates = bur[k][j].gates,
         bur'[k].n = bur[k].n, bur[k].R.st # "off" => bur'[k].R.st # "off"
  PROVE  Reads(k, j)'
  <1>1. cfg' = cfg /\ Rows \in Nat /\ Lag \in Nat /\ Grows /\ GatesKeep
    BY ShapeFacts, CourseSteps, FinGrows, GatesKept
  <1>2. IsJob(bur[k][j]) /\ Reads(k, j)
    BY DEF Course, Bursts, IsBurst, Jobs, Kinds
  <1> QED BY <1>1, <1>2, ReadsStay

\* A job a step rewrites, from its new values.
LEMMA NewReads ==
  ASSUME cfg' = cfg, NEW k, NEW j, NEW o, o = bur'[k][j],
         \A r \in o.refs : r.pic \in RefPics,
         o.st = "ready" \/ (o.st = "run" /\ o.arow < Rows) =>
           \A r \in o.refs : r.part => NextStreams(r, o),
         o.st = "run" \/ (o.st = "ready" /\ j = "A") =>
           \A r \in o.refs : ~r.part => fin'[r.pic] = Rows,
         o.st \in {"run", "done"} /\ o.arow > 0 =>
           \A r \in o.refs : r.part => fin'[r.pic] >= Least((o.arow - 1) + Lag, Rows),
         o.st = "ready" /\ j # "A" =>
           /\ o.arow = 0
           /\ \A r \in o.refs : ~r.part =>
                fin'[r.pic] = Rows \/ (Deep /\ r.pic = <<bur'[k].n - 1, "R">>),
         o.st # "off" /\ j = "R" => \E r \in o.refs : r.part /\ r.pic = <<bur'[k].n, "A">>,
         o.st # "off" /\ j = "L" =>
           \/ \E r \in o.refs : r.part /\ r.pic = <<bur'[k].n, "A">>
           \/ /\ \E r \in o.refs : r.part /\ r.pic = <<bur'[k].n, "R">>
              /\ bur'[k].R.st # "off"
  PROVE  Reads(k, j)'
  <1>1. Rows' = Rows /\ Lag' = Lag /\ RefPics' = RefPics /\ (Deep' <=> Deep)
    BY DEF Rows, Lag, RefPics, Pics, Deep
  <1>2. Referenced(bur[k][j])'
    BY <1>1 DEF Referenced
  <1>3. Streamed(bur[k][j])'
    BY <1>1 DEF Streamed, Streams, NextStreams
  <1>4. Settled(bur[k][j], j)'
    BY <1>1 DEF Settled
  <1>5. Clear(bur[k][j])'
    BY <1>1 DEF Clear, Least
  <1>6. o.st = "ready" /\ j # "A" => Awaited(k, bur[k][j])' /\ bur'[k][j].arow = 0
    BY <1>1 DEF Awaited
  <1>7. /\ o.st # "off" /\ j = "R" => FromA(k, bur[k][j])'
        /\ o.st # "off" /\ j = "L" =>
             FromA(k, bur[k][j])' \/ (FromR(k, bur[k][j])' /\ bur'[k].R.st # "off")
    BY DEF FromA, FromR
  <1> QED BY <1>2, <1>3, <1>4, <1>5, <1>6, <1>7 DEF Reads

\* A row analysed: the rows it reads are published, so they are final.
LEMMA ReadsAnalyze ==
  ASSUME cfg \in Shapes, Course, Stages, Marks, Jobs, NEW k \in Ring, NEW j \in Kinds,
         Analyze(k, j)
  PROVE  Reads(k, j)'
  <1>0. /\ Bursts /\ IsBurst(bur[k]) /\ IsJob(bur[k][j]) /\ Rows \in Nat /\ Lag \in Nat
        /\ cfg' = cfg /\ fin' = fin
    BY ShapeFacts DEF Course, Bursts, IsBurst, Kinds, Analyze
  <1>1. /\ Alone(k) /\ Kept(bur'[k], bur[k]) /\ AloneJob(k, j)
        /\ bur[k][j].st = "run" /\ bur[k][j].arow < Rows
        /\ bur'[k][j].st = "run" /\ bur'[k][j].arow = bur[k][j].arow + 1
        /\ SameWork(bur'[k][j], bur[k][j])
    BY <1>0, AnalyzeWrites
  <1>2. PICK q : q = bur[k][j]
    OBVIOUS
  <1>3. PICK o : o = bur'[k][j]
    OBVIOUS
  <1>4. /\ q.st = "run" /\ o.st = "run" /\ o.arow = q.arow + 1 /\ o.arow - 1 = q.arow
        /\ o.refs = q.refs /\ o.gates = q.gates /\ q.arow \in Nat /\ q.arow < Rows
        /\ bur'[k].n = bur[k].n /\ (bur[k].R.st # "off" => bur'[k].R.st # "off")
    <2>1. j # "R" => bur'[k].R = bur[k].R
      BY <1>1 DEF AloneJob, Kinds
    <2> QED BY <1>0, <1>1, <1>2, <1>3, <2>1 DEF Kept, Fixed, SameWork, IsJob
  <1>5. /\ \A r \in q.refs : r.pic \in RefPics /\ (r.part => Streams(r, q))
        /\ \A r \in q.refs : ~r.part => fin[r.pic] = Rows
        /\ \A g \in q.gates : g[1] \in Ring
        /\ j = "R" => FromA(k, q)
        /\ j = "L" => FromA(k, q) \/ (FromR(k, q) /\ bur[k].R.st # "off")
    <2>1. Reads(k, j)
      BY DEF Jobs
    <2> QED BY <1>0, <1>2, <1>4, <2>1 DEF Reads, Referenced, Streamed, Settled, IsJob
  <1>6. \A r \in o.refs : r.part => NextStreams(r, o)
    <2>1. Grows /\ GatesKeep
      <3>1. [Next]_vars
        BY DEF Next
      <3> QED BY <3>1, FinGrows, GatesKept
    <2>2. \A r \in q.refs : r.part => NextStreams(r, q)
      BY <1>0, <1>5, <2>1, StreamsStay
    <2> QED BY <1>4, <2>2 DEF NextStreams
  <1>7. ASSUME NEW r \in q.refs, r.part PROVE fin[r.pic] >= Least(q.arow + Lag, Rows)
    <2>1. Least(q.arow + Lag, Rows) \in Int /\ Least(q.arow + Lag, Rows) <= Rows
      BY <1>0, <1>4 DEF Least
    <2>2. CASE fin[r.pic] = Rows
      BY <1>0, <2>1, <2>2
    <2>3. ASSUME NEW g \in q.gates, r.pic = <<bur[g[1]].n, g[2]>>, bur[g[1]].n > 0,
                 g[2] = "R" => bur[g[1]].R.st # "off"
          PROVE  fin[r.pic] >= Least(q.arow + Lag, Rows)
      <3>1. RowReady(k, j)
        BY DEF Analyze
      <3>2. Pub(g) >= Least(q.arow + Lag, Rows)
        BY <1>2, <3>1 DEF RowReady, Job
      <3>3. Marked(g[1]) /\ g[2] \in {"A", "R"}
        BY <1>5, <2>3, RefInPics DEF Marks
      <3>4. fin[r.pic] = Pub(g)
        BY <2>3, <3>3 DEF Marked, Pub
      <3> QED BY <3>2, <3>4
    <2> QED BY <1>5, <1>7, <2>2, <2>3 DEF Streams
  <1>8. \A r \in o.refs : r.part => fin'[r.pic] >= Least((o.arow - 1) + Lag, Rows)
    BY <1>0, <1>4, <1>7
  <1>9. /\ j = "R" => \E r \in o.refs : r.part /\ r.pic = <<bur'[k].n, "A">>
        /\ j = "L" => \/ \E r \in o.refs : r.part /\ r.pic = <<bur'[k].n, "A">>
                      \/ /\ \E r \in o.refs : r.part /\ r.pic = <<bur'[k].n, "R">>
                         /\ bur'[k].R.st # "off"
    BY <1>4, <1>5 DEF FromA, FromR
  <1>10. (\A r \in o.refs : r.pic \in RefPics) /\ (\A r \in o.refs : ~r.part => fin'[r.pic] = Rows)
    BY <1>0, <1>4, <1>5
  <1> QED BY <1>0, <1>3, <1>4, <1>6, <1>8, <1>9, <1>10, NewReads

\* A picture emitted.
LEMMA ReadsEmit ==
  ASSUME cfg \in Shapes, Course, Stages, Marks, Jobs, NEW k \in Ring, NEW j \in Kinds,
         Emit(k, j) \/ (j = "L" /\ LeafDone(k))
  PROVE  Reads(k, j)'
  <1>0. /\ Bursts /\ IsBurst(bur[k]) /\ IsJob(bur[k][j]) /\ Rows \in Nat /\ Lag \in Nat
        /\ cfg' = cfg /\ fin' = fin
    BY ShapeFacts DEF Course, Bursts, IsBurst, Kinds, Emit, LeafDone
  <1>2. PICK q : q = bur[k][j]
    OBVIOUS
  <1>3. PICK o : o = bur'[k][j]
    OBVIOUS
  <1>4. /\ q.st = "run" /\ o.st = "done" /\ o.arow = q.arow
        /\ o.refs = q.refs /\ bur'[k].n = bur[k].n
        /\ (bur[k].R.st # "off" => bur'[k].R.st # "off")
    <2>1. CASE Emit(k, j)
      <3>1. /\ Kept(bur'[k], bur[k]) /\ AloneJob(k, j)
            /\ bur[k][j].st = "run" /\ bur[k][j].arow = Rows
            /\ bur'[k][j].st = "done" /\ bur'[k][j].arow = Rows
            /\ SameWork(bur'[k][j], bur[k][j])
        BY <1>0, <2>1, EmitWrites
      <3>2. j # "R" => bur'[k].R = bur[k].R
        BY <3>1 DEF AloneJob, Kinds
      <3> QED BY <1>2, <1>3, <3>1, <3>2 DEF Kept, Fixed, SameWork
    <2>2. CASE j = "L" /\ LeafDone(k)
      <3>1. /\ Fixed(bur'[k], bur[k]) /\ bur[k].pc = "leaf"
            /\ bur'[k].R = bur[k].R /\ Becomes(bur'[k].L, bur[k].L, "done")
        BY <1>0, <2>2, LeafDoneWrites
      <3>2. bur[k].L.st = "run"
        BY <3>1 DEF Stages, InStage, Phase
      <3> QED BY <1>2, <1>3, <2>2, <3>1, <3>2 DEF Fixed, SameWork, Becomes
    <2> QED BY <2>1, <2>2
  <1>5. /\ \A r \in q.refs : r.pic \in RefPics
        /\ q.arow > 0 => \A r \in q.refs : r.part => fin[r.pic] >= Least((q.arow - 1) + Lag, Rows)
        /\ j = "R" => FromA(k, q)
        /\ j = "L" => FromA(k, q) \/ (FromR(k, q) /\ bur[k].R.st # "off")
    <2>1. Reads(k, j)
      BY DEF Jobs
    <2> QED BY <1>0, <1>2, <1>4, <2>1 DEF Reads, Referenced, Clear
  <1>6. /\ j = "R" => \E r \in o.refs : r.part /\ r.pic = <<bur'[k].n, "A">>
        /\ j = "L" => \/ \E r \in o.refs : r.part /\ r.pic = <<bur'[k].n, "A">>
                      \/ /\ \E r \in o.refs : r.part /\ r.pic = <<bur'[k].n, "R">>
                         /\ bur'[k].R.st # "off"
    BY <1>4, <1>5 DEF FromA, FromR
  <1>7. /\ \A r \in o.refs : r.pic \in RefPics
        /\ o.arow > 0 => \A r \in o.refs : r.part => fin'[r.pic] >= Least((o.arow - 1) + Lag, Rows)
    BY <1>0, <1>4, <1>5
  <1> QED BY <1>0, <1>3, <1>4, <1>6, <1>7, NewReads

\* The reference B, prepped.
LEMMA ReadsPrepR ==
  ASSUME Typing, Course, Stages, Window, Marks, History, NEW k \in Ring, PrepR(k)
  PROVE  Reads(k, "R")'
  <1>0. /\ cfg \in Shapes /\ Bursts /\ Order /\ Rows \in Nat
        /\ cfg' = cfg /\ fin' = fin
    BY ShapeFacts DEF Typing, Course, PrepR
  <1>1. /\ k = cur /\ fly = cur /\ bur[k].live /\ ~Unarmed(k)
        /\ bur[k].n = Last /\ Last \in 1 .. Len(cfg.script) /\ Last \in Nat
        /\ cfg.script[Last] # Idr /\ bur[k].nb = cfg.script[Last] /\ bur[k].nb \in 1 .. 3
        /\ apc \in {"ready", "failing"}
    BY <1>0, PrepsNewest
  <1>2. /\ bur[k].pc = "prep" /\ Fixed(bur'[k], bur[k]) /\ bur'[k].R.st = "ready"
        /\ bur'[k].R.arow = 0
        /\ bur'[k].R.refs = BRefs(k, RPoc(k)) /\ bur'[k].R.gates = BGates(k, RPoc(k))
    BY <1>0, PrepRWrites
  <1>3. bur[k].nb > 1 /\ PrevPublished(k)
    BY <1>1 DEF PrepR, HasR, HasRef
  <1>4. PICK m \in 1 .. Len(cfg.script) : m = Last
    BY <1>1
  <1>5. PICK q \in 4 * m - 3 .. 4 * m - 1 : q = RPoc(k)
    BY <1>1, <1>3, <1>4, PocRanges
  <1>6. PICK o : o = bur'[k]["R"]
    OBVIOUS
  <1>7. /\ o.st = "ready" /\ o.arow = 0 /\ o.refs = BRefs(k, q) /\ o.gates = BGates(k, q)
        /\ bur'[k].n = m /\ bur[k].n = m
    BY <1>1, <1>2, <1>4, <1>5, <1>6 DEF Fixed
  <1>8. /\ \A r \in BRefs(k, q) :
              /\ r.pic \in RefPics
              /\ r.part => \E g \in BGates(k, q) : /\ g[1] = k /\ g[2] \in {"A", "R"}
                                                   /\ r.pic = <<m, g[2]>>
        /\ \E r \in BRefs(k, q) : r.part /\ r.pic \in {<<m, "A">>, <<m, "R">>}
    BY <1>1, <1>4, <1>7, BurstRefs
  <1>9. \A r \in BRefs(k, q) : ~r.part =>
             fin[r.pic] = Rows \/ (Deep /\ r.pic = <<m - 1, "R">>)
    <2>1. Behind(k)
      BY DEF History
    <2> QED BY <1>1, <1>3, <1>4, <1>7, <2>1, BurstAwaits
  <1>10. \A r \in o.refs : r.part => NextStreams(r, o)
    <2> SUFFICES ASSUME NEW r \in BRefs(k, q), r.part PROVE NextStreams(r, o)
      BY <1>7
    <2>1. PICK g \in BGates(k, q) : g[1] = k /\ g[2] \in {"A", "R"} /\ r.pic = <<m, g[2]>>
      BY <1>8
    <2>2. bur'[g[1]].n = m /\ bur'[g[1]].R.st # "off" /\ m > 0
      BY <1>2, <1>7, <2>1
    <2> QED BY <1>7, <2>1, <2>2 DEF NextStreams
  <1>11. \E r \in o.refs : r.part /\ r.pic = <<bur'[k].n, "A">>
    <2>1. PICK r \in BRefs(k, q) : r.part /\ r.pic \in {<<m, "A">>, <<m, "R">>}
      BY <1>8
    <2>2. Newest = <<m, "A">>
      BY <1>0, <1>1, <1>2, <1>4, FlyIs DEF Newest, Ring, None
    <2>3. PICK s \in List0B(q) \cup {Future(q)} : r.pic = dpb[s].pic
      BY BRefIs
    <2>4. BView(m, q)
      BY <1>1, <1>4, <1>7, BurstRefs
    <2>5. s \in Used
      BY <2>3, <2>4, ListIs, FutureIs
    <2>6. r.pic \in Earlier(<<m, "A">>) \cup {<<m, "A">>}
      BY <2>2, <2>3, <2>5, UsedPics
    <2>7. r.pic # <<m, "R">>
      BY <1>4, <2>6 DEF Earlier, Precedes
    <2> QED BY <1>7, <2>1, <2>7
  <1>12. \A r \in o.refs : ~r.part =>
             fin'[r.pic] = Rows \/ (Deep /\ r.pic = <<bur'[k].n - 1, "R">>)
    BY <1>0, <1>7, <1>9
  <1>13. \A r \in o.refs : r.pic \in RefPics
    BY <1>7, <1>8
  <1> QED BY <1>0, <1>6, <1>7, <1>10, <1>11, <1>12, <1>13, NewReads

\* The leaves, prepped.
LEMMA ReadsPrepL ==
  ASSUME Typing, Course, Stages, Window, Marks, History, NEW k \in Ring, PrepL(k)
  PROVE  Reads(k, "L")'
  <1>0. /\ cfg \in Shapes /\ Bursts /\ Order /\ Rows \in Nat
        /\ cfg' = cfg /\ fin' = fin
    BY ShapeFacts, Zenon DEF Typing, Course, PrepL
  <1>1. /\ k = cur /\ fly = cur /\ bur[k].live /\ ~Unarmed(k)
        /\ bur[k].n = Last /\ Last \in 1 .. Len(cfg.script) /\ Last \in Nat
        /\ cfg.script[Last] # Idr /\ bur[k].nb = cfg.script[Last] /\ bur[k].nb \in 1 .. 3
        /\ apc \in {"ready", "failing"}
    BY <1>0, PrepsNewest
  <1>2. /\ bur[k].pc = (IF bur[k].nb > 1 THEN "prepL" ELSE "prep") /\ Fixed(bur'[k], bur[k])
        /\ bur[k].nb > 1 \/ PrevPublished(k)
        /\ bur'[k].R = bur[k].R /\ bur'[k].L.st = "ready"
        /\ bur'[k].L.arow = 0
        /\ bur'[k].L.refs = LRefs(k) /\ bur'[k].L.gates = LGates(k)
    BY <1>0, PrepLWrites
  <1>4. PICK m \in 1 .. Len(cfg.script) : m = Last
    BY <1>1
  <1>5. PICK Q : Q = LeafPocs(bur[k].n, bur[k].nb)
    OBVIOUS
  <1>6. /\ Q \subseteq 4 * m - 3 .. 4 * m - 1 /\ Q # {}
        /\ LRefs(k) = UNION {BRefs(k, q) : q \in Q} /\ LGates(k) = UNION {BGates(k, q) : q \in Q}
    BY <1>1, <1>4, <1>5, PocRanges DEF LRefs, LGates
  <1>7. PICK o : o = bur'[k]["L"]
    OBVIOUS
  <1>8. /\ o.st = "ready" /\ o.arow = 0 /\ o.refs = LRefs(k) /\ o.gates = LGates(k)
        /\ bur'[k].n = m /\ bur[k].n = m
    BY <1>1, <1>2, <1>4, <1>7 DEF Fixed
  <1>9. ASSUME NEW q \in Q
        PROVE  /\ q \in 4 * m - 3 .. 4 * m - 1 /\ BView(m, q)
               /\ \A r \in BRefs(k, q) :
                    /\ r.pic \in RefPics
                    /\ r.part => \E g \in BGates(k, q) : /\ g[1] = k /\ g[2] \in {"A", "R"}
                                                         /\ r.pic = <<m, g[2]>>
                    /\ ~r.part => fin[r.pic] = Rows \/ (Deep /\ r.pic = <<m - 1, "R">>)
               /\ \E r \in BRefs(k, q) : r.part /\ r.pic \in {<<m, "A">>, <<m, "R">>}
    <2>1. q \in 4 * m - 3 .. 4 * m - 1
      BY <1>6
    <2>2. /\ BView(m, q)
          /\ \A r \in BRefs(k, q) :
                /\ r.pic \in RefPics
                /\ r.part => \E g \in BGates(k, q) : /\ g[1] = k /\ g[2] \in {"A", "R"}
                                                     /\ r.pic = <<m, g[2]>>
          /\ \E r \in BRefs(k, q) : r.part /\ r.pic \in {<<m, "A">>, <<m, "R">>}
      BY <1>1, <1>4, <1>8, <2>1, BurstRefs
    <2>3. Behind(k) /\ (PrevPublished(k) \/ bur[k].pc # "prep")
      BY <1>2 DEF History
    <2>4. \A r \in BRefs(k, q) : ~r.part =>
               fin[r.pic] = Rows \/ (Deep /\ r.pic = <<m - 1, "R">>)
      BY <1>1, <1>4, <1>8, <2>1, <2>3, BurstAwaits
    <2> QED BY <2>1, <2>2, <2>4
  <1>10. ASSUME NEW q \in Q, NEW r \in BRefs(k, q), r.pic = <<m, "R">>
         PROVE  bur'[k].R.st # "off"
    <2>1. PICK s \in List0B(q) \cup {Future(q)} : r.pic = dpb[s].pic
      BY <1>10, BRefIs
    <2>2. s \in Used
      BY <1>9, <2>1, ListIs, FutureIs
    <2>3. r.pic \in Earlier(Newest) \cup {Newest}
      BY <2>1, <2>2, UsedPics
    <2>4. Newest # <<m, "A">>
      BY <1>4, <1>10, <2>3 DEF Earlier, Precedes
    <2>5. bur[k].nb > 1
      BY <1>1, <1>4, <2>4 DEF Newest
    <2> QED BY <1>2, <2>5 DEF Stages, InStage, Phase
  <1>11. \A r \in o.refs : r.part => NextStreams(r, o)
    <2> SUFFICES ASSUME NEW q \in Q, NEW r \in BRefs(k, q), r.part PROVE NextStreams(r, o)
      BY <1>6, <1>8
    <2>1. PICK g \in BGates(k, q) : g[1] = k /\ g[2] \in {"A", "R"} /\ r.pic = <<m, g[2]>>
      BY <1>9
    <2>2. bur'[g[1]].n = m /\ m > 0 /\ (g[2] = "R" => bur'[g[1]].R.st # "off")
      BY <1>8, <1>10, <2>1
    <2>3. g \in o.gates
      BY <1>6, <1>8
    <2> QED BY <2>1, <2>2, <2>3 DEF NextStreams
  <1>12. \/ \E r \in o.refs : r.part /\ r.pic = <<bur'[k].n, "A">>
         \/ /\ \E r \in o.refs : r.part /\ r.pic = <<bur'[k].n, "R">>
            /\ bur'[k].R.st # "off"
    <2>1. PICK q \in Q : TRUE
      BY <1>6
    <2>2. PICK r \in BRefs(k, q) : r.part /\ r.pic \in {<<m, "A">>, <<m, "R">>}
      BY <1>9
    <2>3. r \in o.refs
      BY <1>6, <1>8
    <2> QED BY <1>8, <1>10, <2>2, <2>3
  <1>13. \A r \in o.refs : /\ r.pic \in RefPics
                           /\ ~r.part => \/ fin'[r.pic] = Rows
                                         \/ Deep /\ r.pic = <<bur'[k].n - 1, "R">>
    <2> SUFFICES ASSUME NEW q \in Q, NEW r \in BRefs(k, q)
                 PROVE  /\ r.pic \in RefPics
                        /\ ~r.part => \/ fin'[r.pic] = Rows
                                      \/ Deep /\ r.pic = <<bur'[k].n - 1, "R">>
      BY <1>6, <1>8
    <2> QED BY <1>0, <1>8, <1>9
  <1> QED BY <1>0, <1>7, <1>8, <1>11, <1>12, <1>13, NewReads

\* Past the reference B the chain has waited for, all that is read whole is final.
LEMMA ReadsEncode ==
  ASSUME cfg \in Shapes, Course, Stages, Marks, History, Jobs, NEW k \in Ring, Encode(k),
         NEW j \in {"R", "L"}, j = "R" => bur[k].nb > 1
  PROVE  Reads(k, j)'
  <1>0. /\ Bursts /\ Order /\ IsBurst(bur[k]) /\ IsJob(bur[k][j]) /\ Rows \in Nat
        /\ cfg' = cfg /\ fin' = fin /\ j \in Kinds
    BY ShapeFacts DEF Course, Bursts, IsBurst, Kinds, Encode
  <1>1. /\ Fixed(bur'[k], bur[k]) /\ bur[k].pc = "rbgate" /\ RbGateOpen(k)
        /\ Becomes(bur'[k].R, bur[k].R, IF bur[k].nb > 1 THEN "run" ELSE bur[k].R.st)
        /\ Becomes(bur'[k].L, bur[k].L, "run")
    BY <1>0, EncodeWrites
  <1>2. PICK q : q = bur[k][j]
    OBVIOUS
  <1>3. PICK o : o = bur'[k][j]
    OBVIOUS
  <1>4. /\ q.st = "ready" /\ o.st = "run" /\ o.arow = q.arow /\ o.refs = q.refs
        /\ o.gates = q.gates /\ bur'[k].n = bur[k].n
        /\ (bur[k].R.st # "off" => bur'[k].R.st # "off")
    <2>1. Phase(bur[k])
      BY DEF Stages, InStage
    <2>2. bur[k].L.st = "ready" /\ bur[k].R.st = (IF bur[k].nb > 1 THEN "ready" ELSE "off")
      BY <1>1, <2>1 DEF Phase
    <2> QED BY <1>1, <1>2, <1>3, <2>2 DEF Becomes, SameWork, Fixed
  <1>5. /\ \A r \in q.refs : r.pic \in RefPics /\ (r.part => Streams(r, q))
        /\ q.arow = 0
        /\ \A r \in q.refs : ~r.part =>
              fin[r.pic] = Rows \/ (Deep /\ r.pic = <<bur[k].n - 1, "R">>)
        /\ \A g \in q.gates : g[1] \in Ring
        /\ j = "R" => FromA(k, q)
        /\ j = "L" => FromA(k, q) \/ (FromR(k, q) /\ bur[k].R.st # "off")
    <2>1. Reads(k, j)
      BY <1>0 DEF Jobs
    <2> QED BY <1>0, <1>2, <1>4, <2>1 DEF Reads, Referenced, Streamed, Awaited, IsJob
  <1>6. \A r \in o.refs : r.part => NextStreams(r, o)
    <2>1. Grows /\ GatesKeep
      <3>1. [Next]_vars
        BY DEF Next
      <3> QED BY <3>1, FinGrows, GatesKept
    <2>2. \A r \in q.refs : r.part => NextStreams(r, q)
      BY <1>0, <1>5, <2>1, StreamsStay
    <2> QED BY <1>4, <2>2 DEF NextStreams
  <1>7. ASSUME NEW r \in q.refs, ~r.part PROVE fin[r.pic] = Rows
    <2> SUFFICES ASSUME Deep, r.pic = <<bur[k].n - 1, "R">> PROVE fin[r.pic] = Rows
      BY <1>5, <1>7
    <2>1. PICK c : c = bur[k].n - 1
      OBVIOUS
    <2>2. r.pic = <<c, "R">> /\ HasRefB(c)
      BY <1>5, <2>1, RefInPics
    <2>3. bur[k].live
      BY <1>0, <1>1 DEF Order, InRing
    <2>4. RFin(c) \/ GateOn(k, c)
      BY <1>1, <2>1, <2>3 DEF History, Behind
    <2>5. CASE RFin(c)
      BY <2>2, <2>5 DEF RFin
    <2>6. CASE GateOn(k, c)
      <3>1. PICK F \in Ring : F = bur[k].rbgate
        BY <2>6 DEF GateOn
      <3>2. bur[F].n = c /\ bur[k].rbseq = c /\ bur[F].nb = cfg.script[c] /\ F # None
        BY <2>6, <3>1, ShapeFacts DEF GateOn, Ring, None
      <3>3. bur[F].nb > 1 /\ c > 0
        BY <2>2, <3>2 DEF HasRefB
      <3>4. bur[F].refb_done >= 1
        BY <1>1, <3>1, <3>2, <3>3 DEF RbGateOpen, HasRef
      <3>5. bur[F].refb_done > 0
        BY <1>0, <3>4 DEF Bursts, IsBurst
      <3>6. Marked(F)
        BY DEF Marks
      <3> QED BY <2>2, <3>2, <3>3, <3>5, <3>6 DEF Marked
    <2> QED BY <2>4, <2>5, <2>6
  <1>8. /\ j = "R" => \E r \in o.refs : r.part /\ r.pic = <<bur'[k].n, "A">>
        /\ j = "L" => \/ \E r \in o.refs : r.part /\ r.pic = <<bur'[k].n, "A">>
                      \/ /\ \E r \in o.refs : r.part /\ r.pic = <<bur'[k].n, "R">>
                         /\ bur'[k].R.st # "off"
    BY <1>4, <1>5 DEF FromA, FromR
  <1>9. (\A r \in o.refs : r.pic \in RefPics) /\ (\A r \in o.refs : ~r.part => fin'[r.pic] = Rows)
        /\ o.arow = 0
    BY <1>0, <1>4, <1>5, <1>7
  <1> QED BY <1>0, <1>3, <1>4, <1>6, <1>8, <1>9, NewReads

LEMMA JobsThreads ==
  ASSUME Typing, Course, Stages, Window, Marks, History, Jobs, NEW k \in Ring,
         \/ PrepR(k) \/ PrepL(k) \/ Encode(k) \/ LeafDone(k) \/ Join(k)
         \/ \E j \in Kinds : Analyze(k, j) \/ Trail(k, j) \/ Emit(k, j)
  PROVE  Jobs'
  <1>0. /\ cfg \in Shapes /\ Bursts /\ Order /\ Rows \in Nat /\ cfg' = cfg
        /\ Alone(k) /\ bur'[k].n = bur[k].n
        /\ (bur[k].R.st # "off" => bur'[k].R.st # "off")
    BY ShapeFacts, ThreadSteps, ThreadsKeepR DEF Typing, Course, Fixed
  <1>1. [Next]_vars
    BY DEF Next
  <1>2. ASSUME NEW m \in Ring, NEW i \in Kinds, m # k PROVE Reads(m, i)'
    <2>1. bur'[m] = bur[m]
      BY <1>0, <1>2 DEF Alone
    <2> QED BY <1>0, <1>1, <2>1, JobStays
  <1>3. ASSUME NEW i \in Kinds, bur'[k][i].st = bur[k][i].st, bur'[k][i].arow = bur[k][i].arow,
               SameWork(bur'[k][i], bur[k][i])
        PROVE  Reads(k, i)'
    BY <1>0, <1>1, <1>3, JobStays DEF SameWork
  <1>4. ASSUME NEW i \in Kinds, bur'[k][i] = bur[k][i] PROVE Reads(k, i)'
    BY <1>3, <1>4 DEF SameWork
  <1>5. \A i \in Kinds : Reads(k, i)'
    <2>1. CASE PrepR(k)
      <3>1. bur'[k].A = bur[k].A /\ bur'[k].L = bur[k].L
        BY <1>0, <2>1, PrepRWrites
      <3>2. Reads(k, "R")'
        BY <2>1, ReadsPrepR
      <3> QED BY <1>4, <3>1, <3>2 DEF Kinds
    <2>2. CASE PrepL(k)
      <3>1. bur'[k].A = bur[k].A /\ bur'[k].R = bur[k].R
        BY <1>0, <2>2, PrepLWrites
      <3>2. Reads(k, "L")'
        BY <2>2, ReadsPrepL
      <3> QED BY <1>4, <3>1, <3>2 DEF Kinds
    <2>3. CASE Encode(k)
      <3>1. /\ bur'[k].A = bur[k].A
            /\ Becomes(bur'[k].R, bur[k].R, IF bur[k].nb > 1 THEN "run" ELSE bur[k].R.st)
        BY <1>0, <2>3, EncodeWrites
      <3>2. Reads(k, "L")'
        BY <1>0, <2>3, ReadsEncode
      <3>3. Reads(k, "R")'
        <4>1. CASE bur[k].nb > 1
          BY <1>0, <2>3, <4>1, ReadsEncode
        <4>2. CASE ~(bur[k].nb > 1)
          BY <1>3, <3>1, <4>2 DEF Becomes, Kinds
        <4> QED BY <4>1, <4>2
      <3> QED BY <1>4, <3>1, <3>2, <3>3 DEF Kinds
    <2>4. CASE LeafDone(k)
      <3>1. bur'[k].A = bur[k].A /\ bur'[k].R = bur[k].R
        BY <1>0, <2>4, LeafDoneWrites
      <3>2. Reads(k, "L")'
        BY <1>0, <2>4, ReadsEmit DEF Kinds
      <3> QED BY <1>4, <3>1, <3>2 DEF Kinds
    <2>5. CASE Join(k)
      <3>1. /\ bur'[k].A = bur[k].A /\ bur'[k].L = bur[k].L
            /\ bur'[k].R.st = bur[k].R.st /\ bur'[k].R.arow = bur[k].R.arow
            /\ SameWork(bur'[k].R, bur[k].R)
        BY <1>0, <2>5, JoinWrites
      <3> QED BY <1>3, <1>4, <3>1 DEF Kinds
    <2>6. ASSUME NEW j \in Kinds, Analyze(k, j) PROVE \A i \in Kinds : Reads(k, i)'
      <3>1. AloneJob(k, j)
        BY <1>0, <2>6, AnalyzeWrites
      <3>2. Reads(k, j)'
        BY <1>0, <2>6, ReadsAnalyze
      <3> QED BY <1>4, <3>1, <3>2 DEF AloneJob
    <2>7. ASSUME NEW j \in Kinds, Trail(k, j) PROVE \A i \in Kinds : Reads(k, i)'
      <3>1. /\ AloneJob(k, j) /\ bur[k][j].st = "run" /\ bur'[k][j].st = "run"
            /\ bur'[k][j].arow = bur[k][j].arow /\ SameWork(bur'[k][j], bur[k][j])
        BY <1>0, <2>7, TrailKeeps
      <3> QED BY <1>3, <1>4, <3>1 DEF AloneJob
    <2>8. ASSUME NEW j \in Kinds, Emit(k, j) PROVE \A i \in Kinds : Reads(k, i)'
      <3>1. AloneJob(k, j)
        BY <1>0, <2>8, EmitWrites
      <3>2. Reads(k, j)'
        BY <1>0, <2>8, ReadsEmit
      <3> QED BY <1>4, <3>1, <3>2 DEF AloneJob
    <2> QED BY <2>1, <2>2, <2>3, <2>4, <2>5, <2>6, <2>7, <2>8
  <1> QED BY <1>2, <1>5 DEF Jobs

LEMMA JobsRest ==
  ASSUME Typing, Course, Stages, Marks, Jobs,
         Drain \/ CodeSerial \/ Close \/ Closed \/ UNCHANGED vars
  PROVE  Jobs'
  <1>0. /\ cfg \in Shapes /\ Bursts /\ Order /\ cfg' = cfg
    BY DEF Typing, Course, Drain, CodeSerial, Close, Closed, vars
  <1>1. [Next]_vars
    BY DEF Next
  <1>2. \A m \in Ring : /\ bur'[m].n = bur[m].n
                        /\ bur'[m].A = bur[m].A /\ bur'[m].R = bur[m].R /\ bur'[m].L = bur[m].L
    <2>1. CASE Drain
      <3>1. Oldest \in Ring
        BY <1>0, <2>1, DrainsOldest DEF Course
      <3> QED BY <1>0, <2>1, <3>1, DrainWrites, Zenon
    <2>2. CASE CodeSerial \/ Close \/ Closed \/ UNCHANGED vars
      BY <2>2, Zenon DEF CodeSerial, Close, Closed, vars
    <2> QED BY <2>1, <2>2
  <1>3. ASSUME NEW m \in Ring, NEW i \in Kinds PROVE Reads(m, i)'
    <2>1. bur'[m][i] = bur[m][i]
      BY <1>2 DEF Kinds
    <2> QED BY <1>0, <1>1, <1>2, <2>1, JobStays
  <1> QED BY <1>3 DEF Jobs

\* A launched anchor reads what its prep left it.
LEMMA JobsBegin ==
  ASSUME Typing, Course, Stages, Marks, Jobs, Begin PROVE Jobs'
  <1>0. /\ cfg \in Shapes /\ Bursts /\ Order /\ cfg' = cfg /\ Rows \in Nat /\ fin' = fin
        /\ n \in Nat /\ apc = "begin"
    BY ShapeFacts DEF Typing, Course, Begin, Order, Turn
  <1>1. [Next]_vars
    BY DEF Next
  <1>2. PICK k \in Ring : k = Next_slot
    BY <1>0, NextIsDead
  <1>3. /\ Alone(k) /\ bur'[k].n = n
        /\ bur'[k].A.st = "run" /\ bur'[k].A.arow = 0
        /\ bur'[k].A.refs = bur[k].A.refs /\ bur'[k].A.gates = bur[k].A.gates
        /\ bur'[k].R = bur[k].R /\ bur'[k].L = bur[k].L
    BY <1>0, <1>2, BeginWrites, Zenon
  <1>4. bur[k].A.st = "ready" /\ bur[k].R.st = "off" /\ bur[k].L.st = "off"
    BY <1>0, <1>2 DEF Stages, InStage
  <1>5. ASSUME NEW m \in Ring, NEW i \in Kinds, m # k PROVE Reads(m, i)'
    <2>1. bur'[m] = bur[m]
      BY <1>3, <1>5 DEF Alone
    <2> QED BY <1>0, <1>1, <2>1, JobStays
  <1>6. ASSUME NEW i \in {"R", "L"} PROVE Reads(k, i)'
    <2>1. PICK o : o = bur'[k][i]
      OBVIOUS
    <2>2. o = bur[k][i] /\ o.st = "off"
      BY <1>3, <1>4, <2>1
    <2>3. \A r \in o.refs : r.pic \in RefPics
      <3>1. Reads(k, i)
        BY DEF Jobs, Kinds
      <3> QED BY <2>2, <3>1 DEF Reads, Referenced
    <2> QED BY <1>0, <2>1, <2>2, <2>3, NewReads
  <1>7. Reads(k, "A")'
    <2>1. PICK q : q = bur[k]["A"]
      OBVIOUS
    <2>2. PICK o : o = bur'[k]["A"]
      OBVIOUS
    <2>3. q.st = "ready" /\ o.st = "run" /\ o.arow = 0 /\ o.refs = q.refs /\ o.gates = q.gates
      BY <1>3, <1>4, <2>1, <2>2
    <2>4. /\ \A r \in q.refs : r.pic \in RefPics /\ (r.part => Streams(r, q))
          /\ \A r \in q.refs : ~r.part => fin[r.pic] = Rows
          /\ \A g \in q.gates : g[1] \in Ring
      <3>1. Reads(k, "A") /\ IsJob(q)
        BY <1>0, <2>1 DEF Jobs, Kinds, Bursts, IsBurst
      <3> QED BY <2>1, <2>3, <3>1 DEF Reads, Referenced, Streamed, Settled, IsJob
    <2>5. \A r \in o.refs : r.part => NextStreams(r, o)
      <3>1. Grows /\ GatesKeep
        BY <1>0, <1>1, FinGrows, GatesKept
      <3>2. \A r \in q.refs : r.part => NextStreams(r, q)
        BY <1>0, <2>4, <3>1, StreamsStay
      <3> QED BY <2>3, <3>2 DEF NextStreams
    <2>6. (\A r \in o.refs : r.pic \in RefPics) /\ (\A r \in o.refs : ~r.part => fin'[r.pic] = Rows)
      BY <1>0, <2>3, <2>4
    <2> QED BY <1>0, <2>2, <2>3, <2>5, <2>6, NewReads
  <1> QED BY <1>5, <1>6, <1>7 DEF Jobs, Kinds

\* The slots of an anchor's list 0; a list of one holds the previous anchor.
LEMMA AnchorList ==
  ASSUME Typing, Course, Window, apc = "ready", NEW s \in List0P
  PROVE  /\ s \in Used /\ dpb[s].pic \in RefPics /\ dpb[s].pic[1] <= Last
         /\ cfg.nref = 1 => dpb[s].pic = <<Last, "A">>
  <1>1. Last = n - 1
    BY DEF Last
  <1>2. AnchorSlot \in Used /\ dpb[AnchorSlot].pic = <<Last, "A">>
    <2>1. \E t \in Used : dpb[t].pic = <<Last, "A">>
      BY HeldAnchors
    <2> QED BY <1>1, <2>1 DEF AnchorSlot
  <1> DEFINE S == Used \ {AnchorSlot}
             Above(t) == {u \in S : dpb[u].fn > dpb[t].fn}
  <1>3. s = AnchorSlot \/ (s \in S /\ Cardinality(Above(s)) < cfg.nref - 1)
    BY DEF List0P, Top
  <1>4. cfg.nref = 1 => s = AnchorSlot
    <2>1. IsFiniteSet(Used) /\ Above(s) \subseteq Used
      BY UsedPics
    <2>2. ~(Cardinality(Above(s)) < 0)
      <3> HIDE DEF Above
      <3> QED BY <2>1, FewSlots
    <2> QED BY <1>3, <2>2
  <1>5. s \in Used
    BY <1>2, <1>3
  <1> QED BY <1>2, <1>4, <1>5, UsedPics, HeldAnchors

\* What the next anchor refers to is final, or its rows are gated.
LEMMA ReadsPrep ==
  ASSUME Typing, Course, Stages, Window, Marks, History, Colocated, Prep
  PROVE  Reads(Next_slot, "A")'
  <1>0. /\ cfg \in Shapes /\ Bursts /\ Order /\ cfg' = cfg /\ fin' = fin /\ Rows \in Nat
        /\ cfg.nref \in Nat /\ cfg.nref > 0 /\ Len(cfg.script) \in Nat
        /\ cur \in Ring /\ nlive \in Nat /\ (fly # None => fly \in Ring)
        /\ n \in 1 .. Len(cfg.script) + 1
    <2>1. cfg \in Shapes /\ Bursts /\ Order /\ cfg' = cfg /\ fin' = fin
      BY PrepFrame DEF Typing, Course
    <2> QED BY <2>1, ShapeFacts, FlyIs DEF Order, Turn
  <1>1. PICK k \in Ring : k = Next_slot
    BY <1>0, NextIsDead
  <1>2. /\ Alone(k) /\ bur'[k].A.st = "ready"
        /\ bur'[k].A.refs = AnchorRefs \cup ColRefs /\ bur'[k].A.gates = AnchorGates
        /\ apc = "ready" /\ SerialDone /\ RefbWaited /\ k # cur
    BY <1>0, <1>1, PrepWrites, NextIsDead
  <1>3. Last = n - 1 /\ Last \in Nat /\ Last \in 0 .. Len(cfg.script)
    BY <1>0, <1>2, LastIs DEF Last
  <1>4. fly # None => /\ fly = cur /\ bur[cur].live /\ bur[cur].n = Last /\ Last > 0
                      /\ bur[cur].nb = cfg.script[Last] /\ ~Preparing(bur[cur])
                      /\ bur'[cur] = bur[cur]
    <2> SUFFICES ASSUME fly # None
                 PROVE  /\ fly = cur /\ bur[cur].live /\ bur[cur].n = Last /\ Last > 0
                        /\ bur[cur].nb = cfg.script[Last] /\ ~Preparing(bur[cur])
                        /\ bur'[cur] = bur[cur]
      OBVIOUS
    <2>1. fly = cur /\ bur[cur].live /\ bur[cur].n = Last /\ Last > 0
          /\ bur[cur].nb = cfg.script[Last]
      BY <1>0, FlyIs
    <2>2. ~Preparing(bur[cur])
      BY <1>0, <1>2, <2>1 DEF SerialDone, Order, InRing
    <2> QED BY <1>0, <1>2, <2>1, <2>2 DEF Alone
  <1>5. \A i \in 0 .. Last - 1 : AFin(i)
    BY <1>0, <1>2, <1>4, AnchorsBefore
  <1>6. PICK o : o = bur'[k]["A"]
    OBVIOUS
  <1>7. o.st = "ready" /\ o.refs = AnchorRefs \cup ColRefs /\ o.gates = AnchorGates
    BY <1>2, <1>6
  <1>8. \A r : r.pic = <<Last, "A">> => NextStreams(r, o)
    <2> SUFFICES ASSUME NEW r, r.pic = <<Last, "A">> PROVE NextStreams(r, o)
      OBVIOUS
    <2>1. CASE fly = None
      <3>1. nlive = 0
        BY <1>0, <2>1, ShapeFacts DEF Order, Turn, Ring, None
      <3>2. AFin(Last)
        BY <1>3, <3>1 DEF Marks, Final
      <3> QED BY <1>0, <3>2 DEF AFin, NextStreams
    <2>2. CASE fly # None
      <3>1. << fly, "A" >> \in o.gates
        BY <1>7, <2>2 DEF AnchorGates
      <3>2. bur'[fly].n = Last /\ Last > 0
        BY <1>4, <2>2
      <3> QED BY <3>1, <3>2 DEF NextStreams
    <2> QED BY <2>1, <2>2
  <1>9. ASSUME NEW r \in AnchorRefs
        PROVE  r.pic \in RefPics /\ (fin[r.pic] = Rows \/ (r.part /\ NextStreams(r, o)))
    <2>1. PICK s \in List0P : r.pic = dpb[s].pic /\ (r.part <=> dpb[s].pic \in Clamped)
      <3>1. PICK s \in List0P : r = Ref(s, dpb[s].pic \in Clamped)
        BY DEF AnchorRefs
      <3>2. PICK c : c = Clamped
        OBVIOUS
      <3>3. r = [p |-> dpb[s].pl, x |-> dpb[s].x, pic |-> dpb[s].pic, part |-> dpb[s].pic \in c]
        BY <3>1, <3>2, Zenon DEF Ref
      <3>4. r.part = (dpb[s].pic \in c) /\ r.pic = dpb[s].pic
        BY <3>3
      <3> QED BY <3>2, <3>4
    <2>2. /\ r.pic \in RefPics /\ r.pic[1] <= Last
          /\ cfg.nref = 1 => r.pic = <<Last, "A">>
      BY <1>2, <2>1, AnchorList
    <2>3. PICK i \in 0 .. Len(cfg.script), j \in {"A", "R"} :
              r.pic = <<i, j>> /\ i <= Last /\ (j = "R" => HasRefB(i))
      BY <2>2, RefInPics
    <2>4. i = Last \/ i \in 0 .. Last - 1
      BY <1>0, <1>3, <2>3
    <2>5. CASE j = "A" /\ i = Last
      <3>1. r.part
        BY <1>3, <2>1, <2>3, <2>5 DEF Clamped
      <3> QED BY <1>8, <2>2, <2>3, <2>5, <3>1
    <2>6. CASE j = "A" /\ i \in 0 .. Last - 1
      BY <1>5, <2>2, <2>3, <2>6 DEF AFin
    <2>7. CASE j = "R"
      <3>1. cfg.nref > 1
        BY <1>0, <2>2, <2>3, <2>7
      <3>2. (\A h \in 0 .. Last - 1 : RFin(h)) /\ (RFin(Last) \/ (fly # None /\ Gated(fly)))
        BY <1>0, <1>2, <3>1, RefbsBefore DEF Typing
      <3>3. CASE RFin(i)
        BY <2>2, <2>3, <2>7, <3>3 DEF RFin
      <3>4. CASE ~RFin(i)
        <4>1. i = Last /\ fly # None /\ Gated(fly) /\ cfg.wide
          BY <2>4, <3>2, <3>4 DEF Gated
        <4>2. r.part
          BY <1>3, <2>1, <2>3, <2>7, <3>1, <4>1 DEF Clamped
        <4>3. << fly, "R" >> \in o.gates
          BY <1>7, <4>1 DEF AnchorGates
        <4>4. bur[cur].nb > 1
          BY <1>4, <2>3, <2>7, <4>1 DEF HasRefB
        <4>5. bur[cur].R.st # "off"
          <5> SUFFICES ASSUME bur[cur].R.st = "off" PROVE FALSE
            OBVIOUS
          <5>1. Phase(bur[cur])
            BY <1>0 DEF Stages, InStage
          <5>2. bur[cur].pc = "idle"
            BY <1>4, <4>1, <4>4, <5>1 DEF Phase, Preparing
          <5>3. RFin(bur[cur].n)
            BY <1>0, <1>2, <1>4, <4>1, <5>2 DEF Marks, Marked, Unarmed
          <5> QED BY <1>4, <3>4, <4>1, <5>3
        <4>6. bur'[fly].n = Last /\ Last > 0 /\ bur'[fly].R.st # "off"
          BY <1>4, <4>1, <4>5
        <4> QED BY <2>2, <2>3, <2>7, <4>1, <4>2, <4>3, <4>6 DEF NextStreams
      <3> QED BY <3>3, <3>4
    <2> QED BY <2>4, <2>5, <2>6, <2>7
  <1>10. ASSUME NEW r \in ColRefs
         PROVE  r.pic \in RefPics /\ (fin[r.pic] = Rows \/ (r.part /\ NextStreams(r, o)))
    <2>1. HasCol /\ fly # None
      BY DEF ColRefs, HasCol
    <2>2. PICK c : c = bur[cur].col
      OBVIOUS
    <2>3. c # None /\ c \in Slots /\ dpb[c].pic \in RefPics /\ dpb[c].pic[1] = Last
      BY <1>4, <2>1, <2>2 DEF HasCol, Colocated
    <2>4. r.pic = dpb[c].pic /\ (r.part <=> dpb[c].pic[2] = "A")
      <3>1. r = Ref(c, dpb[c].pic[2] = "A")
        BY <1>4, <2>1, <2>2 DEF ColRefs
      <3>2. PICK p \in BOOLEAN : p = (dpb[c].pic[2] = "A")
        OBVIOUS
      <3>3. r.pic = dpb[c].pic /\ (r.part <=> p)
        BY <3>1, <3>2, RefFields
      <3> QED BY <3>2, <3>3
    <2>5. PICK j \in {"A", "R"} : r.pic = <<Last, j>> /\ (j = "R" => HasRefB(Last))
      BY <2>3, <2>4, RefInPics
    <2>6. CASE j = "A"
      BY <1>8, <2>3, <2>4, <2>5, <2>6
    <2>7. CASE j = "R"
      <3>1. bur[cur].nb > 1
        BY <1>4, <2>1, <2>5, <2>7 DEF HasRefB
      <3>2. ColIsR(fly) /\ HasR(fly) /\ fly \in Live
        <4>1. fly = cur /\ cur \in Ring /\ bur[cur].live
          BY <1>0, <1>4, <2>1
        <4>2. dpb[bur[fly].col].pic[2] = "R"
          <5>1. dpb[c].pic = << Last, "R" >>
            BY <2>4, <2>5, <2>7
          <5>2. c = bur[fly].col
            BY <2>2, <4>1
          <5> QED BY <5>1, <5>2
        <4> QED BY <2>1, <3>1, <4>1, <4>2 DEF ColIsR, HasR, HasRef, Live
      <3>3. bur[cur].refb_done > 0
        <4>1. bur[fly].refb_done >= 1 /\ fly = cur
          BY <1>2, <1>4, <2>1, <3>2 DEF RefbWaited
        <4>2. bur[cur].refb_done \in Nat
          BY <1>0 DEF Bursts, IsBurst
        <4> QED BY <4>1, <4>2
      <3>4. Marked(cur)
        BY <1>0 DEF Marks
      <3>5. fin[<<bur[cur].n, "R">>] = Rows
        BY <1>4, <2>1, <3>3, <3>4 DEF Marked
      <3> QED BY <1>4, <2>1, <2>3, <2>4, <2>5, <2>7, <3>5
    <2> QED BY <2>6, <2>7
  <1>11. \A r \in o.refs : r.pic \in RefPics /\ (fin[r.pic] = Rows \/ (r.part /\ NextStreams(r, o)))
    BY <1>7, <1>9, <1>10
  <1>12. /\ \A r \in o.refs : r.pic \in RefPics
         /\ \A r \in o.refs : r.part => NextStreams(r, o)
         /\ \A r \in o.refs : ~r.part => fin'[r.pic] = Rows
    BY <1>0, <1>11 DEF NextStreams
  <1>13. Reads(k, "A")'
    BY <1>0, <1>6, <1>7, <1>12, NewReads
  <1>14. Next_slot' = Next_slot
    BY PrepFrame DEF Next_slot
  <1> QED BY <1>1, <1>13, <1>14

LEMMA JobsPrep ==
  ASSUME Typing, Course, Stages, Window, Marks, History, Jobs, Colocated, Prep PROVE Jobs'
  <1>0. /\ cfg \in Shapes /\ Bursts /\ Order /\ cfg' = cfg
        /\ n \in 1 .. Len(cfg.script) + 1 /\ (fly # None => fly \in Ring)
    <2>1. cfg \in Shapes /\ Bursts /\ Order /\ cfg' = cfg
      BY PrepFrame DEF Typing, Course
    <2> QED BY <2>1, FlyIs DEF Order, Turn
  <1>1. [Next]_vars
    BY DEF Next
  <1>2. PICK k \in Ring : k = Next_slot /\ Next_slot' = Next_slot
    BY <1>0, NextIsDead, PrepFrame DEF Next_slot
  <1>3. /\ Alone(k) /\ bur'[k].R.st = "off" /\ bur'[k].L.st = "off"
        /\ bur'[k].R.refs = bur[k].R.refs /\ bur'[k].L.refs = bur[k].L.refs
    BY <1>0, <1>2, PrepWrites
  <1>4. ASSUME NEW m \in Ring, NEW i \in Kinds, m # k PROVE Reads(m, i)'
    <2>1. bur'[m] = bur[m]
      BY <1>3, <1>4 DEF Alone
    <2> QED BY <1>0, <1>1, <2>1, JobStays
  <1>5. ASSUME NEW i \in {"R", "L"} PROVE Reads(k, i)'
    <2>1. PICK o : o = bur'[k][i]
      OBVIOUS
    <2>2. o.refs = bur[k][i].refs /\ o.st = "off"
      BY <1>3, <2>1
    <2>3. \A r \in o.refs : r.pic \in RefPics
      <3>1. Reads(k, i)
        BY DEF Jobs, Kinds
      <3> QED BY <2>2, <3>1 DEF Reads, Referenced
    <2> QED BY <1>0, <2>1, <2>2, <2>3, NewReads
  <1>6. Reads(k, "A")'
    BY <1>2, ReadsPrep
  <1> QED BY <1>4, <1>5, <1>6 DEF Jobs, Kinds

LEMMA JobsSteps ==
  ASSUME Typing, Course, Stages, Window, Marks, History, Jobs, Colocated, [Next]_vars
  PROVE  Jobs'
  BY JobsPrep, JobsBegin, JobsThreads, JobsRest DEF Next

LEMMA JobsStart == Init => Jobs
  <1> SUFFICES ASSUME Init, NEW k \in Ring, NEW j \in Kinds PROVE Reads(k, j)
    BY DEF Jobs
  <1>1. bur[k][j] = IdleJob
    BY DEF Init, NoBurst, Kinds
  <1> QED BY <1>1 DEF Reads, Referenced, Streamed, Settled, Clear, IdleJob

-----------------------------------------------------------------------------
\* What the readers of every burst rely on, whoever runs first.
Readers == Stream /\ Stages /\ Marks /\ History /\ Jobs /\ Colocated

LEMMA ReadersFinal == ASSUME Readers PROVE ReadsFinal
  <1> SUFFICES ASSUME NEW k \in Ring, NEW j \in Kinds, NEW r \in bur[k][j].refs
               PROVE  LET q == bur[k][j]
                      IN  /\ r.part /\ q.st = "run" /\ q.arow > 0
                               => fin[r.pic] >= Least((q.arow - 1) + Lag, Rows)
                          /\ ~r.part /\ (q.st = "run" \/ (q.st = "ready" /\ j = "A"))
                               => fin[r.pic] = Rows
    BY DEF ReadsFinal, Job
  <1>1. Reads(k, j)
    BY DEF Readers, Jobs
  <1> QED BY <1>1 DEF Reads, Clear, Settled

\* At any time, whatever the overlap of bursts, no row of a picture is analysed
\* from pixels that are not final: a reference read within the motion clamp has
\* published at least the rows the clamp lets in (stair_row_ready), and any
\* other is complete, from the anchor's prep on.
THEOREM ReadersOfFinalRows == Spec => []ReadsFinal
  <1>1. Init => Readers
    BY Start, CourseStart, WindowStart, StagesStart, MarksStart, HistoryStart, JobsStart,
       ColocatedStart DEF Readers, Stream
  <1>2. Readers /\ [Next]_vars => Readers'
    <2> SUFFICES ASSUME Readers, [Next]_vars PROVE Readers'
      OBVIOUS
    <2>1. Stream /\ Typing /\ Course /\ Window /\ cfg \in Shapes
      BY DEF Readers, Stream, IInv, Typing
    <2>2. Stages /\ Marks /\ History /\ Jobs /\ Colocated
      BY DEF Readers
    <2>3. Stream'
      BY <2>1, StreamSteps
    <2>4. Stages' /\ Marks' /\ History'
      BY <2>1, <2>2, StagesSteps, MarksSteps, HistorySteps
    <2>5. Jobs' /\ Colocated'
      BY <2>1, <2>2, JobsSteps, ColocatedSteps
    <2> QED BY <2>3, <2>4, <2>5 DEF Readers
  <1>3. Readers => ReadsFinal
    BY ReadersFinal
  <1> QED BY <1>1, <1>2, <1>3, PTL DEF Spec
=============================================================================
