---------------------------- MODULE LaThreadProofs ----------------------------
(***************************************************************************)
(* The lookahead thread, the API thread and the macroblock tree's thread   *)
(* share the ring of low-resolution frames without a lock on its entries,  *)
(* for every length of film, depth, slack, run of B's and decision of the  *)
(* costs: no entry is used by one while another writes it, the window of a *)
(* walk holds exactly its frames, typed, and legs taken as final are.      *)
(***************************************************************************)
EXTENDS LaThread, SequenceTheorems, WellFoundedInduction, TLAPS

-----------------------------------------------------------------------------
(* Arithmetic of the ring.                                                  *)

LEMMA ModRange == ASSUME NEW C \in Nat \ {0}, NEW a \in Int PROVE a % C \in 0 .. C - 1
  OBVIOUS

LEMMA ModDiv ==
  ASSUME NEW C \in Nat \ {0}, NEW a \in Int
  PROVE  a \div C \in Int /\ a = C * (a \div C) + (a % C)
  OBVIOUS

LEMMA Multiple ==
  ASSUME NEW C \in Nat \ {0}, NEW x \in Int
  PROVE  /\ x >= 1 => C * x >= C
         /\ x <= -1 => C * x <= -C
  OBVIOUS

LEMMA ModApart ==
  ASSUME NEW C \in Nat \ {0}, NEW a \in Int, NEW b \in Int, a < b, b < a + C
  PROVE  a % C # b % C
<1> SUFFICES ASSUME a % C = b % C PROVE FALSE
  OBVIOUS
<1> PICK p \in Int : p = a \div C
  BY ModDiv
<1> PICK r \in Int : r = b \div C
  BY ModDiv
<1>1. a = C * p + (a % C) /\ b = C * r + (b % C)
  BY ModDiv
<1>2. a % C \in 0 .. C - 1 /\ b % C \in 0 .. C - 1
  BY ModRange
<1>3. b - a = C * (r - p)
  BY <1>1, <1>2
<1>4. CASE r - p >= 1
  BY <1>4, <1>3, Multiple
<1>5. CASE r - p <= -1
  BY <1>5, <1>3, Multiple
<1>6. CASE r = p
  BY <1>6, <1>1
<1> QED
  BY <1>4, <1>5, <1>6

LEMMA ModUnique ==
  ASSUME NEW C \in Nat \ {0}, NEW m \in 0 .. C - 1, NEW n \in 0 .. C - 1,
         NEW k \in Int, m - n = C * k
  PROVE  m = n
<1>1. CASE k >= 1
  BY <1>1, Multiple
<1>2. CASE k <= -1
  BY <1>2, Multiple
<1>3. CASE k = 0
  BY <1>3
<1> QED
  BY <1>1, <1>2, <1>3

LEMMA Factored ==
  ASSUME NEW C \in Nat, NEW p \in Int, NEW r \in Int
  PROVE  /\ C * (p - r) = C * p - C * r
         /\ C * (p + r) = C * p + C * r
         /\ C * (p + 1) = C * p + C
  OBVIOUS

\* What is congruent has one remainder.
LEMMA ModSame ==
  ASSUME NEW C \in Nat \ {0}, NEW a \in Int, NEW b \in Int, NEW k \in Int, a - b = C * k
  PROVE  a % C = b % C
<1> PICK x \in 0 .. C - 1 : x = a % C
  BY ModRange
<1> PICK y \in 0 .. C - 1 : y = b % C
  BY ModRange
<1> PICK r \in Int : r = a \div C
  BY ModDiv
<1> PICK t \in Int : t = b \div C
  BY ModDiv
<1>1. a = C * r + x /\ b = C * t + y
  BY ModDiv
<1>2. C * (t + k) = C * t + C * k /\ t + k \in Int
  BY Factored
<1>3. C * ((t + k) - r) = C * (t + k) - C * r /\ (t + k) - r \in Int
  BY <1>2, Factored
<1>4. x - y = C * ((t + k) - r)
  BY <1>1, <1>2, <1>3
<1> QED
  BY <1>3, <1>4, ModUnique

LEMMA ModShift ==
  ASSUME NEW C \in Nat \ {0}, NEW a \in Int, NEW d \in Int
  PROVE  ((a % C) + d) % C = (a + d) % C
<1> PICK m \in 0 .. C - 1 : m = a % C
  BY ModRange
<1> PICK p \in Int : p = a \div C
  BY ModDiv
<1>1. a = C * p + m
  BY ModDiv
<1>2. m + d \in Int /\ a + d \in Int /\ (a + d) - (m + d) = C * p
  BY <1>1
<1>3. (a + d) % C = (m + d) % C
  BY ONLY C \in Nat \ {0}, p \in Int, <1>2, ModSame, Zenon
<1> QED
  BY <1>3

\* Adding the modulus changes nothing.
LEMMA ModTurn ==
  ASSUME NEW C \in Nat \ {0}, NEW a \in Int
  PROVE  (a + C) % C = a % C
<1>1. a + C \in Int /\ (a + C) - a = C * 1
  OBVIOUS
<1>2. 1 \in Int
  OBVIOUS
<1> QED
  BY ONLY C \in Nat \ {0}, a \in Int, <1>1, <1>2, ModSame, Zenon

LEMMA ModNext ==
  ASSUME NEW C \in Nat \ {0}, NEW a \in Int, NEW b \in Int, a % C = b % C
  PROVE  (a + 1) % C = (b + 1) % C
<1>0. 1 \in Int
  OBVIOUS
<1>1. ((a % C) + 1) % C = (a + 1) % C
  BY <1>0, ModShift, Zenon
<1>2. ((b % C) + 1) % C = (b + 1) % C
  BY <1>0, ModShift, Zenon
<1> QED
  BY <1>1, <1>2
-----------------------------------------------------------------------------
(* The inductive invariant.                                                 *)

Slot(s) == (s - 1) % Cap                   \* where frame s lives

EntryOf == [fr : Nat, typed : BOOLEAN, anchor : BOOLEAN, idr : BOOLEAN, since : Nat,
            cleared : BOOLEAN, bleg : {<< >>} \cup (Int \X Int), aleg : Int]
\* A record with the fields of a memo, of a buffered B; the memos' keys are not
\* looked at here.
IsMemo(m) ==
    /\ m = [valid |-> m.valid, past |-> m.past, fut |-> m.fut, data |-> m.data, seed |-> m.seed]
    /\ m.valid \in BOOLEAN
IsStash(b) == b = [poc |-> b.poc, fr |-> b.fr, memo |-> b.memo, plain |-> b.plain, seed |-> b.seed]

TypeOK ==
    /\ cfg \in Shapes /\ film \in Films
    /\ apc \in {"ready", "pad", "pop", "popwait", "take", "treewait", "join", "walk",
                "launch", "close", "closed"}
    /\ cur \in Int /\ la_head \in Int /\ la_n \in Nat /\ pushed \in Nat /\ pop_seq \in Nat
    /\ flushing \in BOOLEAN
    /\ plane \in [Slots -> Nat] /\ ring \in [Slots -> EntryOf] /\ q \in [Slots -> Int]
    /\ memo = [s \in Slots |-> memo[s]] /\ \A s \in Slots : IsMemo(memo[s])
    /\ Len(bbuf) \in Nat /\ bbuf = [k \in 1 .. Len(bbuf) |-> bbuf[k]]
    /\ \A k \in 1 .. Len(bbuf) : IsStash(bbuf[k])
    /\ cpc \in {"idle", "analyse", "finalize", "publish", "gone"}
    /\ done \in Nat /\ exit \in BOOLEAN
    /\ ch \in [prev : Int, have : BOOLEAN, since : Nat, brun : Nat, apoc : Int]
    /\ wpc \in {"idle", "wait", "scan", "look", "phaseA", "gone"}
    /\ wi \in Nat
    /\ req \in BOOLEAN /\ mdone \in BOOLEAN /\ mexit \in BOOLEAN
    /\ job \in [head : Int, navail : Nat, popseq : Nat, pushed : Nat]

\* The API thread has a popped frame in hand; it has yet to be taken.
InHand == apc \in {"popwait", "take", "treewait", "join", "walk", "launch"}
Untaken == apc \in {"popwait", "take"}
Taken == IF Untaken THEN pop_seq - 1 ELSE pop_seq

\* The frames pop_seq + 1 .. pushed are in the ring; once frames are popped it
\* is kept full until the flush, and the chain keeps ahead of the pops.
Counts ==
    /\ pushed = pop_seq + la_n /\ la_head = pop_seq % Cap
    /\ IF apc = "pop" THEN la_n = Cap ELSE la_n < Cap
    /\ pop_seq > 0 /\ ~flushing => la_n >= Cap - 1
    /\ apc \in {"pad", "pop", "popwait"} => ~flushing
    /\ apc = "popwait" => la_n = Cap - 1
    /\ InHand => pop_seq > 0 /\ cur = Slot(pop_seq)
Pace ==
    /\ done <= pushed /\ done >= pushed - Cap
    /\ cpc \in {"analyse", "finalize", "publish"} => done < pushed
    /\ flushing => done = pushed
    /\ apc = "pad" => done > pushed - Cap
    /\ ~flushing /\ Taken > 0 => done >= Taken + cfg.bframes + 2
    /\ ~flushing /\ apc = "take" => done >= pop_seq + cfg.bframes + 2
    /\ ~flushing /\ apc \in {"join", "walk"} => done >= pop_seq + cfg.depth - 1

\* The queue and the planes of the frames pushed last.
Slotted ==
    \A s \in 1 .. pushed : s > pushed - Cap => q[s % Cap] = Slot(s) /\ plane[Slot(s)] = s

\* The frames analysed and typed by the chain, and the ring entries they left.
Analysed == IF cpc \in {"finalize", "publish"} THEN done + 1 ELSE done
Final == IF cpc = "publish" \/ done = 0 THEN done ELSE done - 1
Charted ==
    /\ ch.prev = IF cpc = "publish" THEN Slot(done + 1) ELSE IF done = 0 THEN None ELSE Slot(done)
    /\ \A s \in 1 .. Analysed : s > Analysed - Cap =>
         /\ ring[Slot(s)].fr = s
         /\ s <= Final => ring[Slot(s)].typed
         /\ s > Final /\ (flushing => s > pop_seq) => ~ring[Slot(s)].typed
    /\ \A s \in Slots : LET en == ring[s] IN
         en.bleg # << >> => en.typed /\ en.bleg[1] < Poc(en) /\ Poc(en) < en.bleg[2]

\* Runs of B's are at most bframes long: in the chain's count, between anchors in
\* the ring, and in the buffer.
Cadence ==
    /\ ch.brun <= cfg.bframes /\ ch.since < cfg.keyint
    /\ ~cfg.badapt => ch.since = 0 \/
                      ch.since % (cfg.bframes + 1) = (ch.brun + 1) % (cfg.bframes + 1)
Base == IF apc \in {"treewait", "join", "walk", "launch"} THEN pop_seq ELSE Taken - Len(bbuf)
Anchored(s) == ring[Slot(s)].anchor
Hanging == apc = "take" /\ pop_seq > Final /\ ring[cur].typed        \* a tail
LastRun ==
    Taken <= Final /\ ~Hanging =>
        LET a == Final - ch.brun IN
        /\ \A s \in Taken + 1 .. Final : s > a => ~Anchored(s)
        /\ a = Base \/ (a > Taken /\ Anchored(a))
Runs ==
    /\ Base >= 0 /\ Len(bbuf) <= cfg.bframes
    /\ apc = "take" /\ ring[cur].typed /\ ~ring[cur].anchor => Len(bbuf) < cfg.bframes
    /\ \A s \in Taken + 1 .. Final : ~Anchored(s) =>
         \/ s - cfg.bframes <= Base
         \/ \E a \in Taken + 1 .. s - 1 : a >= s - cfg.bframes /\ Anchored(a)
    /\ LastRun

\* The mb-tree thread works between a launch and the next join, on frames that
\* are neither popped nor padded over meanwhile.
Ahead ==
    /\ wpc \in {"wait", "scan", "look", "phaseA"} => req /\ ~mdone
    /\ apc \in {"walk", "launch"} => ~req
    /\ req =>
         /\ job.head = job.popseq % Cap /\ job.pushed = job.popseq + job.navail
         /\ job.popseq <= pop_seq /\ job.pushed <= pushed
         /\ IF apc \in {"treewait", "join"} THEN pop_seq <= job.popseq + cfg.bframes + 1
                                            ELSE Taken <= job.popseq + Len(bbuf)
    /\ wpc \in {"scan", "look", "phaseA"} => done >= WarmNeed

\* A memo is of the frame f in its slot; legs taken as final are final.
Recalled(s, f) ==
    /\ f \in 1 .. pushed /\ f > pushed - Cap /\ s = Slot(f) /\ ring[s].fr = f
    /\ ring[s].typed /\ (f <= Final \/ flushing)
    /\ f <= Taken => ring[s].anchor
    /\ memo[s].seed # << >> =>
         memo[s].seed = <<Legs(ring[s])>> /\ (f < done - cfg.bframes \/ flushing)
Remembered == \A s \in Slots : memo[s].valid => Recalled(s, memo[s].data[1])
Kept ==
    ~flushing => \A k \in 1 .. Len(bbuf) :
        /\ bbuf[k].fr \in 1 .. Taken
        /\ ring[Slot(bbuf[k].fr)].fr = bbuf[k].fr => bbuf[k].seed = ring[Slot(bbuf[k].fr)].bleg

IInv == /\ TypeOK /\ Counts /\ Pace /\ Slotted /\ Charted /\ Cadence /\ Runs
        /\ Ahead /\ Remembered /\ Kept

-----------------------------------------------------------------------------
(* The ring.                                                                *)

LEMMA Caps ==
  ASSUME cfg \in Shapes
  PROVE  /\ Cap \in Nat \ {0} /\ Cap >= cfg.depth /\ cfg.depth \in Nat
         /\ cfg.depth >= cfg.bframes + 3 /\ cfg.bframes \in Nat
         /\ cfg.keyint \in Nat \ {0} /\ cfg.scmin \in Nat /\ cfg.badapt \in BOOLEAN
  BY LaAssumption DEF Cap

LEMMA SlotIn == ASSUME cfg \in Shapes, NEW s \in Int PROVE Slot(s) \in Slots /\ Slot(s) \in Int
<1>1. Cap \in Nat \ {0}
  BY Caps
<1>2. (s - 1) % Cap \in 0 .. Cap - 1
  BY <1>1, ModRange
<1> QED
  BY <1>1, <1>2 DEF Slot, Slots

LEMMA SlotApart ==
  ASSUME cfg \in Shapes, NEW s \in Int, NEW t \in Int, s < t, t < s + Cap
  PROVE  Slot(s) # Slot(t)
<1>1. Cap \in Nat \ {0}
  BY Caps
<1>2. s - 1 \in Int /\ t - 1 \in Int /\ s - 1 < t - 1 /\ t - 1 < (s - 1) + Cap
  BY <1>1
<1>3. (s - 1) % Cap # (t - 1) % Cap
  BY ONLY <1>1, <1>2, ModApart
<1> QED
  BY <1>3 DEF Slot

LEMMA SlotSame ==
  ASSUME cfg \in Shapes, NEW s \in Int, NEW t \in Int, Slot(s) = Slot(t),
         s < t + Cap, t < s + Cap
  PROVE  s = t
<1>1. Cap \in Nat \ {0}
  BY Caps
<1> QED
  BY <1>1, SlotApart

\* The slot at an offset from the head of a window, and backwards.
LEMMA AtHead ==
  ASSUME cfg \in Shapes, NEW p \in Int, NEW h \in Int, h = p % Cap, NEW i \in Int
  PROVE  At(h, i) = Slot(p + i + 1)
<1>1. Cap \in Nat \ {0}
  BY Caps
<1>2. ((p % Cap) + i) % Cap = (p + i) % Cap
  BY ONLY <1>1, p \in Int, i \in Int, ModShift
<1>3. (p + i + 1) - 1 = p + i
  OBVIOUS
<1> QED
  BY <1>2, <1>3 DEF At, Slot

LEMMA AtBack ==
  ASSUME cfg \in Shapes, NEW s \in Int, NEW j \in Int
  PROVE  At(Slot(s), Cap - j) = Slot(s - j)
<1>1. Cap \in Nat \ {0}
  BY Caps
<1>2. PICK a \in Int : a = s - 1
  OBVIOUS
<1>3. PICK d \in Int : d = Cap - j
  BY <1>1
<1>4. ((a % Cap) + d) % Cap = (a + d) % Cap
  BY ONLY <1>1, a \in Int, d \in Int, ModShift
<1>5. PICK b \in Int : b = a - j
  OBVIOUS
<1>6. a + d = b + Cap /\ b = (s - j) - 1
  BY <1>1, <1>2, <1>3, <1>5
<1>7. (b + Cap) % Cap = b % Cap
  BY ONLY <1>1, b \in Int, ModTurn
<1> QED
  BY <1>2, <1>3, <1>4, <1>6, <1>7 DEF At, Slot

\* The head of the window after p pops, one pop later.
LEMMA HeadNext ==
  ASSUME cfg \in Shapes, NEW p \in Int
  PROVE  At(p % Cap, 1) = (p + 1) % Cap /\ p % Cap = Slot(p + 1) /\ p % Cap \in Int
<1>1. Cap \in Nat \ {0}
  BY Caps
<1>0. 1 \in Int
  OBVIOUS
<1>2. ((p % Cap) + 1) % Cap = (p + 1) % Cap
  BY <1>0, <1>1, ModShift, Zenon
<1>3. (p + 1) - 1 = p
  OBVIOUS
<1>4. p % Cap \in 0 .. Cap - 1
  BY <1>1, ModRange
<1>5. p % Cap \in Int
  BY <1>1, <1>4
<1> QED
  BY <1>2, <1>3, <1>5 DEF At, Slot

\* The offset of a slot from the head, as the code's loops count it.
LEMMA Offset ==
  ASSUME cfg \in Shapes, NEW p \in Int, NEW h \in Int, h = p % Cap, NEW s \in Slots,
         NEW i, i = (s + Cap - h) % Cap
  PROVE  i \in Int /\ 0 <= i /\ i < Cap /\ s = Slot(p + i + 1)
<1>1. Cap \in Nat \ {0} /\ s \in Int /\ s >= 0 /\ s <= Cap - 1
  BY Caps DEF Slots
<1>2. PICK d \in Int : d = s + Cap - h
  BY ONLY <1>1, h \in Int
<1>3. d % Cap \in 0 .. Cap - 1
  BY <1>1, ModRange
<1>4. i \in Int /\ 0 <= i /\ i < Cap
  BY <1>1, <1>2, <1>3
<1>5. ((d % Cap) + h) % Cap = (d + h) % Cap
  BY <1>1, ModShift, Zenon
<1>6. h + i = (d % Cap) + h /\ d + h = s + Cap
  BY <1>1, <1>2, <1>4
<1>7. (s + Cap) % Cap = s % Cap
  BY <1>1, ModTurn
<1>8. s % Cap = s
  BY <1>1
<1>9. At(h, i) = s
  BY <1>5, <1>6, <1>7, <1>8 DEF At
<1> QED
  BY <1>4, <1>9, AtHead

\* The queue's index.
LEMMA QueueApart ==
  ASSUME cfg \in Shapes, NEW s \in Int, NEW t \in Int, s < t, t < s + Cap
  PROVE  s % Cap # t % Cap
<1>1. Cap \in Nat \ {0}
  BY Caps
<1> QED
  BY ONLY <1>1, s \in Int, t \in Int, s < t, t < s + Cap, ModApart

LEMMA QueueIn == ASSUME cfg \in Shapes, NEW s \in Int PROVE s % Cap \in Slots
<1>1. Cap \in Nat \ {0}
  BY Caps
<1> QED
  BY <1>1, ModRange DEF Slots

\* Nothing of this moves: the encoder is opened once.
LEMMA Fixed ==
  ASSUME cfg' = cfg
  PROVE  /\ Cap' = Cap /\ Slots' = Slots
         /\ \A s : Slot(s)' = Slot(s)
         /\ \A h, i : At(h, i)' = At(h, i)
  BY DEF Cap, Slots, Slot, At

-----------------------------------------------------------------------------
(* The chain's decision.                                                    *)

Chains == [prev : Int, have : BOOLEAN, since : Nat, brun : Nat, apoc : Int]

\* la_finalize types the entry p and writes the legs of the B's it closes: of
\* entries at most brun before p, typed and no anchors, each with legs on
\* either side of it.  A run of B's does not get longer than bframes.
LEMMA Finalizing ==
  ASSUME TypeOK, Cadence, NEW p \in Slots, NEW n \in Int, NEW f, f = Finalized(p, n)
  PROVE  /\ f.ring \in [Slots -> EntryOf] /\ f.ch \in Chains /\ f.ch.prev = n
         /\ \A s \in Slots : f.ring[s].fr = ring[s].fr
         /\ \A s \in Slots : s # p =>
              /\ f.ring[s].typed = ring[s].typed /\ f.ring[s].anchor = ring[s].anchor
              /\ f.ring[s].idr = ring[s].idr /\ f.ring[s].since = ring[s].since
              /\ f.ring[s].aleg = ring[s].aleg
              /\ \/ f.ring[s].bleg = ring[s].bleg
                 \/ /\ ring[s].typed /\ ~ring[s].anchor
                    /\ \E j \in 1 .. ch.brun : s = At(p, Cap - j)
                    /\ f.ring[s].bleg \in Int \X Int
                    /\ f.ring[s].bleg[1] < Poc(ring[s]) /\ Poc(ring[s]) < f.ring[s].bleg[2]
         /\ f.ring[p].typed /\ f.ring[p].bleg = ring[p].bleg
         /\ f.ch.brun = IF f.ring[p].anchor THEN 0 ELSE ch.brun + 1
         /\ f.ch.brun <= cfg.bframes /\ f.ch.since < cfg.keyint
         /\ ~cfg.badapt => f.ch.since = 0 \/
                f.ch.since % (cfg.bframes + 1) = (f.ch.brun + 1) % (cfg.bframes + 1)
<1> DEFINE en == ring[p]
           raw == ch.have /\ ~en.cleared /\ ch.since >= cfg.scmin
                    /\ film[en.fr] \in {"cut", "flash"}
           flash == raw /\ film[en.fr] = "flash" /\ cfg.bframes > 0 /\ n # None
           since == IF raw /\ ~flash THEN 0 ELSE ch.since
           idr == since = 0
           anchor == \/ idr
                     \/ ~cfg.badapt /\ since % (cfg.bframes + 1) = 0
                     \/ cfg.badapt /\ (ch.brun >= cfg.bframes \/ n = None \/ film[en.fr] = "dear")
           linked == anchor /\ ~idr /\ ch.apoc # None
           Leaf(b) == b.typed /\ ~b.anchor /\ ~b.idr
                        /\ ch.apoc < Poc(b) /\ Poc(b) < 2 * since
           leaves == {At(p, Cap - j) : j \in {k \in 1 .. ch.brun :
                          \A i \in 1 .. k : Leaf(ring[At(p, Cap - i)])}}
           fring == [s \in Slots |->
             IF s = p
             THEN [en EXCEPT !.typed = TRUE, !.anchor = anchor, !.idr = idr, !.since = since,
                             !.aleg = IF ~anchor THEN @ ELSE IF linked THEN ch.apoc ELSE None]
             ELSE IF linked /\ s \in leaves
             THEN [ring[s] EXCEPT !.bleg = <<ch.apoc, 2 * since>>]
             ELSE [ring[s] EXCEPT !.cleared = @ \/ (flash /\ s = n)]]
           fch == [prev |-> n, have |-> TRUE, since |-> (since + 1) % cfg.keyint,
                   brun |-> IF anchor THEN 0 ELSE ch.brun + 1,
                   apoc |-> IF anchor THEN 2 * since ELSE ch.apoc]
<1>1. f = [ring |-> fring, ch |-> fch]
  BY DEF Finalized
<1>2. /\ ch.since \in Nat /\ ch.brun \in Nat /\ ch.apoc \in Int /\ ch \in Chains
      /\ ring \in [Slots -> EntryOf] /\ en \in EntryOf
      /\ cfg.bframes \in Nat /\ cfg.keyint \in Nat \ {0} /\ cfg.badapt \in BOOLEAN
  BY Caps DEF TypeOK, Chains
<1> PICK x \in Nat : x = since
  BY <1>2
<1> PICK l \in BOOLEAN : l = linked
  OBVIOUS
<1> PICK g \in BOOLEAN : g = flash
  OBVIOUS
<1> PICK a \in BOOLEAN : a = anchor
  OBVIOUS
<1> PICK L : L = leaves
  OBVIOUS
<1> PICK z \in BOOLEAN : z = idr
  OBVIOUS
<1>4. fring = [s \in Slots |->
             IF s = p
             THEN [en EXCEPT !.typed = TRUE, !.anchor = a, !.idr = z, !.since = x,
                             !.aleg = IF ~a THEN @ ELSE IF l THEN ch.apoc ELSE None]
             ELSE IF l /\ s \in L
             THEN [ring[s] EXCEPT !.bleg = <<ch.apoc, 2 * x>>]
             ELSE [ring[s] EXCEPT !.cleared = @ \/ (g /\ s = n)]]
  BY ZenonT(60)
<1>5. fch = [prev |-> n, have |-> TRUE, since |-> (x + 1) % cfg.keyint,
             brun |-> IF a THEN 0 ELSE ch.brun + 1,
             apoc |-> IF a THEN 2 * x ELSE ch.apoc]
  OBVIOUS
<1>6. \A s \in L : /\ ring[s].typed /\ ~ring[s].anchor
                   /\ ch.apoc < Poc(ring[s]) /\ Poc(ring[s]) < 2 * x
                   /\ \E j \in 1 .. ch.brun : s = At(p, Cap - j)
  <2> SUFFICES ASSUME NEW s \in leaves
               PROVE  /\ ring[s].typed /\ ~ring[s].anchor
                      /\ ch.apoc < Poc(ring[s]) /\ Poc(ring[s]) < 2 * since
                      /\ \E j \in 1 .. ch.brun : s = At(p, Cap - j)
    OBVIOUS
  <2>1. PICK j \in 1 .. ch.brun : /\ s = At(p, Cap - j)
                                  /\ \A i \in 1 .. j : Leaf(ring[At(p, Cap - i)])
    OBVIOUS
  <2>2. j \in 1 .. j
    BY ONLY <1>2, j \in 1 .. ch.brun
  <2> QED
    BY <2>1, <2>2
<1> HIDE DEF en, raw, flash, since, idr, anchor, linked, Leaf, leaves, fring, fch
<1>3. f.ring = fring /\ f.ch = fch
  BY <1>1
<1>7. en = ring[p]
  BY DEF en
<1>8. f.ring = [s \in Slots |-> f.ring[s]]
  BY <1>3, <1>4
<1>21. f.ring[p] = [fr |-> en.fr, typed |-> TRUE, anchor |-> a, idr |-> z, since |-> x,
                    cleared |-> en.cleared, bleg |-> en.bleg,
                    aleg |-> IF ~a THEN en.aleg ELSE IF l THEN ch.apoc ELSE None]
  <2>1. PICK y \in EntryOf : y = en
    BY <1>2
  <2>2. y = [fr |-> y.fr, typed |-> y.typed, anchor |-> y.anchor, idr |-> y.idr,
             since |-> y.since, cleared |-> y.cleared, bleg |-> y.bleg, aleg |-> y.aleg]
    BY DEF EntryOf
  <2>3. f.ring[p] = [y EXCEPT !.typed = TRUE, !.anchor = a, !.idr = z, !.since = x,
                             !.aleg = IF ~a THEN @ ELSE IF l THEN ch.apoc ELSE None]
    BY <1>3, <1>4, <2>1
  <2> QED
    BY ONLY <2>1, <2>2, <2>3
<1>22. ASSUME NEW s \in Slots, s # p
       PROVE  f.ring[s] = [fr |-> ring[s].fr, typed |-> ring[s].typed, anchor |-> ring[s].anchor,
                idr |-> ring[s].idr, since |-> ring[s].since,
                cleared |-> IF l /\ s \in L THEN ring[s].cleared ELSE ring[s].cleared \/ (g /\ s = n),
                bleg |-> IF l /\ s \in L THEN <<ch.apoc, 2 * x>> ELSE ring[s].bleg,
                aleg |-> ring[s].aleg]
  <2>1. PICK y \in EntryOf : y = ring[s]
    BY <1>2
  <2>2. y = [fr |-> y.fr, typed |-> y.typed, anchor |-> y.anchor, idr |-> y.idr,
             since |-> y.since, cleared |-> y.cleared, bleg |-> y.bleg, aleg |-> y.aleg]
    BY DEF EntryOf
  <2>3. f.ring[s] = IF l /\ s \in L THEN [y EXCEPT !.bleg = <<ch.apoc, 2 * x>>]
                    ELSE [y EXCEPT !.cleared = @ \/ (g /\ s = n)]
    BY <1>3, <1>4, <1>22, <2>1
  <2>4. CASE l /\ s \in L
    BY ONLY <2>1, <2>2, <2>3, <2>4
  <2>5. CASE ~(l /\ s \in L)
    BY ONLY <2>1, <2>2, <2>3, <2>5
  <2> QED
    BY ONLY <2>4, <2>5
<1>9. f.ring \in [Slots -> EntryOf]
  <2> SUFFICES ASSUME NEW s \in Slots PROVE f.ring[s] \in EntryOf
    BY <1>8
  <2>2. ring[s] \in EntryOf /\ en \in EntryOf
    BY <1>2
  <2>3. <<ch.apoc, 2 * x>> \in Int \X Int
    BY <1>2
  <2>4. ch.apoc \in Int /\ None \in Int
    BY <1>2 DEF None
  <2>5. CASE s = p
    <3>1. PICK c \in Int : c = IF ~a THEN en.aleg ELSE IF l THEN ch.apoc ELSE None
      BY <2>2, <2>4 DEF EntryOf
    <3>2. f.ring[s] = [fr |-> en.fr, typed |-> TRUE, anchor |-> a, idr |-> z, since |-> x,
                       cleared |-> en.cleared, bleg |-> en.bleg, aleg |-> c]
      BY <1>21, <2>5, <3>1
    <3> QED
      BY ONLY <3>2, <2>2, a \in BOOLEAN, z \in BOOLEAN, x \in Nat, c \in Int DEF EntryOf
  <2>6. CASE s # p
    <3>1. (IF l /\ s \in L THEN ring[s].cleared ELSE ring[s].cleared \/ (g /\ s = n)) \in BOOLEAN
      BY <2>2 DEF EntryOf
    <3>2. (IF l /\ s \in L THEN <<ch.apoc, 2 * x>> ELSE ring[s].bleg) \in {<< >>} \cup (Int \X Int)
      BY <2>2, <2>3 DEF EntryOf
    <3>3. PICK c \in BOOLEAN : c = IF l /\ s \in L THEN ring[s].cleared ELSE ring[s].cleared \/ (g /\ s = n)
      BY <3>1
    <3>4. PICK b \in {<< >>} \cup (Int \X Int) : b = IF l /\ s \in L THEN <<ch.apoc, 2 * x>> ELSE ring[s].bleg
      BY <3>2
    <3>5. f.ring[s] = [fr |-> ring[s].fr, typed |-> ring[s].typed, anchor |-> ring[s].anchor,
                idr |-> ring[s].idr, since |-> ring[s].since, cleared |-> c, bleg |-> b,
                aleg |-> ring[s].aleg]
      BY <1>22, <2>6, <3>3, <3>4
    <3> QED
      BY ONLY <3>5, <2>2, c \in BOOLEAN, b \in {<< >>} \cup (Int \X Int) DEF EntryOf
  <2> QED
    BY <2>5, <2>6
<1>20. f.ch \in Chains /\ f.ch.prev = n /\ f.ch.since = (x + 1) % cfg.keyint
       /\ f.ch.since < cfg.keyint
  <2> PICK y \in Nat : y = (x + 1) % cfg.keyint /\ y < cfg.keyint
    <3> PICK k \in Nat \ {0} : k = cfg.keyint
      BY <1>2
    <3>0. x + 1 \in Int
      OBVIOUS
    <3>1. (x + 1) % k \in 0 .. k - 1
      BY ONLY <3>0, k \in Nat \ {0}, ModRange
    <3> QED
      BY <3>1
  <2>2. f.ch = [prev |-> n, have |-> TRUE, since |-> y,
             brun |-> IF a THEN 0 ELSE ch.brun + 1,
             apoc |-> IF a THEN 2 * x ELSE ch.apoc]
    BY <1>3, <1>5
  <2>3. ch.brun + 1 \in Nat /\ 2 * x \in Int
    BY <1>2
  <2> QED
    BY ONLY <1>2, <2>2, <2>3, y \in Nat, y = (x + 1) % cfg.keyint, y < cfg.keyint, n \in Int DEF Chains
<1>10. ASSUME NEW s \in Slots
       PROVE  /\ f.ring[s].fr = ring[s].fr
              /\ s # p =>
                /\ f.ring[s].typed = ring[s].typed /\ f.ring[s].anchor = ring[s].anchor
                /\ f.ring[s].idr = ring[s].idr /\ f.ring[s].since = ring[s].since
                /\ f.ring[s].aleg = ring[s].aleg
                /\ \/ f.ring[s].bleg = ring[s].bleg
                   \/ s \in L /\ f.ring[s].bleg = <<ch.apoc, 2 * x>>
  <2>1. CASE s = p
    BY ONLY <1>7, <1>21, <2>1
  <2>2. CASE s # p
    <3>1. f.ring[s] = [fr |-> ring[s].fr, typed |-> ring[s].typed, anchor |-> ring[s].anchor,
                idr |-> ring[s].idr, since |-> ring[s].since,
                cleared |-> IF l /\ s \in L THEN ring[s].cleared ELSE ring[s].cleared \/ (g /\ s = n),
                bleg |-> IF l /\ s \in L THEN <<ch.apoc, 2 * x>> ELSE ring[s].bleg,
                aleg |-> ring[s].aleg]
      BY <1>22, <2>2
    <3> QED
      BY ONLY <3>1
  <2> QED
    BY <2>1, <2>2
<1>11. /\ f.ring[p].typed /\ f.ring[p].bleg = ring[p].bleg /\ f.ring[p].anchor = a
  BY ONLY <1>7, <1>21
<1>12. f.ch.brun = IF a THEN 0 ELSE ch.brun + 1
  BY <1>3, <1>5
<1>13. ~a => \/ cfg.badapt /\ ch.brun < cfg.bframes
             \/ ~cfg.badapt /\ x # 0 /\ x = ch.since /\ x % (cfg.bframes + 1) # 0
  BY <1>2 DEF anchor, idr, since
<1>14. a /\ ~cfg.badapt => x = 0 \/ x % (cfg.bframes + 1) = 0
  BY <1>2 DEF anchor, idr
<1>15. f.ch.brun <= cfg.bframes
  <2>1. CASE a
    BY <1>2, <1>12, <2>1
  <2>2. CASE ~a /\ cfg.badapt
    BY <1>2, <1>12, <1>13, <2>2
  <2>3. CASE ~a /\ ~cfg.badapt
    <3> PICK m \in Nat \ {0} : m = cfg.bframes + 1
      BY <1>2
    <3>1. x % m = (ch.brun + 1) % m /\ x % m # 0
      BY <1>13, <2>3 DEF Cadence
    <3>2. ch.brun + 1 # m
      <4> SUFFICES ASSUME ch.brun + 1 = m PROVE FALSE
        OBVIOUS
      <4>1. (0 + m) % m = 0 % m
        BY ModTurn
      <4>2. 0 % m = 0
        OBVIOUS
      <4> QED
        BY <3>1, <4>1, <4>2
    <3> QED
      BY <1>2, <1>12, <2>3, <3>2 DEF Cadence
  <2> QED
    BY <2>1, <2>2, <2>3
<1>16. ~cfg.badapt => f.ch.since = 0 \/
                f.ch.since % (cfg.bframes + 1) = (f.ch.brun + 1) % (cfg.bframes + 1)
  <2> SUFFICES ASSUME ~cfg.badapt, f.ch.since # 0
               PROVE f.ch.since % (cfg.bframes + 1) = (f.ch.brun + 1) % (cfg.bframes + 1)
    OBVIOUS
  <2> PICK m \in Nat \ {0} : m = cfg.bframes + 1
    BY <1>2
  <2>1. x < cfg.keyint
    BY <1>2 DEF since, Cadence
  <2>2. f.ch.since = x + 1
    <3> PICK k \in Nat \ {0} : k = cfg.keyint
      BY <1>2
    <3>1. CASE x + 1 < k
      BY <1>20, <3>1
    <3>2. CASE x + 1 = k
      <4>1. (0 + k) % k = 0 % k
        BY ModTurn
      <4>2. 0 % k = 0
        OBVIOUS
      <4> QED
        BY <1>20, <3>2, <4>1, <4>2
    <3> QED
      BY <2>1, <3>1, <3>2
  <2>3. CASE ~a
    <3>1. x % m = (ch.brun + 1) % m
      BY <1>13, <2>3 DEF Cadence
    <3>2. (x + 1) % m = ((ch.brun + 1) + 1) % m
      <4>1. x \in Int /\ ch.brun + 1 \in Int
        BY <1>2
      <4> QED
        BY ONLY <3>1, <4>1, m \in Nat \ {0}, ModNext, Zenon
    <3> QED
      BY <1>12, <2>2, <2>3, <3>2
  <2>4. CASE a
    <3>1. x % m = 0 % m
      BY <1>14, <2>4
    <3>2. (x + 1) % m = (0 + 1) % m
      <4>1. x \in Int /\ 0 \in Int
        OBVIOUS
      <4> QED
        BY ONLY <3>1, <4>1, m \in Nat \ {0}, ModNext, Zenon
    <3> QED
      BY <1>12, <2>2, <2>4, <3>2
  <2> QED
    BY <2>3, <2>4
<1> QED
  <2>1. ASSUME NEW s \in Slots, s # p
        PROVE  \/ f.ring[s].bleg = ring[s].bleg
               \/ /\ ring[s].typed /\ ~ring[s].anchor
                  /\ \E j \in 1 .. ch.brun : s = At(p, Cap - j)
                  /\ f.ring[s].bleg \in Int \X Int
                  /\ f.ring[s].bleg[1] < Poc(ring[s]) /\ Poc(ring[s]) < f.ring[s].bleg[2]
    <3>1. CASE f.ring[s].bleg = ring[s].bleg
      BY <3>1
    <3>2. CASE s \in L /\ f.ring[s].bleg = <<ch.apoc, 2 * x>>
      <4>1. <<ch.apoc, 2 * x>> \in Int \X Int
        BY <1>2
      <4> QED
        BY <1>6, <3>2, <4>1
    <3> QED
      BY <1>10, <2>1, <3>1, <3>2
  <2> QED
    BY <1>9, <1>20, <1>10, <1>11, <1>12, <1>15, <1>16, <2>1

-----------------------------------------------------------------------------
(* The window of the macroblock tree.                                       *)

\* A non-empty set of naturals has a least element.
LEMMA LeastIn == ASSUME NEW V, V \subseteq Nat, V # {} PROVE \E v \in V : \A w \in V : v <= w
<1>1. PICK v \in V : \A w \in V : ~ (<<w, v>> \in OpToRel(<, Nat))
  BY WFMin, NatLessThanWellFounded
<1>2. ASSUME NEW w \in V PROVE v <= w
  <2>1. w \in Nat /\ v \in Nat
    OBVIOUS
  <2>2. w < v => <<w, v>> \in OpToRel(<, Nat)
    BY <2>1, Zenon DEF OpToRel
  <2>3. ~ (w < v)
    BY <1>1, <2>2, Zenon
  <2> QED
    BY <2>1, <2>3
<1> QED
  BY <1>2

\* The walk's loop passes typed entries only.
LEMMA Reaching ==
  ASSUME NEW h, NEW i \in Nat, NEW hi \in Int, NEW r, r = Reach(h, i, hi)
  PROVE  /\ r \in Int /\ r <= hi
         /\ \A k \in Int : i <= k /\ k < r => ring[At(h, k)].typed
<1> DEFINE stop == {k \in i .. hi - 1 : ~ring[At(h, k)].typed \/ ring[At(h, k)].idr}
<1>1. r = IF stop = {} THEN hi ELSE CHOOSE k \in stop : \A j \in stop : k <= j
  BY DEF Reach
<1>2. CASE stop = {}
  BY <1>1, <1>2
<1>3. CASE stop # {}
  <2>1. stop \subseteq Nat
    OBVIOUS
  <2>2. \E k \in stop : \A j \in stop : k <= j
    <3> HIDE DEF stop
    <3> QED
      BY <1>3, <2>1, LeastIn
  <2>3. r \in stop /\ \A j \in stop : r <= j
    <3> HIDE DEF stop
    <3> QED
      BY <1>1, <1>3, <2>2
  <2>4. r \in Int /\ r <= hi - 1
    BY <2>3
  <2>5. ASSUME NEW k \in Int, i <= k, k < r PROVE ring[At(h, k)].typed
    <3>1. k \notin stop
      <4> HIDE DEF stop
      <4> QED
        BY <2>3, <2>4, <2>5
    <3>2. k \in i .. hi - 1
      BY <2>4, <2>5
    <3> QED
      BY <3>1, <3>2
  <2> QED
    BY <2>4, <2>5
<1> QED
  BY <1>2, <1>3

\* A memo after mbt_pa_source is what it was, valid, or the frame's own.
LEMMA Refreshing ==
  ASSUME NEW m, IsMemo(m), NEW fr, NEW past, NEW fut, NEW seed,
         NEW r, r = Refreshed(m, fr, past, fut, seed)
  PROVE  /\ IsMemo(r) /\ r.valid
         /\ \/ r = m
            \/ r.data[1] = fr /\ r.seed = seed
<1>1. CASE m.valid /\ m.past = past.poc /\ m.fut = fut.poc
  BY <1>1 DEF Refreshed
<1>2. CASE ~(m.valid /\ m.past = past.poc /\ m.fut = fut.poc)
  <2>1. r = [valid |-> TRUE, past |-> past.poc, fut |-> fut.poc,
             data |-> <<fr, past.fr, fut.fr>>, seed |-> seed]
    BY <1>2, Zenon DEF Refreshed
  <2> QED
    BY ONLY <2>1 DEF IsMemo
<1> QED
  BY <1>1, <1>2

LEMMA Leasts == ASSUME NEW a \in Int, NEW b \in Int
                PROVE  Least(a, b) \in {a, b} /\ Least(a, b) <= a /\ Least(a, b) <= b
  BY DEF Least

-----------------------------------------------------------------------------
(* Who moves what.                                                          *)

LEMMA Movers ==
  ASSUME [Next]_vars
  PROVE  /\ cfg' = cfg /\ film' = film
         /\ Push \/ UNCHANGED <<plane, q, pushed>>
         /\ Pop \/ FlushCall \/ UNCHANGED <<pop_seq, la_head, cur>>
         /\ Push \/ Pop \/ FlushCall \/ UNCHANGED la_n
         /\ FlushCall \/ UNCHANGED flushing
         /\ \/ EncodeCall \/ Push \/ Pop \/ PopWait \/ FlushCall \/ TakeB \/ TakeAnchor
            \/ TreeWait \/ WarmJoin \/ Walk \/ WarmLaunch \/ CloseCall \/ Closed
            \/ UNCHANGED apc
         /\ Push \/ TakeB \/ Walk \/ WarmPhaseA \/ UNCHANGED memo
         /\ TakeB \/ TakeAnchor \/ Walk \/ WarmLaunch \/ UNCHANGED bbuf
         /\ ChainAnalyse \/ ChainFinalize \/ TakeTail \/ UNCHANGED ring
         /\ ChainFinalize \/ TakeTail \/ UNCHANGED ch
         /\ ChainPublish \/ UNCHANGED done
         /\ \/ ChainTake \/ ChainAnalyse \/ ChainFinalize \/ ChainPublish \/ ChainExit
            \/ UNCHANGED cpc
         /\ WarmTake \/ WarmWait \/ WarmScan \/ WarmLook \/ WarmPhaseA \/ WarmExit
              \/ UNCHANGED wpc
         /\ WarmWait \/ WarmLook \/ UNCHANGED wi
         /\ WarmJoin \/ WarmLaunch \/ UNCHANGED req
         /\ WarmLaunch \/ UNCHANGED job
         /\ WarmTake \/ WarmScan \/ WarmPhaseA \/ WarmJoin \/ WarmLaunch \/ UNCHANGED mdone
         /\ CloseTree \/ UNCHANGED mexit
         /\ CloseChain \/ UNCHANGED exit
<1> USE DEF api, chain, warm, post
<1>1. CASE UNCHANGED vars
  BY <1>1 DEF vars
<1>2. CASE ChainTake
  BY <1>2 DEF ChainTake
<1>3. CASE ChainAnalyse
  BY <1>3 DEF ChainAnalyse
<1>4. CASE ChainFinalize
  BY <1>4 DEF ChainFinalize
<1>5. CASE ChainPublish
  BY <1>5 DEF ChainPublish
<1>6. CASE ChainExit
  BY <1>6 DEF ChainExit
<1>7. CASE WarmTake
  BY <1>7 DEF WarmTake
<1>8. CASE WarmWait
  BY <1>8 DEF WarmWait
<1>9. CASE WarmScan
  BY <1>9 DEF WarmScan
<1>10. CASE WarmLook
  BY <1>10 DEF WarmLook
<1>11. CASE WarmPhaseA
  BY <1>11 DEF WarmPhaseA
<1>12. CASE WarmExit
  BY <1>12 DEF WarmExit
<1>13. CASE Push
  BY <1>13 DEF Push
<1>14. CASE Pop
  BY <1>14 DEF Pop, Popped
<1>15. CASE PopWait
  BY <1>15 DEF PopWait
<1>16. CASE TakeTail
  BY <1>16 DEF TakeTail
<1>17. CASE TakeB
  BY <1>17 DEF TakeB
<1>18. CASE TakeAnchor
  BY <1>18 DEF TakeAnchor
<1>19. CASE TreeWait
  BY <1>19 DEF TreeWait
<1>20. CASE WarmJoin
  BY <1>20 DEF WarmJoin
<1>21. CASE Walk
  BY <1>21 DEF Walk
<1>22. CASE WarmLaunch
  BY <1>22 DEF WarmLaunch
<1>23. CASE CloseTree
  BY <1>23 DEF CloseTree
<1>24. CASE CloseChain
  BY <1>24 DEF CloseChain
<1>25. CASE Closed
  BY <1>25 DEF Closed
<1>26. CASE EncodeCall
  BY <1>26 DEF EncodeCall
<1>27. CASE FlushCall
  BY <1>27 DEF FlushCall, Popped
<1>28. CASE CloseCall
  BY <1>28 DEF CloseCall
<1>29. CASE Over
  BY <1>1, <1>29 DEF Over
<1> QED
  BY <1>1, <1>2, <1>3, <1>4, <1>5, <1>6, <1>7, <1>8, <1>9, <1>10, <1>11, <1>12, <1>13, <1>14,
     <1>15, <1>16, <1>17, <1>18, <1>19, <1>20, <1>21, <1>22, <1>23, <1>24, <1>25, <1>26, <1>27,
     <1>28, <1>29 DEF Next, ChainStep, WarmStep, ApiStep, Caller

-----------------------------------------------------------------------------
(* The types.                                                               *)

\* The slot that is padded is the next frame's.
LEMMA Numbers ==
  ASSUME TypeOK
  PROVE  /\ cfg \in Shapes /\ pushed \in Nat /\ pop_seq \in Nat /\ la_n \in Nat /\ la_head \in Int
         /\ cur \in Int /\ done \in Nat /\ wi \in Nat /\ Len(bbuf) \in Nat
         /\ ch.brun \in Nat /\ ch.since \in Nat /\ ch.apoc \in Int /\ ch.prev \in Int
         /\ job.head \in Int /\ job.navail \in Nat /\ job.popseq \in Nat /\ job.pushed \in Nat
         /\ flushing \in BOOLEAN /\ req \in BOOLEAN /\ mdone \in BOOLEAN
  BY DEF TypeOK

LEMMA Padded ==
  ASSUME cfg \in Shapes, TypeOK, Counts
  PROVE  PadSlot = Slot(pushed + 1) /\ PadSlot \in Slots /\ PadSlot \in Int
<1>1. pushed + 1 = pop_seq + la_n + 1 /\ pop_seq \in Int /\ la_n \in Int /\ la_head \in Int
      /\ la_head = pop_seq % Cap /\ pushed + 1 \in Int
  BY SMTT(60) DEF TypeOK, Counts
<1>2. PadSlot = Slot(pushed + 1)
  BY <1>1, AtHead DEF PadSlot
<1> QED
  BY <1>1, <1>2, SlotIn

\* The entry the chain is at is its step's.
LEMMA Entered ==
  ASSUME TypeOK, Pace, Slotted, cpc \in {"analyse", "finalize", "publish"}
  PROVE  /\ Entry = Slot(done + 1) /\ plane[Entry] = done + 1 /\ Entry \in Slots /\ Entry \in Int
         /\ done + 1 \in 1 .. pushed /\ done + 1 > pushed - Cap
<1>1. done \in Nat /\ pushed \in Nat /\ cfg \in Shapes /\ done + 1 \in Int
  BY Numbers
<1>2. Cap \in Nat \ {0}
  BY <1>1, Caps
<1>3. done < pushed /\ done >= pushed - Cap
  BY DEF Pace
<1>4. done + 1 \in 1 .. pushed /\ done + 1 > pushed - Cap
  BY <1>1, <1>2, <1>3
<1>5. q[(done + 1) % Cap] = Slot(done + 1) /\ plane[Slot(done + 1)] = done + 1
  BY <1>4 DEF Slotted
<1>6. Slot(done + 1) \in Slots /\ Slot(done + 1) \in Int
  BY <1>1, SlotIn
<1> QED
  BY <1>4, <1>5, <1>6 DEF Entry, Step

\* Clearing the flag leaves a memo.
LEMMA Cleared ==
  ASSUME NEW S, NEW M, M = [s \in S |-> M[s]], \A s \in S : IsMemo(M[s]),
         NEW p \in S, NEW N, N = [M EXCEPT ![p].valid = FALSE]
  PROVE  /\ N = [s \in S |-> N[s]] /\ \A s \in S : IsMemo(N[s])
         /\ ~N[p].valid /\ \A s \in S : s # p => N[s] = M[s]
<1>1. M[p] = [valid |-> M[p].valid, past |-> M[p].past, fut |-> M[p].fut, data |-> M[p].data,
              seed |-> M[p].seed]
  BY DEF IsMemo
<1>2. N[p] = [M[p] EXCEPT !.valid = FALSE]
  OBVIOUS
<1>3. N[p] = [valid |-> FALSE, past |-> M[p].past, fut |-> M[p].fut, data |-> M[p].data,
              seed |-> M[p].seed]
  BY <1>1, <1>2
<1>4. IsMemo(N[p]) /\ ~N[p].valid
  BY ONLY <1>3 DEF IsMemo
<1>5. \A s \in S : s # p => N[s] = M[s]
  OBVIOUS
<1>6. N = [s \in S |-> N[s]]
  OBVIOUS
<1> QED
  BY <1>4, <1>5, <1>6

LEMMA Appended ==
  ASSUME NEW b, Len(b) \in Nat, b = [k \in 1 .. Len(b) |-> b[k]], NEW e,
         NEW c, c = Append(b, e)
  PROVE  /\ Len(c) = Len(b) + 1 /\ Len(c) \in Nat /\ c = [k \in 1 .. Len(c) |-> c[k]]
         /\ c[Len(c)] = e /\ \A k \in 1 .. Len(b) : c[k] = b[k]
<1> DEFINE S == {b[k] : k \in 1 .. Len(b)} \cup {e}
<1>1. b \in [1 .. Len(b) -> S]
  OBVIOUS
<1>2. b \in Seq(S) /\ e \in S
  <2>1. \A n \in Nat : b \in [1 .. n -> S] => b \in Seq(S)
    <3> HIDE DEF S
    <3> QED
      OBVIOUS
  <2> QED
    BY <1>1, <2>1
<1> HIDE DEF S
<1>3. c \in Seq(S) /\ Len(c) = Len(b) + 1 /\ c[Len(b) + 1] = e
      /\ \A k \in 1 .. Len(b) : c[k] = b[k]
  BY ONLY <1>2, c = Append(b, e), AppendProperties
<1>4. c = [k \in 1 .. Len(c) |-> c[k]]
  BY ONLY <1>3
<1> QED
  BY <1>3, <1>4

\* The entry after its analysis.
LEMMA Blanked ==
  ASSUME NEW a, NEW b, NEW y, y = [Blank EXCEPT !.fr = a, !.aleg = b]
  PROVE  y = [fr |-> a, typed |-> FALSE, anchor |-> FALSE, idr |-> FALSE, since |-> 0,
              cleared |-> FALSE, bleg |-> << >>, aleg |-> b]
<1> PICK z : z = Blank
  OBVIOUS
<1>1. z = [fr |-> z.fr, typed |-> z.typed, anchor |-> z.anchor, idr |-> z.idr,
           since |-> z.since, cleared |-> z.cleared, bleg |-> z.bleg, aleg |-> z.aleg]
  BY DEF Blank
<1>2. /\ z.typed = FALSE /\ z.anchor = FALSE /\ z.idr = FALSE /\ z.since = 0
      /\ z.cleared = FALSE /\ z.bleg = << >>
  BY DEF Blank
<1>3. y = [z EXCEPT !.fr = a, !.aleg = b]
  OBVIOUS
<1>4. y = [fr |-> a, typed |-> z.typed, anchor |-> z.anchor, idr |-> z.idr,
           since |-> z.since, cleared |-> z.cleared, bleg |-> z.bleg, aleg |-> b]
  BY ONLY <1>1, <1>3
<1> QED
  BY ONLY <1>2, <1>4

LEMMA TypeKept == ASSUME IInv, [Next]_vars PROVE TypeOK'
<1>m. cfg' = cfg /\ film' = film
  BY Movers
<1>0. TypeOK /\ Counts /\ cfg \in Shapes
  BY DEF IInv, TypeOK
<1>f. Slots' = Slots
  BY <1>m, Fixed
<1>c. Cap \in Nat \ {0} /\ cfg.keyint \in Nat \ {0}
  BY <1>0, Caps
<1>1. apc' \in {"ready", "pad", "pop", "popwait", "take", "treewait", "join", "walk",
                "launch", "close", "closed"}
  BY <1>0, Movers DEF TypeOK, EncodeCall, Push, Pop, PopWait, FlushCall, TakeB, TakeAnchor, TreeWait,
              WarmJoin, Walk, WarmLaunch, CloseCall, Closed
<1>h. At(la_head, 1) \in Int
  <2>1. la_head = pop_seq % Cap /\ pop_seq \in Int /\ pop_seq + 1 \in Int
    BY <1>0, Numbers DEF Counts
  <2>2. At(pop_seq % Cap, 1) = (pop_seq + 1) % Cap /\ (pop_seq + 1) % Cap \in Int
    BY <1>0, <2>1, HeadNext
  <2> QED
    BY ONLY <2>1, <2>2
<1>2. /\ cur' \in Int /\ la_head' \in Int /\ la_n' \in Nat /\ pushed' \in Nat /\ pop_seq' \in Nat
      /\ flushing' \in BOOLEAN
  <2>1. CASE Push
    BY <1>0, <2>1, SMTT(60) DEF TypeOK, Push
  <2>2. CASE Pop
    <3>1. /\ cur' = la_head /\ la_head' = At(la_head, 1) /\ la_n' = la_n - 1
          /\ pop_seq' = pop_seq + 1 /\ UNCHANGED <<pushed, flushing>>
      BY <2>2 DEF Pop, Popped
    <3>2. la_n = Cap
      BY <1>0, <2>2 DEF Pop, Counts
    <3> QED
      BY <1>0, <1>c, <1>h, <3>1, <3>2, Numbers, SMTT(60)
  <2>3. CASE FlushCall
    <3>1. \/ /\ la_n > 0 /\ cur' = la_head /\ la_head' = At(la_head, 1)
             /\ la_n' = la_n - 1 /\ pop_seq' = pop_seq + 1
          \/ cur' = cur /\ la_head' = la_head /\ la_n' = la_n /\ pop_seq' = pop_seq
      BY <2>3 DEF FlushCall, Popped
    <3>2. flushing' \in BOOLEAN /\ pushed' = pushed
      BY <2>3 DEF FlushCall
    <3>3. la_n - 1 \in Int /\ pop_seq + 1 \in Nat /\ (la_n > 0 => la_n - 1 \in Nat)
      BY <1>0, Numbers, SMTT(60)
    <3>4. cur' \in Int /\ la_head' \in Int
      BY <1>0, <1>h, <3>1, Numbers, Zenon
    <3>5. la_n' \in Nat /\ pop_seq' \in Nat
      BY <1>0, <3>1, <3>3, Numbers, Zenon
    <3> QED
      BY <1>0, <3>2, <3>4, <3>5, Numbers
  <2> QED
    BY <1>0, <2>1, <2>2, <2>3, Movers DEF TypeOK
<1>3. plane' \in [Slots -> Nat] /\ q' \in [Slots -> Int]
  <2>1. CASE Push
    <3>1. /\ plane' = [plane EXCEPT ![PadSlot] = pushed + 1]
          /\ q' = [q EXCEPT ![(pushed + 1) % Cap] = PadSlot]
      BY <2>1 DEF Push
    <3>2. pushed + 1 \in Nat /\ PadSlot \in Int
      BY <1>0, Numbers, Padded, SMTT(60)
    <3>3. plane \in [Slots -> Nat] /\ q \in [Slots -> Int]
      BY <1>0 DEF TypeOK
    <3> QED
      BY ONLY <3>1, <3>2, <3>3
  <2> QED
    BY <1>0, <2>1, Movers DEF TypeOK
<1>4. ring' \in [Slots -> EntryOf] /\ ch' \in Chains
  <2>1. CASE ChainAnalyse
    <3>0. ring' = [ring EXCEPT ![Entry] =
                     [Blank EXCEPT !.fr = plane[Entry], !.aleg = ring[Entry].aleg]]
      BY <2>1 DEF ChainAnalyse
    <3>1. Entry \in Slots
      BY <2>1, Entered DEF IInv, ChainAnalyse
    <3>2. plane[Entry] \in Nat /\ ring[Entry].aleg \in Int /\ ring = [s \in Slots |-> ring[s]]
      BY <1>0, <3>1 DEF TypeOK, EntryOf
    <3> PICK e : e = Entry
      OBVIOUS
    <3> PICK y : y = [fr |-> plane[e], typed |-> FALSE, anchor |-> FALSE, idr |-> FALSE,
                      since |-> 0, cleared |-> FALSE, bleg |-> << >>, aleg |-> ring[e].aleg]
      OBVIOUS
    <3>3. y \in EntryOf
      BY <3>2 DEF EntryOf
    <3>5. [Blank EXCEPT !.fr = plane[e], !.aleg = ring[e].aleg] = y
      BY Blanked
    <3>4. ring' = [ring EXCEPT ![e] = y]
      BY <3>0, <3>5
    <3> QED
      BY <1>0, <2>1, <3>3, <3>4, ZenonT(60) DEF TypeOK, ChainAnalyse, Chains
  <2>2. CASE ChainFinalize
    <3>3. Entry \in Int
      BY <2>2, Entered DEF IInv, ChainFinalize
    <3>4. CASE ch.prev = None
      <4>1. ch' = [prev |-> Entry, have |-> ch.have, since |-> ch.since, brun |-> ch.brun,
                   apoc |-> ch.apoc] /\ ring' = ring
        <5>1. PICK y \in Chains : y = ch
          BY <1>0 DEF TypeOK, Chains
        <5>2. y = [prev |-> y.prev, have |-> y.have, since |-> y.since, brun |-> y.brun,
                   apoc |-> y.apoc]
          BY DEF Chains
        <5>3. ch' = [y EXCEPT !.prev = Entry] /\ ring' = ring
          BY <2>2, <3>4, <5>1 DEF ChainFinalize
        <5> QED
          BY ONLY <5>1, <5>2, <5>3
      <4> QED
        BY <1>0, <3>3, <4>1 DEF TypeOK, Chains
    <3>5. CASE ch.prev # None
      <4>1. ch.prev \in Slots
        <5>1. ch.prev = Slot(done) /\ done \in Int
          BY <1>0, <2>2, <3>5 DEF IInv, Charted, ChainFinalize, TypeOK
        <5> QED
          BY <1>0, <5>1, SlotIn
      <4> PICK f : f = Finalized(ch.prev, Entry)
        OBVIOUS
      <4>2. f.ring \in [Slots -> EntryOf] /\ f.ch \in Chains
        BY <1>0, <3>3, <4>1, Finalizing DEF IInv
      <4>3. ring' = f.ring /\ ch' = f.ch
        BY <2>2, <3>5 DEF ChainFinalize
      <4> QED
        BY <4>2, <4>3
    <3> QED
      BY <3>4, <3>5
  <2>3. CASE TakeTail
    <3>1. cur \in Slots
      <4>1. cur = Slot(pop_seq) /\ pop_seq \in Int
        BY <1>0, <2>3, Numbers DEF TakeTail, Counts, InHand
      <4> QED
        BY <1>0, <4>1, SlotIn
    <3> PICK f : f = Finalized(cur, None)
      OBVIOUS
    <3>2. None \in Int
      BY DEF None
    <3>3. f.ring \in [Slots -> EntryOf] /\ f.ch \in Chains
      BY <1>0, <3>1, <3>2, Finalizing DEF IInv
    <3>4. ring' = f.ring /\ ch' = [f.ch EXCEPT !.prev = ch.prev]
      BY <2>3 DEF TakeTail
    <3>5. ch.prev \in Int
      BY <1>0 DEF TypeOK
    <3>6. ch' \in Chains
      BY <3>3, <3>4, <3>5 DEF Chains
    <3> QED
      BY <3>3, <3>4, <3>6
  <2> QED
    BY <1>0, <2>1, <2>2, <2>3, Movers DEF TypeOK, Chains
<1>5. memo' = [s \in Slots |-> memo'[s]] /\ \A s \in Slots : IsMemo(memo'[s])
  <2>1. CASE Push
    <3>1. memo' = [memo EXCEPT ![PadSlot].valid = FALSE] /\ PadSlot \in Slots
      BY <1>0, <2>1, Padded DEF Push
    <3>2. memo = [s \in Slots |-> memo[s]] /\ \A s \in Slots : IsMemo(memo[s])
      BY <1>0 DEF TypeOK
    <3> QED
      BY <3>1, <3>2, Cleared
  <2>2. CASE TakeB
    <3>0. cur \in Slots
      <4>1. cur = Slot(pop_seq) /\ pop_seq \in Int
        BY <1>0, <2>2, Numbers DEF TakeB, Counts, InHand
      <4> QED
        BY <1>0, <4>1, SlotIn
    <3>1. memo' = [memo EXCEPT ![cur].valid = FALSE]
      BY <2>2, Zenon DEF TakeB
    <3>2. memo = [s \in Slots |-> memo[s]] /\ \A s \in Slots : IsMemo(memo[s])
      BY <1>0 DEF TypeOK
    <3> QED
      BY <3>0, <3>1, <3>2, Cleared
  <2>3. CASE Walk
    <3>1. memo' = WindowMemos(memo)
      BY <2>3 DEF Walk
    <3> PICK r : r = Reach(la_head, 0, Least(la_n, wcap))
      OBVIOUS
    <3> PICK A : A = <<[poc |-> Poc(ring[cur]), fr |-> ring[cur].fr]>> \o Anchors(la_head, 0, r)
      OBVIOUS
    <3>2. memo' = [s \in Slots |->
           LET i == (s + Cap - la_head) % Cap
               en == ring[s]
           IN  IF i < r THEN Refreshed(memo[s], en.fr, Past(A, Poc(en)), Future(A, Poc(en)),
                                       Seed(en, i <= SettledOff))
               ELSE memo[s]]
      BY <3>1, Zenon DEF WindowMemos
    <3>3. ASSUME NEW s \in Slots PROVE IsMemo(memo'[s])
      <4>1. \/ memo'[s] = memo[s]
            \/ memo'[s] = Refreshed(memo[s], ring[s].fr, Past(A, Poc(ring[s])),
                                    Future(A, Poc(ring[s])),
                                    Seed(ring[s], (s + Cap - la_head) % Cap <= SettledOff))
        BY <3>2
      <4>2. IsMemo(memo[s])
        BY <1>0 DEF TypeOK
      <4> QED
        BY <4>1, <4>2, Refreshing
    <3>4. memo' = [s \in Slots |-> memo'[s]]
      BY ONLY <3>2
    <3> QED
      BY <3>3, <3>4
  <2>4. CASE WarmPhaseA
    <3> PICK settled : settled = Lim - 2 - cfg.bframes
      OBVIOUS
    <3> PICK h : h = job.head
      OBVIOUS
    <3> PICK r : r = Reach(h, wi + 1, Least(Lim, wi + wcap + 1))
      OBVIOUS
    <3> PICK A : A = <<[poc |-> wpoc, fr |-> ring[At(h, wi)].fr]>> \o Anchors(h, wi + 1, r)
      OBVIOUS
    <3>2. memo' = [s \in Slots |->
           LET i == (s + Cap - h) % Cap
               en == ring[s]
           IN  IF i > wi /\ i < r /\ i >= lo /\ i <= WarmBound(settled)
               THEN Refreshed(memo[s], en.fr, Past(A, Poc(en)), Future(A, Poc(en)),
                              Seed(en, i <= settled))
               ELSE memo[s]]
      BY <2>4, Zenon DEF WarmPhaseA
    <3>3. ASSUME NEW s \in Slots PROVE IsMemo(memo'[s])
      <4>1. \/ memo'[s] = memo[s]
            \/ memo'[s] = Refreshed(memo[s], ring[s].fr, Past(A, Poc(ring[s])),
                                    Future(A, Poc(ring[s])),
                                    Seed(ring[s], (s + Cap - h) % Cap <= settled))
        BY <3>2
      <4>2. IsMemo(memo[s])
        BY <1>0 DEF TypeOK
      <4> QED
        BY <4>1, <4>2, Refreshing
    <3>4. memo' = [s \in Slots |-> memo'[s]]
      BY ONLY <3>2
    <3> QED
      BY <3>3, <3>4
  <2> QED
    BY <1>0, <2>1, <2>2, <2>3, <2>4, Movers DEF TypeOK
<1>6. /\ Len(bbuf') \in Nat /\ bbuf' = [k \in 1 .. Len(bbuf') |-> bbuf'[k]]
      /\ \A k \in 1 .. Len(bbuf') : IsStash(bbuf'[k])
  <2>e. /\ Len(<< >>) \in Nat /\ << >> = [k \in 1 .. Len(<< >>) |-> << >>[k]]
        /\ \A k \in 1 .. Len(<< >>) : IsStash(<< >>[k])
    OBVIOUS
  <2>1. CASE TakeB
    <3> PICK e : e = [poc |-> Poc(ring[cur]), fr |-> ring[cur].fr, memo |-> memo[cur],
                      plain |-> plain[cur],
                      seed |-> IF ring[cur].bleg # << >> /\ ring[cur].bleg[1] < Poc(ring[cur])
                                    /\ Poc(ring[cur]) < ring[cur].bleg[2]
                               THEN ring[cur].bleg ELSE << >>]
      OBVIOUS
    <3>1. bbuf' = Append(bbuf, e)
      BY <2>1, Zenon DEF TakeB
    <3>2. IsStash(e)
      BY DEF IsStash
    <3>3. Len(bbuf) \in Nat /\ bbuf = [k \in 1 .. Len(bbuf) |-> bbuf[k]]
          /\ \A k \in 1 .. Len(bbuf) : IsStash(bbuf[k])
      BY <1>0 DEF TypeOK
    <3>4. /\ Len(bbuf') = Len(bbuf) + 1 /\ Len(bbuf') \in Nat
          /\ bbuf' = [k \in 1 .. Len(bbuf') |-> bbuf'[k]]
          /\ bbuf'[Len(bbuf')] = e /\ \A k \in 1 .. Len(bbuf) : bbuf'[k] = bbuf[k]
      BY <3>1, <3>3, Appended
    <3>5. ASSUME NEW k \in 1 .. Len(bbuf') PROVE IsStash(bbuf'[k])
      <4>1. k \in 1 .. Len(bbuf) \/ k = Len(bbuf')
        BY <3>3, <3>4
      <4> QED
        BY <3>2, <3>3, <3>4, <4>1
    <3> QED
      BY <3>4, <3>5
  <2>2. CASE TakeAnchor
    <3>1. bbuf' = << >> \/ bbuf' = bbuf
      BY <2>2 DEF TakeAnchor
    <3> QED
      BY <1>0, <2>e, <3>1 DEF TypeOK
  <2>3. CASE Walk
    <3>1. bbuf' = [k \in DOMAIN bbuf |-> [bbuf[k] EXCEPT !.memo = BufferMemo(@, bbuf[k]),
                                                         !.plain = BufferMemo(@, bbuf[k])]]
      BY <2>3 DEF Walk
    <3>2. Len(bbuf) \in Nat /\ DOMAIN bbuf = 1 .. Len(bbuf)
      BY <1>0 DEF TypeOK
    <3>3. DOMAIN bbuf' = 1 .. Len(bbuf)
      BY <3>1, <3>2
    <3>4. Len(bbuf') = Len(bbuf)
      BY ONLY <3>2, <3>3, LenProperties, Len(bbuf) \in Nat
    <3>5. ASSUME NEW k \in 1 .. Len(bbuf) PROVE IsStash(bbuf'[k])
      <4>1. IsStash(bbuf[k])
        BY <1>0 DEF TypeOK
      <4>2. bbuf'[k] = [bbuf[k] EXCEPT !.memo = BufferMemo(@, bbuf[k]),
                                       !.plain = BufferMemo(@, bbuf[k])]
        BY <3>1, <3>2
      <4> PICK m, p : m = BufferMemo(bbuf[k].memo, bbuf[k]) /\ p = BufferMemo(bbuf[k].plain, bbuf[k])
        OBVIOUS
      <4>3. bbuf'[k] = [bbuf[k] EXCEPT !.memo = m, !.plain = p]
        BY <4>2
      <4> QED
        BY ONLY <4>1, <4>3 DEF IsStash
    <3> QED
      BY <3>1, <3>2, <3>3, <3>4, <3>5
  <2>4. CASE WarmLaunch
    <3>1. bbuf' = << >>
      BY <2>4 DEF WarmLaunch
    <3> QED
      BY <2>e, <3>1
  <2> QED
    BY <1>0, <2>1, <2>2, <2>3, <2>4, Movers DEF TypeOK
<1>7. cpc' \in {"idle", "analyse", "finalize", "publish", "gone"} /\ done' \in Nat
  BY <1>0, Movers, SMTT(60) DEF TypeOK, ChainTake, ChainAnalyse, ChainFinalize, ChainPublish, ChainExit, Step
<1>8. wpc' \in {"idle", "wait", "scan", "look", "phaseA", "gone"}
  BY <1>0, Movers, Zenon DEF TypeOK, WarmTake, WarmWait, WarmScan, WarmLook, WarmPhaseA, WarmExit
<1>11. wi' \in Nat
  <2>1. ASSUME WarmWait PROVE wi' = 0
    BY <2>1 DEF WarmWait
  <2>2. ASSUME WarmLook PROVE wi' = wi \/ wi' = wi + 1
    BY <2>2 DEF WarmLook
  <2> QED
    BY <1>0, <2>1, <2>2, Movers, Numbers, SMTT(60)
<1>9. job' \in [head : Int, navail : Nat, popseq : Nat, pushed : Nat]
  <2>1. CASE WarmLaunch
    BY <1>0, <2>1, Numbers DEF WarmLaunch
  <2> QED
    BY <1>0, <2>1, Movers DEF TypeOK
<1>10. req' \in BOOLEAN /\ mdone' \in BOOLEAN /\ mexit' \in BOOLEAN /\ exit' \in BOOLEAN
  BY <1>0, Movers DEF TypeOK, WarmJoin, WarmLaunch, WarmTake, WarmScan, WarmPhaseA, CloseTree, CloseChain
<1> QED
  BY <1>0, <1>m, <1>f, <1>1, <1>2, <1>3, <1>4, <1>5, <1>6, <1>7, <1>8, <1>9, <1>10, <1>11 DEF TypeOK, Chains

-----------------------------------------------------------------------------
(* The counts.                                                              *)

LEMMA Beginning == Init => IInv
<1> SUFFICES ASSUME Init PROVE IInv
  OBVIOUS
<1> USE DEF Init
<1>1. cfg \in Shapes /\ film \in Films
  OBVIOUS
<1>2. /\ Cap \in Nat \ {0} /\ Cap >= cfg.depth /\ cfg.depth \in Nat
      /\ cfg.depth >= cfg.bframes + 3 /\ cfg.bframes \in Nat
      /\ cfg.keyint \in Nat \ {0} /\ cfg.scmin \in Nat /\ cfg.badapt \in BOOLEAN
  BY <1>1, Caps
<1>3. Blank \in EntryOf /\ Blank.bleg = << >>
  BY DEF Blank, EntryOf, None
<1>4. IsMemo(NoMemo) /\ ~NoMemo.valid
  BY DEF NoMemo, IsMemo
<1>5. 0 % Cap = 0
  BY <1>2
<1>6. TypeOK
  <2>1. ch \in [prev : Int, have : BOOLEAN, since : Nat, brun : Nat, apoc : Int]
    BY DEF None
  <2>2. job \in [head : Int, navail : Nat, popseq : Nat, pushed : Nat]
    OBVIOUS
  <2>3. ring \in [Slots -> EntryOf] /\ plane \in [Slots -> Nat] /\ q \in [Slots -> Int]
    BY <1>3 DEF None
  <2>4. memo = [s \in Slots |-> memo[s]] /\ \A s \in Slots : IsMemo(memo[s])
    BY <1>4
  <2>5. /\ Len(bbuf) \in Nat /\ bbuf = [k \in 1 .. Len(bbuf) |-> bbuf[k]]
        /\ \A k \in 1 .. Len(bbuf) : IsStash(bbuf[k])
    OBVIOUS
  <2>6. cur \in Int
    BY DEF None
  <2> QED
    BY <1>1, <2>1, <2>2, <2>3, <2>4, <2>5, <2>6 DEF TypeOK
<1>7. Counts
  BY <1>2, <1>5 DEF Counts, InHand
<1>8. Pace
  BY <1>2 DEF Pace, Taken, Untaken
<1>9. Slotted
  BY DEF Slotted
<1>10. Charted
  BY <1>3 DEF Charted, Analysed, Final
<1>11. Cadence
  BY <1>2 DEF Cadence
<1>12. Runs
  <2>1. Taken = 0 /\ Base = 0 /\ Final = 0
    BY DEF Taken, Untaken, Base, Final
  <2>2. ch.brun = 0 /\ Len(bbuf) = 0
    OBVIOUS
  <2>3. LastRun
    BY <2>1, <2>2 DEF LastRun
  <2> QED
    BY <1>2, <2>1, <2>2, <2>3 DEF Runs
<1>13. Ahead
  BY DEF Ahead
<1>14. Remembered
  <2>1. \A s \in Slots : ~memo[s].valid
    BY <1>4
  <2> QED
    BY <2>1 DEF Remembered
<1>15. Kept
  BY DEF Kept
<1> QED
  BY <1>6, <1>7, <1>8, <1>9, <1>10, <1>11, <1>12, <1>13, <1>14, <1>15 DEF IInv

\* What each step of the API thread does to the window's counters and to the
\* frame in hand.
LEMMA CountsKept == ASSUME IInv, [Next]_vars PROVE Counts'
<1>0. Counts /\ TypeOK /\ cfg \in Shapes /\ cfg' = cfg
  BY Movers DEF IInv, TypeOK
<1>1. Cap' = Cap /\ Cap \in Nat \ {0} /\ cfg.bframes \in Nat /\ Cap >= 3
  BY <1>0, Fixed, Caps
<1>2. \A s : Slot(s)' = Slot(s)
  BY <1>0, Fixed
<1>3. /\ pushed \in Nat /\ pop_seq \in Nat /\ la_n \in Nat /\ flushing \in BOOLEAN
      /\ pop_seq \in Int
  BY <1>0, Numbers
<1>4. At(la_head, 1) = (pop_seq + 1) % Cap /\ la_head = Slot(pop_seq + 1)
  BY <1>0, <1>3, HeadNext DEF Counts
<1>5. CASE Push
  <2>1. /\ apc = "pad" /\ la_n' = la_n + 1 /\ pushed' = pushed + 1 /\ pop_seq' = pop_seq
        /\ la_head' = la_head /\ flushing' = flushing /\ cur' = cur
        /\ apc' = IF Filling THEN "ready" ELSE "pop"
    BY <1>5 DEF Push, api
  <2> QED
    BY <1>0, <1>1, <1>2, <1>3, <2>1 DEF Counts, InHand, Filling
<1>6. CASE Pop
  <2>1. /\ apc = "pop" /\ la_n' = la_n - 1 /\ pushed' = pushed /\ pop_seq' = pop_seq + 1
        /\ la_head' = At(la_head, 1) /\ flushing' = flushing /\ cur' = la_head
        /\ apc' = "popwait"
    BY <1>6 DEF Pop, Popped
  <2>2. la_head' = pop_seq' % Cap' /\ cur' = Slot(pop_seq)'
    BY <1>1, <1>2, <1>4, <2>1
  <2>3. /\ pushed' = pop_seq' + la_n' /\ la_n' = Cap' - 1 /\ ~flushing' /\ pop_seq' > 0
    BY <1>0, <1>1, <1>3, <2>1 DEF Counts
  <2> QED
    BY <1>1, <2>1, <2>2, <2>3 DEF Counts
<1>7. CASE FlushCall /\ la_n > 0
  <2>1. /\ apc = "ready" /\ la_n' = la_n - 1 /\ pushed' = pushed /\ pop_seq' = pop_seq + 1
        /\ la_head' = At(la_head, 1) /\ flushing' = TRUE /\ cur' = la_head
        /\ apc' = "take"
    BY <1>7 DEF FlushCall, Popped
  <2>2. la_head' = pop_seq' % Cap' /\ cur' = Slot(pop_seq)'
    BY <1>1, <1>2, <1>4, <2>1
  <2>3. /\ pushed' = pop_seq' + la_n' /\ la_n' < Cap' /\ pop_seq' > 0
    BY <1>0, <1>1, <1>3, <2>1 DEF Counts
  <2> QED
    BY <1>1, <2>1, <2>2, <2>3 DEF Counts
<1>8. CASE FlushCall /\ ~(la_n > 0)
  <2>1. /\ apc = "ready" /\ la_n' = la_n /\ pushed' = pushed /\ pop_seq' = pop_seq
        /\ la_head' = la_head /\ flushing' = TRUE /\ cur' = cur /\ apc' = apc
    BY <1>8 DEF FlushCall
  <2> QED
    BY <1>0, <1>1, <1>3, <2>1 DEF Counts, InHand
<1>9. CASE ~Push /\ ~Pop /\ ~FlushCall
  <2>1. /\ la_n' = la_n /\ pushed' = pushed /\ pop_seq' = pop_seq
        /\ la_head' = la_head /\ flushing' = flushing /\ cur' = cur
    BY <1>9, Movers
  <2>2. \/ apc' = apc
        \/ apc = "ready" /\ apc' = "pad" /\ ~flushing
        \/ apc = "ready" /\ apc' \in {"close", "closed"}
        \/ apc = "close" /\ apc' = "closed"
        \/ InHand /\ apc' \in {"take", "treewait", "join", "walk", "launch", "ready"}
    BY <1>9, Movers DEF EncodeCall, PopWait, TakeB, TakeAnchor, TreeWait, WarmJoin, Walk,
       WarmLaunch, CloseCall, Closed, InHand
  <2> QED
    BY <1>0, <1>1, <1>2, <1>3, <2>1, <2>2 DEF Counts, InHand
<1> QED
  BY <1>5, <1>6, <1>7, <1>8, <1>9

-----------------------------------------------------------------------------
(* The chain's pace.                                                        *)

\* A wait returns when the step is over, or everything pushed is.
LEMMA Waits ==
  ASSUME NEW need \in Int, done \in Int, pushed \in Int, Waited(need)
  PROVE  (need <= pushed => done >= need) /\ (pushed <= need => done >= pushed)
  BY DEF Waited, Least

LEMMA PaceKept == ASSUME IInv, [Next]_vars PROVE Pace'
<1>0. Counts /\ Pace /\ TypeOK /\ cfg \in Shapes /\ cfg' = cfg
  BY Movers DEF IInv, TypeOK
<1>1. Cap' = Cap /\ Cap \in Nat \ {0} /\ cfg.bframes \in Nat /\ Cap >= cfg.depth
      /\ cfg.depth \in Nat /\ cfg.depth >= cfg.bframes + 3
  BY <1>0, Fixed, Caps
<1>2. /\ pushed \in Nat /\ pop_seq \in Nat /\ la_n \in Nat /\ flushing \in BOOLEAN /\ done \in Nat
  BY <1>0, Numbers
<1>3. /\ pushed = pop_seq + la_n
      /\ pop_seq > 0 /\ ~flushing => la_n >= Cap - 1
      /\ apc = "popwait" => la_n = Cap - 1 /\ ~flushing
      /\ InHand => pop_seq > 0
  BY <1>0 DEF Counts
<1>4. CASE Push
  <2>1. /\ apc = "pad" /\ pushed' = pushed + 1 /\ pop_seq' = pop_seq
        /\ flushing' = flushing /\ cpc' = cpc /\ done' = done
        /\ apc' \in {"ready", "pop"}
    BY <1>4 DEF Push, api, chain
  <2> QED
    BY <1>0, <1>1, <1>2, <2>1 DEF Counts, Pace, Taken, Untaken
<1>5. CASE Pop
  <2>1. /\ apc = "pop" /\ pushed' = pushed /\ pop_seq' = pop_seq + 1
        /\ flushing' = flushing /\ cpc' = cpc /\ done' = done /\ apc' = "popwait"
    BY <1>5 DEF Pop, Popped, chain
  <2> QED
    BY <1>0, <1>1, <1>2, <2>1 DEF Counts, Pace, Taken, Untaken
<1>6. CASE FlushCall
  <2>1. /\ apc = "ready" /\ pushed' = pushed /\ pop_seq' \in {pop_seq, pop_seq + 1}
        /\ flushing' = TRUE /\ cpc' = cpc /\ done' = done /\ apc' \in {"ready", "take"}
        /\ Waited(pushed)
    BY <1>6 DEF FlushCall, Popped, chain
  <2>2. done >= pushed
    BY <1>2, <2>1, Waits
  <2> QED
    BY <1>0, <1>1, <1>2, <2>1, <2>2 DEF Counts, Pace, Taken, Untaken
<1>7. CASE EncodeCall
  <2>1. /\ apc = "ready" /\ pushed' = pushed /\ pop_seq' = pop_seq
        /\ flushing' = flushing /\ cpc' = cpc /\ done' = done /\ apc' = "pad"
        /\ Waited(pushed + 1 - Cap)
    BY <1>7 DEF EncodeCall, chain
  <2>2. pushed + 1 - Cap \in Int
    BY <1>1, <1>2
  <2>3. done >= pushed + 1 - Cap
    BY <1>1, <1>2, <2>1, <2>2, Waits
  <2> QED
    BY <1>0, <1>1, <1>2, <2>1, <2>3 DEF Pace, Taken, Untaken
<1>8. CASE PopWait
  <2>1. /\ apc = "popwait" /\ pushed' = pushed /\ pop_seq' = pop_seq
        /\ flushing' = flushing /\ cpc' = cpc /\ done' = done /\ apc' = "take"
        /\ Waited(PopNeed)
    BY <1>8 DEF PopWait, chain
  <2>2. PopNeed \in Int /\ PopNeed = pop_seq + cfg.bframes + 2
    BY <1>1, <1>2 DEF PopNeed
  <2>3. done >= pop_seq + cfg.bframes + 2
    BY <1>1, <1>2, <1>3, <2>1, <2>2, Waits
  <2> QED
    BY <1>0, <1>1, <1>2, <2>1, <2>3 DEF Pace, Taken, Untaken
<1>9. CASE TreeWait
  <2>1. /\ apc = "treewait" /\ pushed' = pushed /\ pop_seq' = pop_seq
        /\ flushing' = flushing /\ cpc' = cpc /\ done' = done /\ apc' = "join"
        /\ Waited(TreeNeed)
    BY <1>9 DEF TreeWait, chain
  <2>2. TreeNeed \in Int /\ TreeNeed = pop_seq + cfg.depth - 1
    BY <1>1, <1>2 DEF TreeNeed
  <2>3. ~flushing => done >= pop_seq + cfg.depth - 1
    BY <1>1, <1>2, <1>3, <2>1, <2>2, Waits DEF InHand
  <2> QED
    BY <1>0, <1>1, <1>2, <2>1, <2>3 DEF Pace, Taken, Untaken
<1>10. CASE ChainPublish
  <2>1. /\ cpc = "publish" /\ cpc' = "idle" /\ done' = done + 1
        /\ apc' = apc /\ pushed' = pushed /\ pop_seq' = pop_seq /\ flushing' = flushing
    BY <1>10 DEF ChainPublish, api, Step
  <2> QED
    BY <1>0, <1>1, <1>2, <2>1 DEF Pace, Taken, Untaken
<1>11. CASE ~Push /\ ~Pop /\ ~FlushCall /\ ~EncodeCall /\ ~PopWait /\ ~TreeWait /\ ~ChainPublish
  <2>1. pushed' = pushed /\ pop_seq' = pop_seq /\ flushing' = flushing /\ done' = done
    BY <1>11, Movers
  <2>2. \/ apc' = apc
        \/ apc = "take" /\ apc' \in {"ready", "treewait"}
        \/ apc = "join" /\ apc' = "walk"
        \/ apc = "walk" /\ apc' = "launch"
        \/ apc = "launch" /\ apc' = "ready"
        \/ apc \in {"ready", "close"} /\ apc' \in {"close", "closed"}
    BY <1>11, Movers DEF TakeB, TakeAnchor, WarmJoin, Walk, WarmLaunch, CloseCall, Closed
  <2>3. \/ cpc' = cpc
        \/ cpc = "idle" /\ done < pushed
        \/ cpc \in {"analyse", "finalize"}
        \/ cpc' = "gone"
    BY <1>11, Movers DEF ChainTake, ChainAnalyse, ChainFinalize, ChainExit
  <2> QED
    BY <1>0, <1>1, <1>2, <1>3, <2>1, <2>2, <2>3 DEF Pace, Taken, Untaken
<1> QED
  BY <1>4, <1>5, <1>6, <1>7, <1>8, <1>9, <1>10, <1>11

\* The next frame's place in the queue, and its plane.
LEMMA SlottedKept == ASSUME IInv, [Next]_vars PROVE Slotted'
<1>0. Counts /\ Slotted /\ TypeOK /\ cfg \in Shapes /\ cfg' = cfg
  BY Movers DEF IInv, TypeOK
<1>1. Cap' = Cap /\ Cap \in Nat \ {0} /\ Slots' = Slots
  BY <1>0, Fixed, Caps
<1>2. \A s : Slot(s)' = Slot(s)
  BY <1>0, Fixed
<1>3. pushed \in Nat
  BY <1>0, Numbers
<1>4. CASE ~Push
  <2>1. q' = q /\ plane' = plane /\ pushed' = pushed
    BY <1>4, Movers
  <2> QED
    BY <1>0, <1>1, <1>2, <2>1 DEF Slotted
<1>5. CASE Push
  <2>1. /\ plane' = [plane EXCEPT ![PadSlot] = pushed + 1]
        /\ q' = [q EXCEPT ![(pushed + 1) % Cap] = PadSlot] /\ pushed' = pushed + 1
    BY <1>5 DEF Push
  <2>2. PadSlot = Slot(pushed + 1) /\ PadSlot \in Slots
    BY <1>0, Padded
  <2>3. (pushed + 1) % Cap \in Slots /\ pushed + 1 \in Int
    BY <1>0, <1>3, QueueIn
  <2>4. plane \in [Slots -> Nat] /\ q \in [Slots -> Int]
    BY <1>0 DEF TypeOK
  <2>5. q'[(pushed + 1) % Cap] = Slot(pushed + 1) /\ plane'[Slot(pushed + 1)] = pushed + 1
    BY <2>1, <2>2, <2>3, <2>4
  <2>6. ASSUME NEW s \in 1 .. pushed, s > pushed' - Cap
        PROVE  q'[s % Cap] = Slot(s) /\ plane'[Slot(s)] = s
    <3>1. s \in Int /\ s < pushed + 1 /\ pushed + 1 < s + Cap /\ s > pushed - Cap
      BY <1>1, <1>3, <2>1, <2>6
    <3>2. q[s % Cap] = Slot(s) /\ plane[Slot(s)] = s
      BY <1>0, <3>1 DEF Slotted
    <3>3. s % Cap # (pushed + 1) % Cap /\ Slot(s) # Slot(pushed + 1)
      BY <1>0, <2>3, <3>1, QueueApart, SlotApart
    <3>4. s % Cap \in Slots /\ Slot(s) \in Slots
      BY <1>0, <3>1, QueueIn, SlotIn
    <3> QED
      BY <2>1, <2>2, <2>4, <3>2, <3>3, <3>4
  <2>7. ASSUME NEW s \in 1 .. pushed', s > pushed' - Cap
        PROVE  q'[s % Cap] = Slot(s) /\ plane'[Slot(s)] = s
    <3>1. s \in 1 .. pushed \/ s = pushed + 1
      BY <1>3, <2>1
    <3> QED
      BY <2>5, <2>6, <2>7, <3>1
  <2> QED
    BY <1>1, <1>2, <2>7 DEF Slotted
<1> QED
  BY <1>4, <1>5

\* The chain's counts, by Finalizing.
LEMMA CadenceKept == ASSUME IInv, [Next]_vars PROVE Cadence'
<1>0. Counts /\ Cadence /\ TypeOK /\ cfg \in Shapes /\ cfg' = cfg /\ Charted
  BY Movers DEF IInv, TypeOK
<1>1. CASE ChainFinalize /\ ch.prev # None
  <2>1. ch.prev \in Slots /\ Entry \in Int
    <3>1. ch.prev = Slot(done) /\ done \in Int /\ Entry \in Int
      BY <1>0, <1>1, Numbers, Entered DEF Charted, ChainFinalize, IInv
    <3> QED
      BY <1>0, <3>1, SlotIn
  <2> PICK f : f = Finalized(ch.prev, Entry)
    OBVIOUS
  <2>2. /\ f.ch.brun <= cfg.bframes /\ f.ch.since < cfg.keyint
        /\ ~cfg.badapt => f.ch.since = 0 \/
                f.ch.since % (cfg.bframes + 1) = (f.ch.brun + 1) % (cfg.bframes + 1)
    BY <1>0, <2>1, Finalizing
  <2>3. ch' = f.ch
    BY <1>1 DEF ChainFinalize
  <2> QED
    BY <1>0, <2>2, <2>3 DEF Cadence
<1>2. CASE ChainFinalize /\ ch.prev = None
  <2>1. ch' = [ch EXCEPT !.prev = Entry]
    BY <1>2 DEF ChainFinalize
  <2>2. ch'.brun = ch.brun /\ ch'.since = ch.since
    BY <2>1
  <2> QED
    BY <1>0, <2>2 DEF Cadence
<1>3. CASE TakeTail
  <2>1. cur \in Slots /\ None \in Int
    <3>1. cur = Slot(pop_seq) /\ pop_seq \in Int
      BY <1>0, <1>3, Numbers DEF TakeTail, Counts, InHand
    <3> QED
      BY <1>0, <3>1, SlotIn DEF None
  <2> PICK f : f = Finalized(cur, None)
    OBVIOUS
  <2>2. /\ f.ch.brun <= cfg.bframes /\ f.ch.since < cfg.keyint
        /\ ~cfg.badapt => f.ch.since = 0 \/
                f.ch.since % (cfg.bframes + 1) = (f.ch.brun + 1) % (cfg.bframes + 1)
    BY <1>0, <2>1, Finalizing
  <2>3. ch' = [f.ch EXCEPT !.prev = ch.prev]
    BY <1>3 DEF TakeTail
  <2>4. ch'.brun = f.ch.brun /\ ch'.since = f.ch.since
    BY <2>3
  <2> QED
    BY <1>0, <2>2, <2>4 DEF Cadence
<1>4. CASE ~ChainFinalize /\ ~TakeTail
  <2>1. ch' = ch
    BY <1>4, Movers
  <2> QED
    BY <1>0, <2>1 DEF Cadence
<1> QED
  BY <1>1, <1>2, <1>3, <1>4

-----------------------------------------------------------------------------
(* The entries.                                                             *)

\* Frame p gets its type, and the B's it closes their legs.
Typing(p) ==
    /\ \A s \in Slots : ring'[s].fr = ring[s].fr
    /\ \A s \in Slots : s # Slot(p) =>
         /\ ring'[s].typed = ring[s].typed /\ ring'[s].anchor = ring[s].anchor
         /\ ring'[s].idr = ring[s].idr /\ ring'[s].since = ring[s].since
         /\ ring'[s].aleg = ring[s].aleg
         /\ \/ ring'[s].bleg = ring[s].bleg
            \/ /\ ring[s].typed /\ ~ring[s].anchor
               /\ \E j \in 1 .. ch.brun : s = Slot(p - j)
               /\ ring'[s].bleg[1] < Poc(ring[s]) /\ Poc(ring[s]) < ring'[s].bleg[2]
    /\ ring'[Slot(p)].typed /\ ring'[Slot(p)].bleg = ring[Slot(p)].bleg
    /\ ch'.brun = IF ring'[Slot(p)].anchor THEN 0 ELSE ch.brun + 1
    /\ ch'.brun <= cfg.bframes

LEMMA TypingBy ==
  ASSUME IInv, NEW p \in Int, NEW n \in Int, NEW f, f = Finalized(Slot(p), n),
         ring' = f.ring, ch'.brun = f.ch.brun
  PROVE  Typing(p)
<1>0. TypeOK /\ Cadence /\ cfg \in Shapes
  BY DEF IInv, TypeOK
<1>1. Slot(p) \in Slots
  BY <1>0, SlotIn
<1>2. /\ \A s \in Slots : f.ring[s].fr = ring[s].fr
      /\ \A s \in Slots : s # Slot(p) =>
              /\ f.ring[s].typed = ring[s].typed /\ f.ring[s].anchor = ring[s].anchor
              /\ f.ring[s].idr = ring[s].idr /\ f.ring[s].since = ring[s].since
              /\ f.ring[s].aleg = ring[s].aleg
              /\ \/ f.ring[s].bleg = ring[s].bleg
                 \/ /\ ring[s].typed /\ ~ring[s].anchor
                    /\ \E j \in 1 .. ch.brun : s = At(Slot(p), Cap - j)
                    /\ f.ring[s].bleg[1] < Poc(ring[s]) /\ Poc(ring[s]) < f.ring[s].bleg[2]
      /\ f.ring[Slot(p)].typed /\ f.ring[Slot(p)].bleg = ring[Slot(p)].bleg
      /\ f.ch.brun = IF f.ring[Slot(p)].anchor THEN 0 ELSE ch.brun + 1
      /\ f.ch.brun <= cfg.bframes
  BY <1>0, <1>1, Finalizing
<1>3. \A j \in 1 .. ch.brun : At(Slot(p), Cap - j) = Slot(p - j)
  <2> TAKE j \in 1 .. ch.brun
  <2>1. j \in Int
    OBVIOUS
  <2> QED
    BY <1>0, <2>1, AtBack
<1> QED
  BY <1>2, <1>3 DEF Typing

\* The chain types the frame before its step's; a tail is typed when the chain
\* has nothing left to do, and is the last frame.
LEMMA ChainTypes ==
  ASSUME IInv, ChainFinalize, ch.prev # None
  PROVE  /\ done > 0 /\ Typing(done) /\ ch'.prev = Entry /\ ~flushing
<1>0. TypeOK /\ Pace /\ Slotted /\ Charted /\ cpc = "finalize"
  BY DEF IInv, ChainFinalize
<1>1. done \in Nat /\ pushed \in Nat /\ flushing \in BOOLEAN
  BY <1>0, Numbers
<1>2. ~flushing /\ done > 0 /\ ch.prev = Slot(done)
  BY <1>0, <1>1 DEF Pace, Charted
<1>3. Entry \in Int /\ done \in Int
  BY <1>0, <1>1, Entered
<1> PICK f : f = Finalized(Slot(done), Entry)
  OBVIOUS
<1>4. ring' = f.ring /\ ch' = f.ch
  BY <1>2 DEF ChainFinalize
<1>5. f.ch.prev = Entry
  <2>1. Slot(done) \in Slots
    BY <1>0, <1>3, SlotIn, Numbers
  <2> QED
    BY <1>0, <1>3, <2>1, Finalizing DEF IInv
<1> QED
  BY <1>2, <1>3, <1>4, <1>5, TypingBy

LEMMA AtTail ==
  ASSUME IInv, apc = "take", ~ring[cur].typed
  PROVE  /\ flushing /\ pop_seq = done /\ pop_seq = pushed /\ done > 0
         /\ cur = Slot(done) /\ cpc \in {"idle", "gone"}
<1>0. TypeOK /\ Counts /\ Pace /\ Charted /\ apc = "take" /\ ~ring[cur].typed /\ cfg \in Shapes
  BY DEF IInv, TypeOK
<1>1. /\ done \in Nat /\ pushed \in Nat /\ flushing \in BOOLEAN /\ pop_seq \in Nat /\ la_n \in Nat
      /\ Cap \in Nat \ {0} /\ cfg.bframes \in Nat
  BY <1>0, Numbers, Caps
<1>2. cur = Slot(pop_seq) /\ pop_seq > 0 /\ pushed = pop_seq + la_n /\ la_n < Cap
  BY <1>0 DEF Counts, InHand
<1>3. pop_seq \in 1 .. pushed /\ pop_seq > pushed - Cap
  BY <1>1, <1>2
<1>4. Analysed \in Nat /\ Analysed <= pushed /\ Final \in Nat /\ Final <= done /\ Final >= done - 1
      /\ done <= Analysed
  BY <1>0, <1>1 DEF Pace, Analysed, Final
<1>5. ~(pop_seq <= Final)
  <2> SUFFICES ASSUME pop_seq <= Final PROVE FALSE
    OBVIOUS
  <2>1. pop_seq \in 1 .. Analysed /\ pop_seq > Analysed - Cap
    BY <1>1, <1>3, <1>4
  <2> QED
    BY <1>0, <1>2, <2>1 DEF Charted
<1>6. flushing
  BY <1>0, <1>1, <1>4, <1>5 DEF Pace
<1>7. done = pushed /\ cpc \in {"idle", "gone"}
  BY <1>0, <1>1, <1>6 DEF Pace, TypeOK
<1>8. pop_seq = done
  BY <1>1, <1>3, <1>4, <1>5, <1>7
<1> QED
  BY <1>1, <1>2, <1>6, <1>7, <1>8

LEMMA TailTypes ==
  ASSUME IInv, TakeTail
  PROVE  /\ flushing /\ pop_seq = done /\ pop_seq = pushed /\ done > 0
         /\ Typing(done) /\ ch'.prev = ch.prev
         /\ ~ring[Slot(done)].typed /\ cpc \in {"idle", "gone"}
<1>0. TypeOK /\ Cadence /\ apc = "take" /\ ~ring[cur].typed /\ cfg \in Shapes /\ done \in Nat
  BY Numbers DEF IInv, TakeTail, TypeOK
<1>1. /\ flushing /\ pop_seq = done /\ pop_seq = pushed /\ done > 0
      /\ cur = Slot(done) /\ cpc \in {"idle", "gone"}
  BY <1>0, AtTail
<1> PICK f : f = Finalized(cur, None)
  OBVIOUS
<1>2. ring' = f.ring /\ ch' = [f.ch EXCEPT !.prev = ch.prev]
  BY DEF TakeTail
<1>3. None \in Int /\ done \in Int
  BY <1>0 DEF None
<1>4. f.ch \in Chains
  <2>1. cur \in Slots
    BY <1>0, <1>1, <1>3, SlotIn
  <2> QED
    BY <1>0, <1>3, <2>1, Finalizing DEF IInv
<1>5. ch'.brun = f.ch.brun /\ ch'.prev = ch.prev
  BY <1>2, <1>4 DEF Chains
<1> QED
  BY <1>0, <1>1, <1>2, <1>3, <1>5, TypingBy

LEMMA ChartedKept == ASSUME IInv, [Next]_vars PROVE Charted'
<1>0. Counts /\ Pace /\ Slotted /\ Charted /\ TypeOK /\ cfg \in Shapes /\ cfg' = cfg
  BY Movers DEF IInv, TypeOK
<1>1. Cap' = Cap /\ Cap \in Nat \ {0} /\ Slots' = Slots /\ Cap >= 3
  BY <1>0, Fixed, Caps
<1>2. \A s : Slot(s)' = Slot(s)
  BY <1>0, Fixed
<1>3. pushed \in Nat /\ done \in Nat /\ flushing \in BOOLEAN
  BY <1>0, Numbers
<1>4. CASE ChainAnalyse
  <2>1. /\ cpc = "analyse" /\ cpc' = "finalize" /\ done' = done /\ flushing' = flushing
        /\ pop_seq' = pop_seq /\ ch' = ch
        /\ ring' = [ring EXCEPT ![Entry] =
                      [Blank EXCEPT !.fr = plane[Entry], !.aleg = ring[Entry].aleg]]
    BY <1>4 DEF ChainAnalyse, api
  <2>2. Entry = Slot(done + 1) /\ plane[Entry] = done + 1 /\ Entry \in Slots
    BY <1>0, <2>1, Entered
  <2> PICK y : y = [Blank EXCEPT !.fr = plane[Entry], !.aleg = ring[Entry].aleg]
    OBVIOUS
  <2>3. ring' = [ring EXCEPT ![Slot(done + 1)] = y] /\ ring = [s \in Slots |-> ring[s]]
    BY <1>0, <2>1, <2>2 DEF TypeOK
  <2>10. y = [fr |-> plane[Entry], typed |-> FALSE, anchor |-> FALSE, idr |-> FALSE, since |-> 0,
              cleared |-> FALSE, bleg |-> << >>, aleg |-> ring[Entry].aleg]
    BY Blanked
  <2>4. y.fr = done + 1 /\ ~y.typed /\ y.bleg = << >>
    BY ONLY <2>2, <2>10
  <2>5. /\ Final' = Final /\ Analysed' = done + 1 /\ Analysed = done
    BY <2>1 DEF Final, Analysed
  <2>6. ch'.prev = IF cpc' = "publish" THEN Slot(done' + 1) ELSE IF done' = 0 THEN None ELSE Slot(done')
    BY <1>0, <2>1 DEF Charted
  <2>7. Final <= done
    BY <1>3 DEF Final
  <2>8. ASSUME NEW s \in 1 .. done + 1, s > (done + 1) - Cap
        PROVE  /\ ring'[Slot(s)].fr = s
               /\ s <= Final => ring'[Slot(s)].typed
               /\ s > Final /\ (flushing => s > pop_seq) => ~ring'[Slot(s)].typed
    <3>1. CASE s = done + 1
      <4>1. ring'[Slot(s)] = y
        BY <2>2, <2>3, <3>1
      <4>2. ~(s <= Final)
        BY <1>3, <2>7, <3>1 DEF Final
      <4> QED
        BY <2>4, <3>1, <4>1, <4>2
    <3>2. CASE s # done + 1
      <4>1. s \in 1 .. done /\ s > done - Cap /\ s \in Int /\ done + 1 \in Int /\ s < done + 1
            /\ done + 1 < s + Cap
        BY <1>1, <1>3, <2>8, <3>2
      <4>2. Slot(s) # Slot(done + 1) /\ Slot(s) \in Slots
        BY <1>0, <4>1, SlotApart, SlotIn
      <4>3. ring'[Slot(s)] = ring[Slot(s)]
        BY <2>3, <4>2
      <4> QED
        BY <1>0, <2>5, <4>1, <4>3 DEF Charted
    <3> QED
      BY <3>1, <3>2
  <2>9. ASSUME NEW s \in Slots, ring'[s].bleg # << >>
        PROVE  ring'[s].typed /\ ring'[s].bleg[1] < Poc(ring'[s]) /\ Poc(ring'[s]) < ring'[s].bleg[2]
    <3>1. s # Slot(done + 1)
      BY <2>2, <2>3, <2>4, <2>9
    <3>2. ring'[s] = ring[s]
      BY <2>3, <3>1
    <3> QED
      BY <1>0, <2>9, <3>2 DEF Charted
  <2> QED
    BY <1>1, <1>2, <2>1, <2>5, <2>6, <2>8, <2>9 DEF Charted, Poc
<1>5. ASSUME Typing(done), done > 0, ~ring[Slot(done)].typed,
             Analysed' = Analysed, Final' \in {Final, done}, Final <= done,
             flushing' = flushing, pop_seq' = pop_seq,
             Final' < done => flushing /\ pop_seq = done
      PROVE  /\ \A s \in 1 .. Analysed' : s > Analysed' - Cap =>
                  /\ ring'[Slot(s)].fr = s
                  /\ s <= Final' => ring'[Slot(s)].typed
                  /\ s > Final' /\ (flushing' => s > pop_seq') => ~ring'[Slot(s)].typed
             /\ \A s \in Slots : ring'[s].bleg # << >> =>
                  ring'[s].typed /\ ring'[s].bleg[1] < Poc(ring'[s]) /\ Poc(ring'[s]) < ring'[s].bleg[2]
  <2>1. Analysed \in {done, done + 1} /\ Final \in {done, done - 1} /\ done \in Int
    BY <1>3, <1>5 DEF Analysed, Final
  <2>2. ASSUME NEW s \in 1 .. Analysed, s > Analysed - Cap
        PROVE  /\ ring'[Slot(s)].fr = s
               /\ s <= Final' => ring'[Slot(s)].typed
               /\ s > Final' /\ (flushing => s > pop_seq) => ~ring'[Slot(s)].typed
    <3>1. /\ ring[Slot(s)].fr = s
          /\ s <= Final => ring[Slot(s)].typed
          /\ s > Final /\ (flushing => s > pop_seq) => ~ring[Slot(s)].typed
      BY <1>0, <2>2 DEF Charted
    <3>2. Slot(s) \in Slots /\ s \in Int
      BY <1>0, <2>1, SlotIn
    <3>3. CASE s = done
      BY <1>5, <2>1, <3>1, <3>2, <3>3 DEF Typing
    <3>4. CASE s # done
      <4>1. Slot(s) # Slot(done)
        <5>1. s < done + Cap /\ done < s + Cap
          BY <1>1, <1>3, <2>1, <2>2
        <5> QED
          BY <1>0, <2>1, <3>2, <3>4, <5>1, SlotSame
      <4>2. ring'[Slot(s)].fr = ring[Slot(s)].fr /\ ring'[Slot(s)].typed = ring[Slot(s)].typed
        BY <1>5, <3>2, <4>1 DEF Typing
      <4>3. (s <= Final' => s <= Final) /\ (s > Final' => s > Final)
        BY <1>3, <1>5, <2>1, <2>2, <3>2, <3>4
      <4> QED
        BY <3>1, <4>2, <4>3
    <3> QED
      BY <3>3, <3>4
  <2>3. ASSUME NEW s \in Slots, ring'[s].bleg # << >>
        PROVE  ring'[s].typed /\ ring'[s].bleg[1] < Poc(ring'[s]) /\ Poc(ring'[s]) < ring'[s].bleg[2]
    <3>1. ring[s].bleg # << >> => ring[s].typed /\ ring[s].bleg[1] < Poc(ring[s])
                                    /\ Poc(ring[s]) < ring[s].bleg[2]
      BY <1>0 DEF Charted
    <3>2. s # Slot(done)
      BY <1>5, <2>3, <3>1 DEF Typing
    <3>3. Poc(ring'[s]) = Poc(ring[s]) /\ ring'[s].typed = ring[s].typed
      BY <1>5, <3>2 DEF Typing, Poc
    <3>4. CASE ring'[s].bleg = ring[s].bleg
      BY <2>3, <3>1, <3>3, <3>4
    <3>5. CASE ring'[s].bleg # ring[s].bleg
      BY <1>5, <3>2, <3>3, <3>5 DEF Typing
    <3> QED
      BY <3>4, <3>5
  <2> QED
    BY <1>5, <2>2, <2>3
<1>6. CASE ChainFinalize /\ ch.prev # None
  <2>1. done > 0 /\ Typing(done) /\ ch'.prev = Entry /\ ~flushing
    BY <1>6, ChainTypes
  <2>2. cpc = "finalize" /\ cpc' = "publish" /\ done' = done /\ flushing' = flushing
        /\ pop_seq' = pop_seq
    BY <1>6 DEF ChainFinalize, api
  <2>3. Analysed' = Analysed /\ Final' = done /\ Final = done - 1 /\ Analysed = done + 1
    BY <1>3, <2>1, <2>2 DEF Analysed, Final
  <2>4. ~ring[Slot(done)].typed
    <3>1. done \in 1 .. Analysed /\ done > Analysed - Cap /\ done > Final
      BY <1>1, <1>3, <2>1, <2>3
    <3> QED
      BY <1>0, <2>1, <3>1 DEF Charted
  <2>5. Entry = Slot(done + 1)
    BY <1>0, <2>2, Entered
  <2>6. Final <= done
    BY <1>3, <2>3
  <2>7. ch'.prev = IF cpc' = "publish" THEN Slot(done' + 1) ELSE IF done' = 0 THEN None ELSE Slot(done')
    BY <2>1, <2>2, <2>5
  <2>8. Final' \in {Final, done} /\ (Final' < done => flushing /\ pop_seq = done) /\ Analysed' = Analysed
        /\ flushing' = flushing /\ pop_seq' = pop_seq
    BY <1>3, <2>2, <2>3
  <2> QED
    BY <1>1, <1>2, <1>5, <2>1, <2>4, <2>6, <2>7, <2>8 DEF Charted
<1>7. CASE ChainFinalize /\ ch.prev = None
  <2>1. /\ cpc = "finalize" /\ cpc' = "publish" /\ done' = done /\ flushing' = flushing
        /\ ch'.prev = Entry /\ ring' = ring /\ pop_seq' = pop_seq
    BY <1>0, <1>7 DEF ChainFinalize, api, TypeOK
  <2>2. Entry = Slot(done + 1)
    BY <1>0, <2>1, Entered
  <2>3. done = 0
    <3>1. Slot(done) # None
      <4>1. done \in Int
        BY <1>3
      <4>2. Slot(done) \in Slots
        BY <1>0, <4>1, SlotIn
      <4> QED
        BY <1>1, <4>2 DEF Slots, None
    <3> QED
      BY <1>0, <1>7, <2>1, <3>1 DEF Charted
  <2>4. Analysed' = Analysed /\ Final' = Final
    BY <2>1, <2>3 DEF Analysed, Final
  <2> QED
    BY <1>0, <1>1, <1>2, <2>1, <2>2, <2>4 DEF Charted, Poc
<1>8. CASE ChainPublish
  <2>1. /\ cpc = "publish" /\ cpc' = "idle" /\ done' = done + 1 /\ flushing' = flushing
        /\ ch' = ch /\ ring' = ring /\ pop_seq' = pop_seq
    BY <1>8 DEF ChainPublish, api, Step
  <2>2. Analysed' = Analysed /\ Final' = Final
    BY <1>3, <2>1 DEF Analysed, Final
  <2>3. ch'.prev = Slot(done')
    BY <1>0, <2>1 DEF Charted
  <2>4. done' # 0
    BY <1>3, <2>1
  <2> QED
    BY <1>0, <1>1, <1>2, <2>1, <2>2, <2>3, <2>4 DEF Charted, Poc
<1>9. CASE TakeTail
  <2>1. /\ flushing /\ done > 0 /\ Typing(done) /\ ch'.prev = ch.prev /\ pop_seq = done
        /\ ~ring[Slot(done)].typed /\ cpc \in {"idle", "gone"}
    BY <1>9, TailTypes
  <2>2. cpc' = cpc /\ done' = done /\ flushing' = flushing /\ pop_seq' = pop_seq
    BY <1>9 DEF TakeTail, api
  <2>3. Analysed' = Analysed /\ Final' = Final /\ Final <= done
    BY <1>3, <2>1, <2>2 DEF Analysed, Final
  <2> QED
    BY <1>0, <1>1, <1>2, <1>5, <2>1, <2>2, <2>3 DEF Charted
<1>10. CASE ~ChainAnalyse /\ ~ChainFinalize /\ ~ChainPublish /\ ~TakeTail
  <2>1. ring' = ring /\ ch' = ch /\ done' = done
    BY <1>10, Movers
  <2>2. \A s \in Int : (flushing' => s > pop_seq') => (flushing => s > pop_seq)
    <3>1. \/ flushing' = flushing /\ pop_seq' = pop_seq
          \/ ~flushing
          \/ pop_seq' = pop_seq + 1
      <4>1. FlushCall => \/ flushing' = TRUE /\ pop_seq' = pop_seq
                         \/ pop_seq' = pop_seq + 1
        BY DEF FlushCall, Popped
      <4>2. Pop => pop_seq' = pop_seq + 1 /\ flushing' = flushing
        BY DEF Pop, Popped
      <4> QED
        BY <1>3, <4>1, <4>2, Movers
    <3>2. flushing => flushing'
      <4>1. FlushCall => flushing' = TRUE
        BY DEF FlushCall
      <4> QED
        BY <4>1, Movers
    <3>3. pop_seq \in Nat
      BY <1>0, Numbers
    <3>4. ASSUME NEW s \in Int, flushing' => s > pop_seq', flushing PROVE s > pop_seq
      <4>1. s > pop_seq'
        BY <3>2, <3>4
      <4>2. pop_seq' = pop_seq \/ pop_seq' = pop_seq + 1
        BY <3>1, <3>4
      <4> QED
        BY <3>3, <4>1, <4>2
    <3> QED
      BY <3>4
  <2>3. cpc' = cpc \/ (cpc = "idle" /\ cpc' \in {"analyse", "gone"})
    BY <1>10, Movers DEF ChainTake, ChainExit
  <2>4. Analysed' = Analysed /\ Final' = Final
    BY <2>1, <2>3 DEF Analysed, Final
  <2> QED
    BY <1>0, <1>1, <1>2, <2>1, <2>2, <2>3, <2>4 DEF Charted, Poc
<1> QED
  BY <1>4, <1>6, <1>7, <1>8, <1>9, <1>10

-----------------------------------------------------------------------------
(* The runs of B's.                                                         *)

\* What no step disturbs that leaves the anchors, and the counts, as they are.
LEMMA RunsFramed ==
  ASSUME Runs, cfg' = cfg, Taken' = Taken, Base' = Base, Final' = Final, ch'.brun = ch.brun,
         Len(bbuf') <= cfg.bframes, Hanging => Hanging',
         apc' = "take" /\ ring'[cur'].typed /\ ~ring'[cur'].anchor => Len(bbuf') < cfg.bframes,
         \A s \in Taken + 1 .. Final : ring'[Slot(s)].anchor = ring[Slot(s)].anchor,
         Taken \in Int, Final \in Int, ch.brun \in Nat
  PROVE  Runs'
<1>1. \A s : Slot(s)' = Slot(s)
  BY Fixed
<1>2. \A s \in Taken + 1 .. Final : Anchored(s)' = Anchored(s)
  BY <1>1 DEF Anchored
<1>3. LastRun'
  <2>1. (Taken' <= Final' /\ ~Hanging') => (Taken <= Final /\ ~Hanging)
    OBVIOUS
  <2> PICK a \in Int : a = Final - ch.brun
    OBVIOUS
  <2>2. a = Final' - ch'.brun
    OBVIOUS
  <2>3. ASSUME Taken <= Final, ~Hanging
        PROVE  /\ \A s \in Taken + 1 .. Final : s > a => ~Anchored(s)
               /\ a = Base \/ (a > Taken /\ Anchored(a))
    BY <2>3 DEF Runs, LastRun
  <2>4. a > Taken => a \in Taken + 1 .. Final
    OBVIOUS
  <2>5. ASSUME Taken <= Final, ~Hanging
        PROVE  /\ \A s \in Taken + 1 .. Final : s > a => ~Anchored(s)'
               /\ a = Base' \/ (a > Taken /\ Anchored(a)')
    BY <1>2, <2>3, <2>4, <2>5
  <2> QED
    BY <2>1, <2>2, <2>5 DEF LastRun
<1>4. ASSUME NEW s \in Taken + 1 .. Final, ~Anchored(s)'
      PROVE  \/ s - cfg.bframes <= Base
             \/ \E a \in Taken + 1 .. s - 1 : a >= s - cfg.bframes /\ Anchored(a)'
  <2>1. \/ s - cfg.bframes <= Base
        \/ \E a \in Taken + 1 .. s - 1 : a >= s - cfg.bframes /\ Anchored(a)
    BY <1>2, <1>4 DEF Runs
  <2>2. \A a \in Taken + 1 .. s - 1 : a \in Taken + 1 .. Final
    OBVIOUS
  <2> QED
    BY <1>2, <2>1, <2>2
<1>5. Base' >= 0
  BY DEF Runs
<1> QED
  BY <1>3, <1>4, <1>5 DEF Runs

\* A popped frame with its type, no anchor, leaves room in the buffer.
LEMMA Room ==
  ASSUME Runs, TypeOK, Taken + 1 <= Final, ~Anchored(Taken + 1), Base = Taken - Len(bbuf),
         Taken \in Int, Final \in Int
  PROVE  Len(bbuf) < cfg.bframes
<1>1. cfg.bframes \in Nat /\ Len(bbuf) \in Nat
  BY Numbers, Caps
<1>2. Taken + 1 \in Taken + 1 .. Final
  OBVIOUS
<1>3. \/ (Taken + 1) - cfg.bframes <= Base
      \/ \E a \in Taken + 1 .. (Taken + 1) - 1 : a >= (Taken + 1) - cfg.bframes /\ Anchored(a)
  BY <1>2 DEF Runs
<1>4. Taken + 1 .. (Taken + 1) - 1 = {}
  OBVIOUS
<1>5. (Taken + 1) - cfg.bframes <= Base
  BY <1>3, <1>4
<1> QED
  BY <1>1, <1>5

LEMMA RunsKept == ASSUME IInv, [Next]_vars PROVE Runs'
<1>0. /\ Counts /\ Pace /\ Slotted /\ Charted /\ Cadence /\ Runs /\ TypeOK /\ cfg \in Shapes
      /\ cfg' = cfg
  BY Movers DEF IInv, TypeOK
<1>1. /\ Cap' = Cap /\ Cap \in Nat \ {0} /\ Slots' = Slots /\ cfg.bframes \in Nat
      /\ Cap >= cfg.bframes + 3
  BY <1>0, Fixed, Caps
<1>2. \A s : Slot(s)' = Slot(s)
  BY <1>0, Fixed
<1>3. /\ pushed \in Nat /\ done \in Nat /\ flushing \in BOOLEAN /\ pop_seq \in Nat /\ la_n \in Nat
      /\ Len(bbuf) \in Nat /\ ch.brun \in Nat
  BY <1>0, Numbers
<1>4. /\ Taken \in Int /\ Taken \in {pop_seq, pop_seq - 1} /\ Taken <= pop_seq
      /\ Final \in Int /\ Final <= done /\ Final >= done - 1
  BY <1>3 DEF Taken, Final
<1>5. /\ pushed = pop_seq + la_n /\ la_n <= Cap /\ (apc # "pop" => la_n < Cap)
      /\ InHand => cur = Slot(pop_seq) /\ pop_seq > 0
  BY <1>0, <1>1, <1>3 DEF Counts
<1>6. done <= pushed /\ (cpc \in {"analyse", "finalize", "publish"} => done < pushed /\ ~flushing)
  BY <1>0, <1>3 DEF Pace
<1>7. Len(bbuf) <= cfg.bframes
      /\ (apc = "take" /\ ring[cur].typed /\ ~ring[cur].anchor => Len(bbuf) < cfg.bframes)
  BY <1>0 DEF Runs
<1>8. ASSUME apc' = apc, pop_seq' = pop_seq, bbuf' = bbuf
      PROVE  Taken' = Taken /\ Base' = Base
  BY <1>8 DEF Taken, Untaken, Base
<1>10. CASE ChainAnalyse
  <2>1. /\ cpc = "analyse" /\ cpc' = "finalize" /\ done' = done /\ apc' = apc
        /\ pop_seq' = pop_seq /\ bbuf' = bbuf /\ cur' = cur /\ ch' = ch
        /\ ring' = [ring EXCEPT ![Entry] =
                      [Blank EXCEPT !.fr = plane[Entry], !.aleg = ring[Entry].aleg]]
    BY <1>10 DEF ChainAnalyse, api
  <2>2. Entry = Slot(done + 1) /\ Entry \in Slots /\ done + 1 \in Int
    BY <1>0, <1>3, <2>1, Entered
  <2>3. ASSUME NEW s \in Int, s > Taken \/ (s = pop_seq /\ apc = "take"), s <= done
        PROVE  ring'[Slot(s)] = ring[Slot(s)]
    <3>1. s < done + 1 /\ done + 1 < s + Cap
      <4>1. s >= pop_seq
        BY <1>3, <1>4, <2>3
      <4>2. s > pop_seq \/ la_n < Cap
        BY <1>1, <1>3, <1>4, <1>5, <2>3 DEF Taken, Untaken
      <4> QED
        BY <1>1, <1>3, <1>5, <1>6, <2>1, <2>3, <4>1, <4>2
    <3>2. Slot(s) # Entry /\ Slot(s) \in Slots
      BY <1>0, <2>2, <3>1, SlotApart, SlotIn
    <3> QED
      BY <1>0, <2>1, <3>2 DEF TypeOK
  <2>4. Final' = Final
    BY <2>1 DEF Final
  <2>5. apc = "take" => ring'[cur] = ring[cur]
    <3> SUFFICES ASSUME apc = "take" PROVE ring'[cur] = ring[cur]
      OBVIOUS
    <3>1. pop_seq \in Int /\ pop_seq <= done
      BY <1>0, <1>1, <1>3, <1>6, <2>1 DEF Pace
    <3> QED
      BY <1>5, <2>3, <3>1 DEF InHand
  <2>6. Hanging => Hanging'
    BY <2>1, <2>4, <2>5 DEF Hanging
  <2>7. \A s \in Taken + 1 .. Final : ring'[Slot(s)].anchor = ring[Slot(s)].anchor
    BY <1>3, <1>4, <2>3
  <2> QED
    BY <1>0, <1>3, <1>4, <1>7, <1>8, <2>1, <2>4, <2>5, <2>6, <2>7, RunsFramed
<1>11. CASE ChainFinalize /\ ch.prev = None
  <2>1. /\ cpc = "finalize" /\ cpc' = "publish" /\ done' = done /\ apc' = apc
        /\ pop_seq' = pop_seq /\ bbuf' = bbuf /\ cur' = cur /\ ring' = ring
        /\ ch'.brun = ch.brun
    BY <1>0, <1>11 DEF ChainFinalize, api, TypeOK
  <2>2. done = 0
    <3>1. Slot(done) # None
      <4>1. done \in Int
        BY <1>3
      <4>2. Slot(done) \in Slots
        BY <1>0, <4>1, SlotIn
      <4> QED
        BY <1>1, <4>2 DEF Slots, None
    <3> QED
      BY <1>0, <1>11, <2>1, <3>1 DEF Charted
  <2>3. Final' = Final
    BY <2>1, <2>2 DEF Final
  <2>4. Hanging => Hanging'
    BY <2>1, <2>3 DEF Hanging
  <2> QED
    BY <1>0, <1>3, <1>4, <1>7, <1>8, <2>1, <2>3, <2>4, RunsFramed
<1>12. CASE ChainFinalize /\ ch.prev # None
  <2>1. done > 0 /\ Typing(done) /\ ~flushing
    BY <1>12, ChainTypes
  <2>2. /\ cpc = "finalize" /\ cpc' = "publish" /\ done' = done /\ apc' = apc
        /\ pop_seq' = pop_seq /\ bbuf' = bbuf /\ cur' = cur
    BY <1>12 DEF ChainFinalize, api
  <2>3. Final' = done /\ Final = done - 1 /\ Taken' = Taken /\ Base' = Base
    BY <1>3, <1>8, <2>1, <2>2 DEF Final
  <2>4. Taken < done
    BY <1>0, <1>1, <1>3, <1>4, <2>1 DEF Pace
  <2>5. apc = "take" => pop_seq < done
    BY <1>0, <1>1, <1>3, <2>1 DEF Pace
  <2>6. ASSUME NEW s \in Int, s > Taken \/ (s = pop_seq /\ apc = "take"), s < done
        PROVE  ring'[Slot(s)].anchor = ring[Slot(s)].anchor /\ ring'[Slot(s)].typed = ring[Slot(s)].typed
    <3>1. done < s + Cap /\ done \in Int
      <4>1. s >= pop_seq
        BY <1>3, <1>4, <2>6
      <4> QED
        BY <1>1, <1>3, <1>5, <1>6, <2>2, <2>6, <4>1
    <3>2. Slot(s) # Slot(done) /\ Slot(s) \in Slots
      BY <1>0, <2>6, <3>1, SlotApart, SlotIn
    <3> QED
      BY <2>1, <3>2 DEF Typing
  <2>7. ~Hanging /\ ~Hanging'
    BY <1>3, <2>2, <2>3, <2>5 DEF Hanging
  <2> PICK a \in Int : a = Final - ch.brun
    BY <1>3, <1>4
  <2>8. /\ \A s \in Taken + 1 .. done - 1 : s > a => ~Anchored(s)
        /\ a = Base \/ (a > Taken /\ Anchored(a))
    BY <1>0, <1>3, <1>4, <2>3, <2>4, <2>7 DEF Runs, LastRun
  <2>9. a <= done - 1 /\ (a > Taken => ring'[Slot(a)].anchor = Anchored(a))
    BY <1>3, <2>3, <2>6 DEF Anchored
  <2>10. ch'.brun = (IF ring'[Slot(done)].anchor THEN 0 ELSE ch.brun + 1) /\ ch'.brun <= cfg.bframes
    BY <2>1 DEF Typing
  <2>11. ASSUME NEW s \in Taken + 1 .. done, ~ring'[Slot(s)].anchor
         PROVE  \/ s - cfg.bframes <= Base
                \/ \E x \in Taken + 1 .. s - 1 : x >= s - cfg.bframes /\ ring'[Slot(x)].anchor
    <3>1. CASE s = done
      <4>1. ch.brun + 1 <= cfg.bframes
        BY <2>10, <2>11, <3>1
      <4>2. a >= s - cfg.bframes
        BY <1>1, <1>3, <2>3, <3>1, <4>1
      <4>3. a > Taken /\ Anchored(a) => a \in Taken + 1 .. s - 1 /\ ring'[Slot(a)].anchor
        BY <1>3, <1>4, <2>9, <3>1
      <4> QED
        BY <1>1, <1>3, <2>8, <4>2, <4>3
    <3>2. CASE s # done
      <4>1. s \in Taken + 1 .. Final /\ s \in Int /\ s < done /\ s > Taken
        BY <1>3, <1>4, <2>3, <3>2
      <4>2. ~Anchored(s)
        BY <2>6, <2>11, <4>1 DEF Anchored
      <4>3. \/ s - cfg.bframes <= Base
            \/ \E x \in Taken + 1 .. s - 1 : x >= s - cfg.bframes /\ Anchored(x)
        BY <1>0, <4>1, <4>2 DEF Runs
      <4>4. \A x \in Taken + 1 .. s - 1 : ring'[Slot(x)].anchor = Anchored(x)
        <5>1. \A x \in Taken + 1 .. s - 1 : x \in Int /\ x > Taken /\ x < done
          BY <1>3, <1>4, <4>1
        <5> QED
          BY <2>6, <5>1 DEF Anchored
      <4> QED
        BY <4>3, <4>4
    <3> QED
      BY <3>1, <3>2
  <2>12. LastRun'
    <3>1. CASE ring'[Slot(done)].anchor
      <4>1. ch'.brun = 0 /\ Final' - ch'.brun = done
        BY <1>3, <2>3, <2>10, <3>1
      <4>2. \A s \in Taken + 1 .. done : ~(s > done)
        BY <1>3, <1>4
      <4> QED
        BY <1>2, <2>2, <2>3, <2>4, <3>1, <4>1, <4>2 DEF LastRun, Anchored
    <3>2. CASE ~ring'[Slot(done)].anchor
      <4>1. Final' - ch'.brun = a
        BY <1>3, <2>3, <2>10, <3>2
      <4>2. ASSUME NEW s \in Taken + 1 .. done, s > a PROVE ~ring'[Slot(s)].anchor
        <5>1. s = done \/ s \in Taken + 1 .. done - 1
          BY <1>3, <1>4
        <5>2. s \in Taken + 1 .. done - 1 => s \in Int /\ s > Taken /\ s < done
          BY <1>3, <1>4
        <5> QED
          BY <2>6, <2>8, <3>2, <4>2, <5>1, <5>2 DEF Anchored
      <4>3. a = Base' \/ (a > Taken' /\ ring'[Slot(a)].anchor)
        BY <2>3, <2>8, <2>9
      <4> QED
        BY <1>2, <2>3, <4>1, <4>2, <4>3 DEF LastRun, Anchored
    <3> QED
      BY <3>1, <3>2
  <2>13. apc' = "take" /\ ring'[cur'].typed /\ ~ring'[cur'].anchor => Len(bbuf') < cfg.bframes
    <3> SUFFICES ASSUME apc = "take", ring'[cur].typed, ~ring'[cur].anchor
                 PROVE  Len(bbuf) < cfg.bframes
      BY <2>2
    <3>1. cur = Slot(pop_seq) /\ pop_seq \in Int
      BY <1>3, <1>5 DEF InHand
    <3>2. ring'[Slot(pop_seq)].anchor = ring[Slot(pop_seq)].anchor /\ ring'[cur].typed = ring[cur].typed
      BY <2>5, <2>6, <3>1
    <3> QED
      BY <1>7, <3>1, <3>2
  <2>14. Base' >= 0 /\ Len(bbuf') <= cfg.bframes
    BY <1>0, <2>2, <2>3 DEF Runs
  <2> QED
    BY <1>0, <1>2, <2>3, <2>11, <2>12, <2>13, <2>14 DEF Runs, Anchored
<1>13. CASE TakeTail
  <2>1. /\ flushing /\ pop_seq = done /\ pop_seq = pushed /\ done > 0 /\ Typing(done)
        /\ ~ring[Slot(done)].typed /\ cpc \in {"idle", "gone"}
    BY <1>13, TailTypes
  <2>2. /\ apc = "take" /\ cpc' = cpc /\ done' = done /\ apc' = apc
        /\ pop_seq' = pop_seq /\ bbuf' = bbuf /\ cur' = cur
    BY <1>13 DEF TakeTail, api
  <2>3. cur = Slot(done)
    BY <1>5, <2>1, <2>2 DEF InHand
  <2>14. Final' = done - 1 /\ Final = done - 1
    <3>1. cpc # "publish" /\ cpc' # "publish"
      BY <2>1, <2>2
    <3>2. done # 0
      BY <1>3, <2>1
    <3>3. done' = done
      BY <2>2
    <3> QED
      BY <3>1, <3>2, <3>3 DEF Final
  <2>15. Taken' = Taken /\ Base' = Base
    BY <1>8, <2>2
  <2>16. Taken = done - 1 /\ Base = Taken - Len(bbuf)
    BY <2>1, <2>2 DEF Taken, Untaken, Base
  <2>4. /\ Final' = done - 1 /\ Final = done - 1 /\ Taken = done - 1
        /\ Taken' = Taken /\ Base' = Base /\ Base = Taken - Len(bbuf)
    BY <2>14, <2>15, <2>16
  <2>5. Hanging'
    <3>1. pop_seq' = done /\ Final' = done - 1 /\ apc' = "take" /\ cur' = Slot(done)
      BY <2>1, <2>2, <2>3, <2>14
    <3>2. ring'[Slot(done)].typed
      BY <2>1 DEF Typing
    <3> QED
      BY <1>3, <3>1, <3>2 DEF Hanging
  <2>6. ~Hanging
    BY <2>1, <2>3 DEF Hanging
  <2> PICK a \in Int : a = Final - ch.brun
    BY <1>3, <1>4
  <2>7. a = Base \/ a > Taken
    BY <1>0, <1>3, <1>4, <2>4, <2>6 DEF Runs, LastRun
  <2>8. Len(bbuf) = ch.brun
    BY <1>3, <2>4, <2>7
  <2>9. ~ring'[Slot(done)].anchor => Len(bbuf) < cfg.bframes
    <3>1. ~ring'[Slot(done)].anchor => ch.brun + 1 <= cfg.bframes
      BY <2>1 DEF Typing
    <3> QED
      BY <1>1, <1>3, <2>8, <3>1
  <2>10. LastRun'
    BY <2>5 DEF LastRun
  <2>11. Taken' + 1 .. Final' = {}
    BY <1>4, <2>4
  <2>12. Base' >= 0 /\ Len(bbuf') <= cfg.bframes
    BY <1>0, <2>2, <2>4 DEF Runs
  <2> QED
    BY <1>0, <2>2, <2>3, <2>9, <2>10, <2>11, <2>12 DEF Runs
<1>14. CASE TakeB
  <2>1. /\ apc = "take" /\ ring[cur].typed /\ ~ring[cur].anchor /\ apc' = "ready"
        /\ pop_seq' = pop_seq /\ ring' = ring /\ cpc' = cpc /\ done' = done /\ ch' = ch
        /\ Len(bbuf') = Len(bbuf) + 1
    <3>1. PICK e : bbuf' = Append(bbuf, e)
      BY <1>14 DEF TakeB
    <3>2. Len(bbuf') = Len(bbuf) + 1
      BY <1>0, <3>1, Appended DEF TypeOK
    <3> QED
      BY <1>14, <3>2 DEF TakeB, chain
  <2>2. /\ Final' = Final /\ Taken' = Taken + 1 /\ Base' = Base /\ Taken + 1 = pop_seq
        /\ Base = Taken - Len(bbuf)
    BY <1>3, <2>1 DEF Final, Taken, Untaken, Base
  <2>3. cur = Slot(Taken + 1) /\ ~Anchored(Taken + 1)
    BY <1>5, <2>1, <2>2 DEF InHand, Anchored
  <2>4. \A s : Anchored(s)' = Anchored(s)
    BY <1>2, <2>1 DEF Anchored
  <2>5. ASSUME NEW s \in (Taken + 1) + 1 .. Final, ~Anchored(s)
        PROVE  \/ s - cfg.bframes <= Base
               \/ \E a \in (Taken + 1) + 1 .. s - 1 : a >= s - cfg.bframes /\ Anchored(a)
    <3>1. s \in Taken + 1 .. Final
      BY <1>4
    <3>2. \/ s - cfg.bframes <= Base
          \/ \E a \in Taken + 1 .. s - 1 : a >= s - cfg.bframes /\ Anchored(a)
      BY <1>0, <2>5, <3>1 DEF Runs
    <3>3. \A a \in Taken + 1 .. s - 1 : a = Taken + 1 \/ a \in (Taken + 1) + 1 .. s - 1
      BY <1>4
    <3> QED
      BY <2>3, <3>2, <3>3
  <2>6. LastRun'
    <3> SUFFICES ASSUME Taken + 1 <= Final
                 PROVE  LET a == Final - ch.brun IN
                        /\ \A s \in (Taken + 1) + 1 .. Final : s > a => ~Anchored(s)
                        /\ a = Base \/ (a > Taken + 1 /\ Anchored(a))
      BY <2>1, <2>2, <2>4 DEF LastRun
    <3>1. ~Hanging
      BY <1>4, <2>2 DEF Hanging
    <3> PICK a \in Int : a = Final - ch.brun
      BY <1>3, <1>4
    <3>2. /\ \A s \in Taken + 1 .. Final : s > a => ~Anchored(s)
          /\ a = Base \/ (a > Taken /\ Anchored(a))
      BY <1>0, <1>4, <3>1 DEF Runs, LastRun
    <3>3. a > Taken /\ Anchored(a) => a > Taken + 1
      BY <1>4, <2>3
    <3>4. \A s \in (Taken + 1) + 1 .. Final : s \in Taken + 1 .. Final
      BY <1>4
    <3> QED
      BY <3>2, <3>3, <3>4
  <2>7. Base' >= 0 /\ Len(bbuf') <= cfg.bframes
    BY <1>0, <1>1, <1>3, <1>7, <2>1, <2>2 DEF Runs
  <2> QED
    BY <1>0, <2>1, <2>2, <2>4, <2>5, <2>6, <2>7 DEF Runs
<1>15. CASE TakeAnchor
  <2>1. /\ apc = "take" /\ ring[cur].typed /\ ring[cur].anchor /\ apc' = "treewait"
        /\ pop_seq' = pop_seq /\ ring' = ring /\ cpc' = cpc /\ done' = done /\ ch' = ch
        /\ bbuf' = bbuf \/ bbuf' = << >>
    BY <1>15 DEF TakeAnchor, chain
  <2>2. /\ Final' = Final /\ Taken' = Taken + 1 /\ Base' = pop_seq /\ Taken + 1 = pop_seq
        /\ Base = Taken - Len(bbuf)
    BY <1>3, <2>1 DEF Final, Taken, Untaken, Base
  <2>3. cur = Slot(Taken + 1) /\ Anchored(Taken + 1)
    BY <1>5, <2>1, <2>2 DEF InHand, Anchored
  <2>4. \A s : Anchored(s)' = Anchored(s)
    BY <1>2, <2>1 DEF Anchored
  <2>5. ASSUME NEW s \in (Taken + 1) + 1 .. Final, ~Anchored(s)
        PROVE  \/ s - cfg.bframes <= pop_seq
               \/ \E a \in (Taken + 1) + 1 .. s - 1 : a >= s - cfg.bframes /\ Anchored(a)
    <3>1. s \in Taken + 1 .. Final
      BY <1>4
    <3>2. \/ s - cfg.bframes <= Base
          \/ \E a \in Taken + 1 .. s - 1 : a >= s - cfg.bframes /\ Anchored(a)
      BY <1>0, <2>5, <3>1 DEF Runs
    <3>3. \A a \in Taken + 1 .. s - 1 : a = Taken + 1 \/ a \in (Taken + 1) + 1 .. s - 1
      BY <1>4
    <3>4. Base <= pop_seq
      BY <1>3, <1>4, <2>2
    <3> QED
      BY <1>1, <1>3, <1>4, <2>2, <3>2, <3>3, <3>4
  <2>6. LastRun'
    <3> SUFFICES ASSUME Taken + 1 <= Final
                 PROVE  LET a == Final - ch.brun IN
                        /\ \A s \in (Taken + 1) + 1 .. Final : s > a => ~Anchored(s)
                        /\ a = pop_seq \/ (a > Taken + 1 /\ Anchored(a))
      BY <2>1, <2>2, <2>4 DEF LastRun
    <3>1. ~Hanging
      BY <1>4, <2>2 DEF Hanging
    <3> PICK a \in Int : a = Final - ch.brun
      BY <1>3, <1>4
    <3>2. /\ \A s \in Taken + 1 .. Final : s > a => ~Anchored(s)
          /\ a = Base \/ (a > Taken /\ Anchored(a))
      BY <1>0, <1>4, <3>1 DEF Runs, LastRun
    <3>3. Taken + 1 \in Taken + 1 .. Final
      BY <1>4
    <3>4. ~(Taken + 1 > a)
      BY <2>3, <3>2, <3>3
    <3>5. a > Taken /\ Anchored(a)
      BY <1>3, <1>4, <2>2, <3>2, <3>4
    <3>6. \A s \in (Taken + 1) + 1 .. Final : s \in Taken + 1 .. Final
      BY <1>4
    <3> QED
      BY <1>4, <2>2, <3>2, <3>5, <3>6
  <2>7. Base' >= 0 /\ Len(bbuf') <= cfg.bframes
    BY <1>1, <1>3, <1>7, <2>1, <2>2
  <2> QED
    BY <1>0, <2>1, <2>2, <2>4, <2>5, <2>6, <2>7 DEF Runs
<1>16. CASE ~ChainAnalyse /\ ~ChainFinalize /\ ~TakeTail /\ ~TakeB /\ ~TakeAnchor
  <2>1. ring' = ring /\ ch' = ch
    BY <1>16, Movers
  <2>2. Final' = Final
    <3>1. ChainPublish => cpc = "publish" /\ cpc' = "idle" /\ done' = done + 1
      BY DEF ChainPublish, Step
    <3>2. \/ ChainPublish
          \/ done' = done /\ (cpc' = cpc \/ (cpc = "idle" /\ cpc' \in {"analyse", "gone"}))
      BY <1>16, Movers DEF ChainTake, ChainExit
    <3> QED
      BY <1>3, <3>1, <3>2 DEF Final
  <2>3. Len(bbuf') <= Len(bbuf)
    <3>1. WarmLaunch => bbuf' = << >>
      BY DEF WarmLaunch
    <3>2. Walk => Len(bbuf') = Len(bbuf)
      <4> SUFFICES ASSUME Walk PROVE Len(bbuf') = Len(bbuf)
        OBVIOUS
      <4>1. bbuf' = [k \in DOMAIN bbuf |-> [bbuf[k] EXCEPT !.memo = BufferMemo(@, bbuf[k]),
                                                           !.plain = BufferMemo(@, bbuf[k])]]
        BY DEF Walk
      <4>2. Len(bbuf) \in Nat /\ DOMAIN bbuf = 1 .. Len(bbuf)
        BY <1>0 DEF TypeOK
      <4>3. DOMAIN bbuf' = 1 .. Len(bbuf)
        BY <4>1, <4>2
      <4> QED
        BY ONLY <4>2, <4>3, LenProperties, Len(bbuf) \in Nat
    <3>3. Len(<< >>) = 0
      OBVIOUS
    <3> QED
      BY <1>3, <1>16, <3>1, <3>2, <3>3, Movers
  <2>4. /\ Taken' = Taken /\ Base' = Base
        /\ apc' = "take" /\ apc # "take" => cur' = Slot(Taken + 1)
        /\ apc' = "take" /\ apc = "take" => cur' = cur
        /\ apc = "take" => apc' = "take" /\ pop_seq' = pop_seq
    <3>1. CASE FlushCall
      <4>1. \/ apc = "ready" /\ apc' = "ready" /\ pop_seq' = pop_seq /\ bbuf' = bbuf
            \/ /\ apc = "ready" /\ apc' = "take" /\ pop_seq' = pop_seq + 1 /\ bbuf' = bbuf
               /\ cur' = la_head
        BY <3>1 DEF FlushCall, Popped
      <4>2. la_head = Slot(pop_seq + 1)
        BY <1>0, <1>3, HeadNext DEF Counts
      <4> QED
        BY <1>3, <4>1, <4>2 DEF Taken, Untaken, Base
    <3>2. CASE Pop
      <4>1. apc = "pop" /\ apc' = "popwait" /\ pop_seq' = pop_seq + 1 /\ bbuf' = bbuf
        BY <3>2 DEF Pop, Popped
      <4> QED
        BY <1>3, <4>1 DEF Taken, Untaken, Base
    <3>3. CASE WarmLaunch
      <4>1. apc = "launch" /\ apc' = "ready" /\ pop_seq' = pop_seq /\ bbuf' = << >>
        BY <3>3 DEF WarmLaunch
      <4> QED
        BY <1>3, <4>1 DEF Taken, Untaken, Base
    <3>4. CASE Walk
      <4>1. apc = "walk" /\ apc' = "launch" /\ pop_seq' = pop_seq
        BY <3>4 DEF Walk
      <4> QED
        BY <1>3, <4>1 DEF Taken, Untaken, Base
    <3>5. CASE ~FlushCall /\ ~Pop /\ ~WarmLaunch /\ ~Walk
      <4>1. bbuf' = bbuf /\ pop_seq' = pop_seq /\ cur' = cur
        BY <1>16, <3>5, Movers
      <4>2. \/ apc' = apc
            \/ apc = "ready" /\ apc' \in {"pad", "close"}
            \/ apc = "pad" /\ apc' \in {"ready", "pop"}
            \/ apc = "popwait" /\ apc' = "take"
            \/ apc = "treewait" /\ apc' = "join"
            \/ apc = "join" /\ apc' = "walk"
            \/ apc = "close" /\ apc' = "closed"
        BY <1>16, <3>5, Movers, ZenonT(60) DEF EncodeCall, Push, PopWait, TreeWait, WarmJoin, CloseCall, Closed
      <4>3. apc = "popwait" => cur = Slot(pop_seq) /\ Taken + 1 = pop_seq
        BY <1>3, <1>5 DEF InHand, Taken, Untaken
      <4> QED
        BY <1>3, <4>1, <4>2, <4>3 DEF Taken, Untaken, Base
    <3> QED
      BY <3>1, <3>2, <3>3, <3>4, <3>5
  <2>5. Hanging => Hanging'
    <3>1. apc = "take" => cur' = cur
      BY <2>4
    <3> QED
      BY <2>1, <2>2, <2>4, <3>1 DEF Hanging
  <2>6. ASSUME apc' = "take", ring'[cur'].typed, ~ring'[cur'].anchor
        PROVE  Len(bbuf') < cfg.bframes
    <3>1. CASE apc = "take"
      BY <1>1, <1>3, <1>7, <2>1, <2>3, <2>4, <2>6, <3>1
    <3>2. CASE apc # "take"
      <4>1. cur' = Slot(Taken + 1) /\ ~Anchored(Taken + 1) /\ ring[Slot(Taken + 1)].typed
        BY <2>1, <2>4, <2>6, <3>2 DEF Anchored
      <4>2. Base = Taken - Len(bbuf) /\ (FlushCall \/ PopWait)
            /\ Taken + 1 \in 1 .. pushed /\ Taken + 1 > pushed - Cap /\ done <= Analysed
            /\ Analysed <= pushed
        <5>1. FlushCall \/ PopWait
          BY <1>16, <2>6, <3>2, Movers DEF EncodeCall, Push, Pop, TreeWait, WarmJoin, Walk,
             WarmLaunch, CloseCall, Closed
        <5>2. \/ apc = "ready" /\ la_n > 0
              \/ apc = "popwait"
          BY <2>6, <3>2, <5>1 DEF FlushCall, PopWait
        <5>3. Base = Taken - Len(bbuf)
          BY <5>2 DEF Base
        <5>4. Taken >= 0 /\ Taken + 1 <= pushed /\ Taken + 1 > pushed - Cap
          BY <1>1, <1>3, <1>5, <5>2 DEF Taken, Untaken, InHand
        <5> QED
          BY <1>3, <1>4, <1>6, <5>1, <5>3, <5>4 DEF Analysed
      <4>3. Taken + 1 <= Final
        <5>1. CASE PopWait
          <6>1. Pace'
            BY PaceKept
          <6>2. apc' = "take" /\ done' = done /\ pop_seq' = pop_seq /\ flushing' = flushing
                /\ ~flushing /\ apc = "popwait"
            BY <1>0, <5>1 DEF PopWait, chain, Counts
          <6>3. done >= pop_seq + cfg.bframes + 2
            BY <1>0, <6>1, <6>2 DEF Pace
          <6> QED
            BY <1>1, <1>3, <1>4, <6>3
        <5>2. CASE FlushCall
          <6>1. apc = "ready" /\ Waited(pushed)
            BY <5>2 DEF FlushCall
          <6>2. done = pushed
            BY <1>3, <1>6, <6>1, Waits
          <6>3. Taken = pop_seq /\ Analysed = pushed
            BY <1>4, <1>6, <6>1, <6>2, <1>3 DEF Taken, Untaken, Analysed
          <6>4. Taken + 1 \in 1 .. Analysed /\ Taken + 1 > Analysed - Cap
                /\ (flushing => Taken + 1 > pop_seq)
            BY <1>3, <1>4, <4>2, <6>3
          <6>5. ~(Taken + 1 > Final)
            BY <1>0, <4>1, <6>4 DEF Charted
          <6> QED
            BY <1>4, <6>5
        <5> QED
          BY <4>2, <5>1, <5>2
      <4>4. Len(bbuf) < cfg.bframes
        BY <1>0, <1>4, <4>1, <4>2, <4>3, Room
      <4> QED
        BY <1>1, <1>3, <2>3, <4>4, CountsKept, TypeKept, Numbers
    <3> QED
      BY <3>1, <3>2
  <2>7. Len(bbuf') <= cfg.bframes
    <3>1. Len(bbuf') \in Nat
      BY TypeKept DEF TypeOK
    <3> QED
      BY <1>1, <1>3, <1>7, <2>3, <3>1
  <2>8. ch'.brun = ch.brun /\ \A s \in Taken + 1 .. Final : ring'[Slot(s)].anchor = ring[Slot(s)].anchor
    BY <2>1
  <2> QED
    BY <1>0, <1>3, <1>4, <2>2, <2>4, <2>5, <2>6, <2>7, <2>8, RunsFramed
<1> QED
  BY <1>10, <1>11, <1>12, <1>13, <1>14, <1>15, <1>16

-----------------------------------------------------------------------------
(* The prefetch.                                                            *)

LEMMA Limits ==
  ASSUME TypeOK
  PROVE  /\ Lim \in Nat /\ Lim <= job.navail
         /\ WarmNeed \in Int /\ WarmNeed = job.popseq + Lim + 1
         /\ lo \in Int /\ lo = cfg.bframes + 2 /\ cfg.bframes \in Nat
         /\ wcap \in Int /\ wcap = cfg.depth - 2 /\ cfg.depth \in Nat
<1>1. job.navail \in Nat /\ job.popseq \in Nat /\ job.pushed \in Nat /\ cfg \in Shapes
  BY Numbers
<1>2. cfg.bframes \in Nat /\ cfg.depth \in Nat
  BY <1>1, Caps
<1> PICK room \in Int : room = job.pushed - job.popseq - 2
  BY <1>1
<1>3. Lim = Least(job.navail, IF room < 0 THEN 0 ELSE room)
  BY DEF Lim
<1>4. Lim \in Nat /\ Lim <= job.navail
  BY <1>1, <1>3 DEF Least
<1> QED
  BY <1>1, <1>2, <1>4 DEF WarmNeed, lo, wcap

\* What has been taken of a window since its launch: a run of B's at most.
LEMMA Passed ==
  ASSUME TypeOK, Ahead, Runs, req
  PROVE  pop_seq <= job.popseq + cfg.bframes + 1 /\ job.popseq <= pop_seq
<1>1. /\ cfg.bframes \in Nat /\ pop_seq \in Nat /\ Len(bbuf) \in Nat /\ job.popseq \in Nat
  BY Numbers, Caps
<1>2. Len(bbuf) <= cfg.bframes
  BY DEF Runs
<1>3. Taken >= pop_seq - 1 /\ Taken \in Int
  BY <1>1 DEF Taken
<1> QED
  BY <1>1, <1>2, <1>3 DEF Ahead

LEMMA AheadKept == ASSUME IInv, [Next]_vars PROVE Ahead'
<1>0. Counts /\ Ahead /\ Runs /\ TypeOK /\ cfg \in Shapes /\ cfg' = cfg /\ TypeOK'
  BY Movers, TypeKept DEF IInv, TypeOK
<1>1. Cap' = Cap /\ cfg.bframes \in Nat
  BY <1>0, Fixed, Caps
<1>2. /\ pushed \in Nat /\ pop_seq \in Nat /\ la_n \in Nat /\ done \in Nat /\ Len(bbuf) \in Nat
      /\ job.popseq \in Nat /\ job.pushed \in Nat /\ Len(bbuf) <= cfg.bframes
  BY <1>0, Numbers DEF Runs
<1>3. wpc \in {"wait", "scan", "look", "phaseA"} => req /\ ~mdone
  BY <1>0 DEF Ahead
<1>4. CASE WarmLaunch
  <2>1. /\ apc = "launch" /\ apc' = "ready" /\ req' = TRUE /\ bbuf' = << >> /\ wpc' = wpc
        /\ pop_seq' = pop_seq /\ pushed' = pushed
        /\ job' = [head |-> la_head, navail |-> la_n, popseq |-> pop_seq, pushed |-> pushed]
    BY <1>4 DEF WarmLaunch, warm
  <2>2. wpc \notin {"wait", "scan", "look", "phaseA"}
    BY <1>0, <2>1 DEF Ahead
  <2>3. /\ job'.head = job'.popseq % Cap /\ job'.pushed = job'.popseq + job'.navail
        /\ job'.popseq = pop_seq /\ job'.pushed = pushed
    BY <1>0, <2>1 DEF Counts
  <2>4. Taken' = pop_seq' /\ Len(bbuf') = 0
    BY <2>1 DEF Taken, Untaken
  <2> QED
    BY <1>1, <1>2, <2>1, <2>2, <2>3, <2>4 DEF Ahead
<1>5. CASE WarmJoin
  <2>1. req' = FALSE /\ wpc' = wpc /\ Retired
    BY <1>5 DEF WarmJoin, warm
  <2>2. wpc \notin {"wait", "scan", "look", "phaseA"}
    BY <1>3, <2>1 DEF Retired
  <2> QED
    BY <2>1, <2>2 DEF Ahead
<1>6. CASE ~WarmLaunch /\ ~WarmJoin
  <2>1. req' = req /\ job' = job
    BY <1>6, Movers
  <2>2. WarmNeed' = WarmNeed
    BY <2>1 DEF WarmNeed, Lim
  <2>3. done' >= done
    <3>1. ChainPublish => done' = done + 1
      BY DEF ChainPublish, Step
    <3> QED
      BY <1>2, <3>1, Movers
  <2>4. wpc' \in {"wait", "scan", "look", "phaseA"} => req' /\ ~mdone'
    <3>1. WarmTake \/ WarmScan \/ WarmPhaseA =>
             /\ wpc' = "idle" \/ (wpc' = "wait" /\ req /\ ~mdone /\ mdone' = mdone)
                  \/ (wpc' = "look" /\ wpc = "scan" /\ mdone' = mdone)
      BY DEF WarmTake, WarmScan, WarmPhaseA
    <3>2. WarmWait \/ WarmLook \/ WarmExit =>
             /\ mdone' = mdone
             /\ wpc' = "gone" \/ wpc \in {"wait", "look"}
      BY DEF WarmWait, WarmLook, WarmExit, post
    <3>3. CASE WarmTake \/ WarmScan \/ WarmPhaseA
      BY <1>3, <2>1, <3>1, <3>3
    <3>4. CASE WarmWait \/ WarmLook \/ WarmExit
      BY <1>3, <2>1, <3>2, <3>4
    <3>5. CASE ~(WarmTake \/ WarmScan \/ WarmPhaseA) /\ ~(WarmWait \/ WarmLook \/ WarmExit)
      <4>1. wpc' = wpc /\ mdone' = mdone
        BY <1>6, <3>5, Movers
      <4> QED
        BY <1>3, <2>1, <4>1
    <3> QED
      BY <3>3, <3>4, <3>5
  <2>5. wpc' \in {"scan", "look", "phaseA"} => done' >= WarmNeed'
    <3>1. wpc \in {"scan", "look", "phaseA"} => done >= WarmNeed
      BY <1>0 DEF Ahead
    <3>2. wpc' \in {"scan", "look", "phaseA"} => wpc \in {"scan", "look", "phaseA"} \/ WarmWait
      BY Movers DEF WarmTake, WarmScan, WarmLook, WarmPhaseA, WarmExit
    <3>3. WarmWait => done >= WarmNeed
      BY DEF WarmWait
    <3>4. WarmNeed \in Int /\ done' \in Nat
      BY <1>0, Limits DEF TypeOK
    <3> QED
      BY <1>2, <2>2, <2>3, <3>1, <3>2, <3>3, <3>4
  <2>6. apc' \in {"walk", "launch"} => ~req'
    <3>1. apc' \in {"walk", "launch"} => apc \in {"walk", "launch"}
      BY <1>6, Movers DEF EncodeCall, Push, Pop, PopWait, FlushCall, TakeB, TakeAnchor, TreeWait,
         Walk, CloseCall, Closed
    <3> QED
      BY <1>0, <2>1, <3>1 DEF Ahead
  <2>7. pop_seq' >= pop_seq /\ pushed' >= pushed
    <3>1. Push => pushed' = pushed + 1
      BY DEF Push
    <3>2. Pop \/ FlushCall => pop_seq' \in {pop_seq, pop_seq + 1}
      BY DEF Pop, FlushCall, Popped
    <3> QED
      BY <1>2, <3>1, <3>2, Movers
  <2>8. ASSUME req
        PROVE  IF apc' \in {"treewait", "join"} THEN pop_seq' <= job.popseq + cfg.bframes + 1
                                                ELSE Taken' <= job.popseq + Len(bbuf')
    <3>1. IF apc \in {"treewait", "join"} THEN pop_seq <= job.popseq + cfg.bframes + 1
                                          ELSE Taken <= job.popseq + Len(bbuf)
      BY <1>0, <2>8 DEF Ahead
    <3>2. apc \notin {"walk", "launch"}
      BY <1>0, <2>8 DEF Ahead
    <3>3. CASE TakeB
      <4>1. PICK e : bbuf' = Append(bbuf, e)
        BY <3>3 DEF TakeB
      <4>2. Len(bbuf') = Len(bbuf) + 1
        BY <1>0, <4>1, Appended DEF TypeOK
      <4>3. apc = "take" /\ apc' = "ready" /\ pop_seq' = pop_seq
        BY <3>3 DEF TakeB
      <4>4. Taken' = Taken + 1
        BY <1>2, <4>3 DEF Taken, Untaken
      <4>5. Taken \in Int
        BY <1>2 DEF Taken
      <4> QED
        BY <1>2, <3>1, <4>2, <4>3, <4>4, <4>5
    <3>4. CASE TakeAnchor
      <4>1. apc = "take" /\ apc' = "treewait" /\ pop_seq' = pop_seq
        BY <3>4 DEF TakeAnchor
      <4>2. Taken = pop_seq - 1
        BY <4>1 DEF Taken, Untaken
      <4> QED
        BY <1>1, <1>2, <3>1, <4>1, <4>2
    <3>5. CASE Pop \/ FlushCall
      <4>1. /\ bbuf' = bbuf /\ apc \in {"pop", "ready"}
            /\ \/ apc' = apc /\ pop_seq' = pop_seq
               \/ apc' \in {"popwait", "take"} /\ pop_seq' = pop_seq + 1
        BY <3>5 DEF Pop, FlushCall, Popped
      <4>2. Taken' = Taken
        BY <1>2, <4>1 DEF Taken, Untaken
      <4> QED
        BY <3>1, <4>1, <4>2
    <3>6. CASE ~TakeB /\ ~TakeAnchor /\ ~Pop /\ ~FlushCall
      <4>1. ~Walk
        BY <3>2 DEF Walk
      <4>2. pop_seq' = pop_seq /\ bbuf' = bbuf
        BY <1>6, <3>6, <4>1, Movers
      <4>3. \/ apc' = apc
            \/ apc = "popwait" /\ apc' = "take"
            \/ apc = "treewait" /\ apc' = "join"
            \/ apc \in {"ready", "pad", "close"} /\ apc' \in {"ready", "pad", "pop", "close", "closed"}
        BY <1>6, <3>6, <4>1, Movers DEF EncodeCall, Push, PopWait, TreeWait, CloseCall, Closed
      <4>4. Taken' = Taken
        BY <4>2, <4>3 DEF Taken, Untaken
      <4> QED
        BY <3>1, <4>2, <4>3, <4>4
    <3> QED
      BY <3>3, <3>4, <3>5, <3>6
  <2>9. req => /\ job.head = job.popseq % Cap /\ job.pushed = job.popseq + job.navail
               /\ job.popseq <= pop_seq' /\ job.pushed <= pushed'
    <3>1. pop_seq' \in Nat /\ pushed' \in Nat
      BY <1>0 DEF TypeOK
    <3> QED
      BY <1>0, <1>2, <2>7, <3>1 DEF Ahead
  <2> QED
    BY <1>0, <1>1, <2>1, <2>2, <2>4, <2>5, <2>6, <2>8, <2>9 DEF Ahead
<1> QED
  BY <1>4, <1>5, <1>6

-----------------------------------------------------------------------------
(* The memos.                                                               *)

\* What only grows.
LEMMA Onward ==
  ASSUME IInv, [Next]_vars
  PROVE  /\ done' >= done /\ Final' >= Final /\ (flushing => flushing')
         /\ \/ Taken' = Taken
            \/ /\ TakeB \/ TakeAnchor
               /\ Taken' = Taken + 1 /\ Taken' = pop_seq
         /\ pushed' = pushed \/ (Push /\ pushed' = pushed + 1)
         /\ Taken \in Int /\ Taken' \in Int /\ Final \in Int /\ Final' \in Int /\ done' \in Nat
<1>0. Counts /\ Pace /\ Charted /\ TypeOK /\ TypeOK' /\ cfg \in Shapes
  BY TypeKept DEF IInv, TypeOK
<1>1. pushed \in Nat /\ pop_seq \in Nat /\ done \in Nat /\ flushing \in BOOLEAN
      /\ pushed' \in Nat /\ pop_seq' \in Nat /\ done' \in Nat
  BY <1>0 DEF TypeOK
<1>2. Taken \in Int /\ Taken' \in Int /\ Final \in Int /\ Final' \in Int
  BY <1>1 DEF Taken, Final
<1>3. done' >= done /\ Final' >= Final
  <2>1. ChainPublish => cpc = "publish" /\ cpc' = "idle" /\ done' = done + 1
    BY DEF ChainPublish, Step
  <2>2. ChainFinalize => cpc = "finalize" /\ cpc' = "publish"
    BY DEF ChainFinalize
  <2>3. \/ ChainPublish
        \/ done' = done /\ ChainFinalize
        \/ done' = done /\ (cpc' = cpc \/ (cpc \in {"idle", "analyse"} /\ cpc' \in {"analyse", "gone", "finalize"}))
    BY Movers DEF ChainTake, ChainExit, ChainAnalyse
  <2>4. CASE ChainPublish
    BY <1>1, <2>1, <2>4 DEF Final
  <2>5. CASE ChainFinalize /\ done' = done
    BY <1>1, <2>2, <2>5 DEF Final
  <2>6. CASE done' = done /\ (cpc' = cpc \/ (cpc \in {"idle", "analyse"} /\ cpc' \in {"analyse", "gone", "finalize"}))
    BY <1>1, <2>6 DEF Final
  <2> QED
    BY <2>3, <2>4, <2>5, <2>6
<1>4. flushing => flushing'
  BY Movers DEF FlushCall
<1>5. pushed' = pushed \/ (Push /\ pushed' = pushed + 1)
  BY Movers DEF Push
<1>6. \/ Taken' = Taken
      \/ /\ TakeB \/ TakeAnchor
         /\ Taken' = Taken + 1 /\ Taken' = pop_seq
  <2>1. CASE TakeB \/ TakeAnchor
    <3>1. apc = "take" /\ apc' \in {"ready", "treewait"} /\ pop_seq' = pop_seq
      BY <2>1 DEF TakeB, TakeAnchor
    <3> QED
      BY <1>1, <2>1, <3>1 DEF Taken, Untaken
  <2>2. CASE Pop \/ FlushCall
    <3>1. /\ apc \in {"pop", "ready"}
          /\ \/ apc' = apc /\ pop_seq' = pop_seq
             \/ apc' \in {"popwait", "take"} /\ pop_seq' = pop_seq + 1
      BY <2>2 DEF Pop, FlushCall, Popped
    <3>2. Taken = pop_seq
      BY <3>1 DEF Taken, Untaken
    <3>3. CASE apc' = apc /\ pop_seq' = pop_seq
      BY <3>1, <3>2, <3>3 DEF Taken, Untaken
    <3>4. CASE apc' \in {"popwait", "take"} /\ pop_seq' = pop_seq + 1
      BY <1>1, <3>2, <3>4 DEF Taken, Untaken
    <3> QED
      BY <3>1, <3>3, <3>4
  <2>3. CASE ~TakeB /\ ~TakeAnchor /\ ~Pop /\ ~FlushCall
    <3>1. pop_seq' = pop_seq
      BY <2>3, Movers
    <3>2. \/ apc' = apc
          \/ apc = "popwait" /\ apc' = "take"
          \/ apc \notin {"popwait", "take"} /\ apc' \notin {"popwait", "take"}
      BY <2>3, Movers DEF EncodeCall, Push, PopWait, TreeWait, WarmJoin, Walk, WarmLaunch,
         CloseCall, Closed
    <3>3. Taken' = Taken
      BY <3>1, <3>2 DEF Taken, Untaken
    <3> QED
      BY <3>3
  <2> QED
    BY <2>1, <2>2, <2>3
<1> QED
  BY <1>1, <1>2, <1>3, <1>4, <1>5, <1>6

\* The entry a memo is of keeps its frame and type, and its legs if they were
\* taken as final.
LEMMA EntryKept ==
  ASSUME IInv, [Next]_vars, NEW s \in Slots, memo[s].valid
  PROVE  /\ ring'[s].fr = ring[s].fr /\ ring'[s].typed /\ ring'[s].anchor = ring[s].anchor
         /\ memo[s].seed # << >> => Legs(ring'[s]) = Legs(ring[s])
<1>0. /\ Counts /\ Pace /\ Slotted /\ Charted /\ Cadence /\ Runs /\ Remembered /\ TypeOK
      /\ cfg \in Shapes
  BY DEF IInv, TypeOK
<1>1. /\ Cap \in Nat \ {0} /\ cfg.bframes \in Nat /\ Cap >= cfg.bframes + 3
      /\ pushed \in Nat /\ done \in Nat /\ flushing \in BOOLEAN /\ ch.brun \in Nat
      /\ ch.brun <= cfg.bframes
  BY <1>0, Numbers, Caps DEF Cadence
<1> PICK f : f = memo[s].data[1]
  OBVIOUS
<1>2. Recalled(s, f)
  BY <1>0 DEF Remembered
<1>3. /\ f \in Int /\ f > pushed - Cap /\ f <= pushed /\ s = Slot(f) /\ ring[s].typed
      /\ (f <= Final \/ flushing)
  <2>1. /\ f \in 1 .. pushed /\ f > pushed - Cap /\ s = Slot(f) /\ ring[s].typed
        /\ (f <= Final \/ flushing)
    BY <1>2, Zenon DEF Recalled
  <2> QED
    BY ONLY <1>1, <2>1
<1>4. Final \in Int /\ Final <= done /\ Final >= done - 1
  BY <1>1 DEF Final
<1>5. CASE ChainAnalyse
  <2>1. /\ cpc = "analyse"
        /\ ring' = [ring EXCEPT ![Entry] =
                      [Blank EXCEPT !.fr = plane[Entry], !.aleg = ring[Entry].aleg]]
    BY <1>5 DEF ChainAnalyse
  <2>2. Entry = Slot(done + 1) /\ done < pushed /\ ~flushing /\ done + 1 \in Int
    BY <1>0, <1>1, <2>1, Entered DEF Pace
  <2>3. f < done + 1 /\ done + 1 < f + Cap
    BY <1>1, <1>3, <1>4, <2>2
  <2>4. s # Entry
    BY <1>0, <1>3, <2>2, <2>3, SlotApart
  <2> QED
    BY <1>0, <1>3, <2>1, <2>4 DEF TypeOK
<1>6. CASE ChainFinalize /\ ch.prev # None
  <2>1. done > 0 /\ Typing(done) /\ ~flushing
    BY <1>6, ChainTypes
  <2>2. cpc = "finalize" /\ done < pushed /\ done \in Int
    BY <1>0, <1>1, <1>6 DEF Pace, ChainFinalize
  <2>3. Final = done - 1
    BY <1>1, <2>1, <2>2 DEF Final
  <2>4. f < done /\ done < f + Cap
    BY <1>1, <1>3, <2>1, <2>2, <2>3
  <2>5. s # Slot(done)
    BY <1>0, <1>3, <2>2, <2>4, SlotApart
  <2>6. ASSUME memo[s].seed # << >> PROVE ring'[s].bleg = ring[s].bleg
    <3>1. f < done - cfg.bframes
      BY <1>2, <2>1, <2>6 DEF Recalled
    <3>2. ASSUME NEW j \in 1 .. ch.brun PROVE s # Slot(done - j)
      <4>1. f < done - j /\ done - j < f + Cap /\ done - j \in Int
        BY <1>1, <1>3, <2>4, <3>1
      <4> QED
        BY <1>0, <1>3, <4>1, SlotApart
    <3> QED
      BY <2>1, <2>5, <3>2 DEF Typing
  <2> QED
    BY <1>3, <2>1, <2>5, <2>6 DEF Typing, Legs
<1>7. CASE TakeTail
  <2>1. /\ flushing /\ pop_seq = done /\ pop_seq = pushed /\ done > 0 /\ Typing(done)
        /\ ~ring[Slot(done)].typed /\ cpc \in {"idle", "gone"}
    BY <1>7, TailTypes
  <2>2. apc = "take" /\ Taken = pop_seq - 1
    BY <1>7 DEF TakeTail, Taken, Untaken
  <2>3. s # Slot(done) /\ done \in Int
    BY <1>1, <1>3, <2>1
  <2>4. ring'[s].bleg = ring[s].bleg
    <3> SUFFICES ASSUME ~ring[s].anchor, NEW j \in 1 .. ch.brun, s = Slot(done - j) PROVE FALSE
      BY <2>1, <2>3 DEF Typing
    <3>1. f < (done - j) + Cap /\ done - j < f + Cap /\ done - j \in Int
      BY <1>1, <1>3, <2>1
    <3>2. f = done - j
      BY <1>0, <1>3, <3>1, SlotSame
    <3>3. f <= Taken
      BY <1>1, <2>1, <2>2, <3>2
    <3> QED
      BY <1>2, <3>3 DEF Recalled
  <2> QED
    BY <1>3, <2>1, <2>3, <2>4 DEF Typing, Legs
<1>8. CASE ~ChainAnalyse /\ ~(ChainFinalize /\ ch.prev # None) /\ ~TakeTail
  <2>1. ring' = ring
    BY <1>8, Movers DEF ChainFinalize
  <2> QED
    BY <1>3, <2>1
<1> QED
  BY <1>5, <1>6, <1>7, <1>8

\* A memo that stays, stays one.
LEMMA RecalledKept ==
  ASSUME IInv, [Next]_vars, NEW s \in Slots, memo[s].valid, memo'[s] = memo[s],
         NEW f, f = memo[s].data[1], f > pushed' - Cap, f <= Taken' => f <= Taken \/ ring[s].anchor
  PROVE  Recalled(s, f)'
<1>0. TypeOK /\ TypeOK' /\ cfg \in Shapes /\ cfg' = cfg /\ Remembered
  BY TypeKept, Movers DEF IInv, TypeOK
<1>1. Cap' = Cap /\ \A x : Slot(x)' = Slot(x)
  BY <1>0, Fixed
<1>2. /\ pushed \in Nat /\ done \in Nat /\ flushing \in BOOLEAN /\ cfg.bframes \in Nat
      /\ flushing' \in BOOLEAN
  BY <1>0, Numbers, Caps DEF TypeOK
<1>3. Recalled(s, f)
  BY <1>0 DEF Remembered
<1>4. /\ ring'[s].fr = ring[s].fr /\ ring'[s].typed /\ ring'[s].anchor = ring[s].anchor
      /\ memo[s].seed # << >> => Legs(ring'[s]) = Legs(ring[s])
  BY EntryKept
<1>5. /\ done' >= done /\ Final' >= Final /\ (flushing => flushing')
      /\ pushed' = pushed \/ pushed' = pushed + 1
      /\ Final \in Int /\ Final' \in Int /\ done' \in Nat
  BY Onward
<1>10. /\ f \in Int /\ f >= 1 /\ f <= pushed /\ s = Slot(f) /\ ring[s].fr = f
  <2>1. f \in 1 .. pushed /\ s = Slot(f) /\ ring[s].fr = f
    BY <1>3, Zenon DEF Recalled
  <2> QED
    BY ONLY <1>2, <2>1
<1>11. pushed' \in Nat /\ Cap \in Int
  BY <1>0, <1>2, <1>5, Caps
<1>6. f \in 1 .. pushed' /\ f > pushed' - Cap' /\ s = Slot(f)' /\ ring'[s].fr = f
  <2>1. f \in 1 .. pushed' /\ f > pushed' - Cap
    <3>1. f \in Int /\ f >= 1 /\ f <= pushed
      BY ONLY <1>10, Zenon
    <3>2. pushed \in Nat /\ pushed' \in Nat /\ pushed' \in {pushed, pushed + 1}
      BY ONLY <1>2, <1>5, <1>11, Zenon
    <3> QED
      BY ONLY <3>1, <3>2, f > pushed' - Cap
  <2> QED
    BY <1>1, <1>4, <1>10, <2>1, Zenon
<1>7. ring'[s].typed /\ (f <= Final' \/ flushing')
  <2>1. f <= Final \/ flushing
    BY <1>3, Zenon DEF Recalled
  <2>2. f <= Final => f <= Final'
    BY ONLY <1>5, <1>10
  <2> QED
    BY <1>4, <1>5, <2>1, <2>2, Zenon
<1>8. f <= Taken' => ring'[s].anchor
  BY <1>3, <1>4 DEF Recalled
<1>9. ASSUME memo'[s].seed # << >>
      PROVE  memo'[s].seed = <<Legs(ring'[s])>> /\ (f < done' - cfg.bframes \/ flushing')
  <2>1. memo[s].seed = <<Legs(ring[s])>> /\ (f < done - cfg.bframes \/ flushing)
    BY <1>3, <1>9 DEF Recalled
  <2>2. f < done - cfg.bframes => f < done' - cfg.bframes
    BY <1>2, <1>5, <1>10
  <2> QED
    BY <1>4, <1>5, <1>9, <2>1, <2>2
<1> QED
  BY <1>0, <1>1, <1>6, <1>7, <1>8, <1>9 DEF Recalled, Legs

\* A slot is used again after a turn of the ring.
LEMMA SlotTurn == ASSUME cfg \in Shapes, NEW s \in Int PROVE Slot(s + Cap) = Slot(s)
<1>1. Cap \in Nat \ {0}
  BY Caps
<1>2. PICK a \in Int : a = s - 1
  OBVIOUS
<1>3. (a + Cap) % Cap = a % Cap
  BY <1>1, ModTurn
<1>4. (s + Cap) - 1 = a + Cap
  BY <1>1, <1>2
<1> QED
  BY <1>2, <1>3, <1>4 DEF Slot

\* A memo computed anew, for the frame f of an entry that is final.
LEMMA Computed ==
  ASSUME IInv, [Next]_vars, ring' = ring, pushed' = pushed, done' = done, flushing' = flushing,
         Taken' = Taken, cpc' = cpc,
         NEW f \in Int, Taken < f, pushed - Cap < f, f >= 1, f <= pushed, f <= done,
         f <= Final \/ flushing,
         NEW s \in Slots, s = Slot(f), ring[s].typed,
         memo'[s].data[1] = f,
         NEW settled \in BOOLEAN, settled => f < done - cfg.bframes \/ flushing,
         memo'[s].seed = Seed(ring[s], settled)
  PROVE  Recalled(s, f)'
<1>0. TypeOK /\ cfg \in Shapes /\ cfg' = cfg /\ Charted
  BY Movers DEF IInv, TypeOK
<1>1. Cap' = Cap /\ \A x : Slot(x)' = Slot(x)
  BY <1>0, Fixed
<1>2. pushed \in Nat /\ done \in Nat /\ Taken \in Int /\ Cap \in Nat \ {0} /\ Final' = Final
  BY <1>0, Numbers, Caps, Onward DEF Final
<1>3. ring[s].fr = f
  <2>1. f \in 1 .. Analysed /\ f > Analysed - Cap
    <3>1. Analysed \in {done, done + 1} /\ Analysed <= pushed
      <4>1. cpc \in {"analyse", "finalize", "publish"} => done < pushed
        BY DEF IInv, Pace
      <4>2. done <= pushed
        BY DEF IInv, Pace
      <4> QED
        BY <1>2, <4>1, <4>2 DEF Analysed
    <3> QED
      BY <1>2, <3>1
  <2> QED
    BY <1>0, <2>1 DEF Charted
<1>4. ~(f <= Taken')
  BY <1>2
<1>5. memo'[s].seed # << >> => memo'[s].seed = <<Legs(ring[s])>> /\ settled
  BY DEF Seed
<1>6. f \in 1 .. pushed' /\ f > pushed' - Cap'
  BY <1>1, <1>2
<1> QED
  BY <1>0, <1>1, <1>2, <1>3, <1>4, <1>5, <1>6 DEF Recalled, Legs

LEMMA RememberedKept == ASSUME IInv, [Next]_vars PROVE Remembered'
<1>0. /\ Counts /\ Pace /\ Charted /\ Runs /\ Ahead /\ Remembered /\ TypeOK /\ cfg \in Shapes
      /\ cfg' = cfg
  BY Movers DEF IInv, TypeOK
<1>1. /\ Cap' = Cap /\ Cap \in Nat \ {0} /\ cfg.bframes \in Nat /\ Slots' = Slots
      /\ cfg.depth \in Nat /\ cfg.depth >= cfg.bframes + 3 /\ Cap >= cfg.depth /\ Cap \in Int
  BY <1>0, Fixed, Caps
<1>2. /\ pushed \in Nat /\ done \in Nat /\ flushing \in BOOLEAN /\ pop_seq \in Nat /\ la_n \in Nat
      /\ pushed = pop_seq + la_n /\ la_n <= Cap /\ (apc # "pop" => la_n < Cap)
      /\ job.popseq \in Nat /\ job.pushed \in Nat /\ job.navail \in Nat
  <2>1. /\ pushed \in Nat /\ done \in Nat /\ flushing \in BOOLEAN /\ pop_seq \in Nat /\ la_n \in Nat
        /\ job.popseq \in Nat /\ job.pushed \in Nat /\ job.navail \in Nat
    BY <1>0, Numbers
  <2>2. pushed = pop_seq + la_n /\ la_n <= Cap /\ (apc # "pop" => la_n < Cap)
    BY <1>0, <1>1, <2>1 DEF Counts
  <2> QED
    BY <2>1, <2>2
<1>3. Taken \in Int /\ Taken <= pop_seq /\ Taken' \in Int /\ Final \in Int /\ Final >= done - 1
  BY <1>2, Onward DEF Taken, Final
<1> SUFFICES ASSUME NEW s \in Slots, memo'[s].valid
             PROVE  Recalled(s, memo[s].data[1])'
  BY <1>1 DEF Remembered
<1> PICK f : f = memo'[s].data[1]
  OBVIOUS
<1> SUFFICES Recalled(s, f)'
  BY DEF Recalled
<1>4. ASSUME memo[s].valid, memo'[s] = memo[s]
      PROVE  f \in Int /\ f > pushed - Cap /\ s = Slot(f) /\ f = memo[s].data[1]
  <2>1. Recalled(s, f)
    BY <1>0, <1>4 DEF Remembered
  <2>2. f \in 1 .. pushed /\ f > pushed - Cap /\ s = Slot(f)
    BY <2>1 DEF Recalled
  <2> QED
    BY <1>2, <1>4, <2>2
<1>5. CASE Push
  <2>1. /\ pushed' = pushed + 1 /\ memo' = [memo EXCEPT ![PadSlot].valid = FALSE]
        /\ apc = "pad" /\ pop_seq' = pop_seq
    BY <1>5 DEF Push
  <2>2. PadSlot = Slot(pushed + 1) /\ PadSlot \in Slots
    BY <1>0, Padded
  <2>3. memo = [x \in Slots |-> memo[x]] /\ \A x \in Slots : IsMemo(memo[x])
    BY <1>0 DEF TypeOK
  <2>4. s # PadSlot /\ memo'[s] = memo[s]
    BY <2>1, <2>2, <2>3, Cleared
  <2>5. f # pushed + 1 - Cap
    <3> SUFFICES ASSUME f = pushed + 1 - Cap PROVE FALSE
      OBVIOUS
    <3>1. f \in Int /\ f + Cap = pushed + 1
      BY <1>1, <1>2
    <3>2. Slot(pushed + 1) = Slot(f)
      BY <1>0, <3>1, SlotTurn
    <3> QED
      BY <1>4, <2>2, <2>4, <3>2
  <2>6. f > pushed' - Cap
    BY <1>1, <1>2, <1>4, <2>1, <2>4, <2>5
  <2>7. Taken' = Taken
    BY <1>5, Onward DEF Push, TakeB, TakeAnchor
  <2> QED
    BY <1>4, <2>4, <2>6, <2>7, RecalledKept
<1>6. CASE TakeB
  <2>1. /\ memo' = [memo EXCEPT ![cur].valid = FALSE] /\ apc = "take" /\ pushed' = pushed
    BY <1>6, Zenon DEF TakeB
  <2>2. cur = Slot(pop_seq) /\ pop_seq \in Int
    BY <1>0, <1>2, <2>1 DEF Counts, InHand
  <2>3. cur \in Slots
    BY <1>0, <2>2, SlotIn
  <2>4. memo = [x \in Slots |-> memo[x]] /\ \A x \in Slots : IsMemo(memo[x])
    BY <1>0 DEF TypeOK
  <2>5. s # cur /\ memo'[s] = memo[s]
    BY <2>1, <2>3, <2>4, Cleared
  <2>6. f # pop_seq /\ f \in Int /\ f > pushed - Cap
    BY <1>4, <2>2, <2>5
  <2>7. f <= Taken' => f <= Taken
    BY <1>2, <1>3, <2>6, Onward
  <2> QED
    BY <1>4, <2>1, <2>5, <2>6, <2>7, RecalledKept
<1>7. CASE Walk
  <2>1. /\ apc = "walk" /\ memo' = WindowMemos(memo) /\ ring' = ring /\ pushed' = pushed
        /\ done' = done /\ flushing' = flushing /\ cpc' = cpc
    BY <1>7 DEF Walk, chain
  <2>2. Taken' = Taken /\ Taken = pop_seq
    BY <1>7, <2>1, Onward DEF Walk, TakeB, TakeAnchor, Taken, Untaken
  <2> PICK r : r = Reach(la_head, 0, Least(la_n, wcap))
    OBVIOUS
  <2> PICK A : A = <<[poc |-> Poc(ring[cur]), fr |-> ring[cur].fr]>> \o Anchors(la_head, 0, r)
    OBVIOUS
  <2> PICK i : i = (s + Cap - la_head) % Cap
    OBVIOUS
  <2>3. memo' = [x \in Slots |->
           LET j == (x + Cap - la_head) % Cap
               en == ring[x]
           IN  IF j < r THEN Refreshed(memo[x], en.fr, Past(A, Poc(en)), Future(A, Poc(en)),
                                       Seed(en, j <= SettledOff))
               ELSE memo[x]]
    BY <2>1, Zenon DEF WindowMemos
  <2>4. memo'[s] = IF i < r
                   THEN Refreshed(memo[s], ring[s].fr, Past(A, Poc(ring[s])),
                                  Future(A, Poc(ring[s])), Seed(ring[s], i <= SettledOff))
                   ELSE memo[s]
    BY <2>3
  <2>5. ASSUME memo'[s] = memo[s] PROVE Recalled(s, f)'
    <3>1. f <= Taken' => f <= Taken
      BY <2>2
    <3>2. f > pushed' - Cap
      BY <1>4, <2>1, <2>5
    <3> QED
      BY <1>4, <2>5, <3>1, <3>2, RecalledKept
  <2>6. ASSUME i < r, memo'[s].data[1] = ring[s].fr, memo'[s].seed = Seed(ring[s], i <= SettledOff)
        PROVE  Recalled(s, f)'
    <3>1. wcap \in Int /\ wcap = cfg.depth - 2 /\ la_n \in Int /\ la_head \in Int /\ pop_seq \in Int
      BY <1>0, <1>2, Limits, Numbers
    <3>2. Least(la_n, wcap) \in Int /\ Least(la_n, wcap) <= la_n /\ Least(la_n, wcap) <= wcap
      BY <3>1, Leasts
    <3>3. /\ r \in Int /\ r <= la_n /\ r <= wcap
          /\ \A k \in Int : 0 <= k /\ k < r => ring[At(la_head, k)].typed
      <4>1. 0 \in Nat
        OBVIOUS
      <4>2. /\ r \in Int /\ r <= Least(la_n, wcap)
            /\ \A k \in Int : 0 <= k /\ k < r => ring[At(la_head, k)].typed
        BY <3>2, <4>1, Reaching
      <4> QED
        BY <3>1, <3>2, <4>2
    <3>4. la_head = pop_seq % Cap
      BY <1>0 DEF Counts
    <3>5. i \in Int /\ 0 <= i /\ i < Cap /\ s = Slot(pop_seq + i + 1)
      BY <1>0, <3>1, <3>4, Offset
    <3> PICK g \in Int : g = pop_seq + i + 1
      BY <1>2, <3>5
    <3>6. ring[s].typed
      <4>1. At(la_head, i) = s
        BY ONLY <1>0, <3>1, <3>4, <3>5, AtHead
      <4> QED
        BY ONLY <2>6, <3>3, <3>5, <4>1
    <3>7. ~flushing => done >= pop_seq + cfg.depth - 1
      BY <1>0, <2>1 DEF Pace
    <3>8. flushing => done = pushed
      BY <1>0 DEF Pace
    <3>9. /\ Taken < g /\ pushed - Cap < g /\ g >= 1 /\ g <= pushed /\ g <= done
          /\ (g <= Final \/ flushing)
      <4>1. g <= pushed /\ g > pop_seq /\ g >= 1 /\ pushed - Cap < g
        <5>1. i < r /\ la_n < Cap
          BY <1>2, <2>1, <2>6
        <5> QED
          BY ONLY <1>1, <1>2, <3>3, <3>5, <5>1, g \in Int, g = pop_seq + i + 1
      <4>2. CASE flushing
        BY ONLY <1>2, <2>2, <3>8, <4>1, <4>2, g \in Int
      <4>3. CASE ~flushing
        <5>1. i < r /\ done >= pop_seq + cfg.depth - 1
          BY <2>6, <3>7, <4>3
        <5> QED
          BY ONLY <1>1, <1>2, <1>3, <2>2, <3>1, <3>3, <3>5, <4>1, <5>1, g \in Int, g = pop_seq + i + 1
      <4> QED
        BY <1>2, <4>2, <4>3
    <3>10. (i <= SettledOff) => g < done - cfg.bframes \/ flushing
      <4> SUFFICES ASSUME i <= SettledOff, ~flushing PROVE g < done - cfg.bframes
        OBVIOUS
      <4>1. i <= cfg.depth - 4 - cfg.bframes
        BY DEF SettledOff
      <4>2. done >= pop_seq + cfg.depth - 1
        BY <3>7
      <4> QED
        BY ONLY <1>1, <1>2, <3>5, <4>1, <4>2, g \in Int, g = pop_seq + i + 1
    <3>11. g = ring[s].fr
      <4>1. g \in 1 .. Analysed /\ g > Analysed - Cap
        <5>1. Analysed \in {done, done + 1} /\ Analysed <= pushed
          <6>1. done <= pushed /\ (cpc \in {"analyse", "finalize", "publish"} => done < pushed)
            BY <1>0 DEF Pace
          <6> QED
            BY <1>2, <6>1 DEF Analysed
        <5> QED
          BY ONLY <1>1, <1>2, <3>9, <5>1, g \in Int
      <4>2. s = Slot(g)
        BY <3>5
      <4> QED
        BY <1>0, <4>1, <4>2 DEF Charted
    <3>12. f = g
      BY <2>6, <3>11
    <3> PICK b \in BOOLEAN : b = (i <= SettledOff)
      BY ONLY (i <= SettledOff) \in BOOLEAN, Zenon
    <3>13. b => g < done - cfg.bframes \/ flushing
      BY <3>10
    <3>14. memo'[s].seed = Seed(ring[s], b) /\ memo'[s].data[1] = g /\ s = Slot(g)
      BY <2>6, <3>5, <3>11
    <3>15. Recalled(s, g)'
      BY <2>1, <2>2, <3>6, <3>9, <3>13, <3>14, Computed
    <3> QED
      BY <3>12, <3>15
  <2>7. IsMemo(memo[s])
    BY <1>0 DEF TypeOK
  <2>8. CASE i < r
    <3>1. memo'[s] = Refreshed(memo[s], ring[s].fr, Past(A, Poc(ring[s])),
                                  Future(A, Poc(ring[s])), Seed(ring[s], i <= SettledOff))
      BY <2>4, <2>8
    <3>2. \/ memo'[s] = memo[s]
          \/ memo'[s].data[1] = ring[s].fr /\ memo'[s].seed = Seed(ring[s], i <= SettledOff)
      BY <2>7, <3>1, Refreshing
    <3> QED
      BY <2>5, <2>6, <2>8, <3>2
  <2>9. CASE ~(i < r)
    BY <2>4, <2>5, <2>9
  <2> QED
    BY <2>8, <2>9
<1>8. CASE WarmPhaseA
  <2> PICK settled \in Int : settled = Lim - 2 - cfg.bframes
    BY <1>0, Limits
  <2> PICK h : h = job.head
    OBVIOUS
  <2> PICK r : r = Reach(h, wi + 1, Least(Lim, wi + wcap + 1))
    OBVIOUS
  <2> PICK A : A = <<[poc |-> wpoc, fr |-> ring[At(h, wi)].fr]>> \o Anchors(h, wi + 1, r)
    OBVIOUS
  <2> PICK i : i = (s + Cap - h) % Cap
    OBVIOUS
  <2>1. /\ wpc = "phaseA" /\ ring' = ring /\ pushed' = pushed
        /\ done' = done /\ flushing' = flushing /\ cpc' = cpc
    BY <1>8 DEF WarmPhaseA, chain, api
  <2>2. Taken' = Taken
    BY <1>8 DEF WarmPhaseA, api, Taken, Untaken
  <2>3. memo' = [x \in Slots |->
           LET j == (x + Cap - h) % Cap
               en == ring[x]
           IN  IF j > wi /\ j < r /\ j >= lo /\ j <= WarmBound(settled)
               THEN Refreshed(memo[x], en.fr, Past(A, Poc(en)), Future(A, Poc(en)),
                              Seed(en, j <= settled))
               ELSE memo[x]]
    BY <1>8, Zenon DEF WarmPhaseA
  <2>4. memo'[s] = IF i > wi /\ i < r /\ i >= lo /\ i <= WarmBound(settled)
                   THEN Refreshed(memo[s], ring[s].fr, Past(A, Poc(ring[s])),
                                  Future(A, Poc(ring[s])), Seed(ring[s], i <= settled))
                   ELSE memo[s]
    BY <2>3
  <2>5. ASSUME memo'[s] = memo[s] PROVE Recalled(s, f)'
    <3>1. f <= Taken' => f <= Taken
      BY <2>2
    <3>2. f > pushed' - Cap
      BY <1>4, <2>1, <2>5
    <3> QED
      BY <1>4, <2>5, <3>1, <3>2, RecalledKept
  <2>6. ASSUME i < r, i >= lo, memo'[s].data[1] = ring[s].fr,
               memo'[s].seed = Seed(ring[s], i <= settled)
        PROVE  Recalled(s, f)'
    <3>1. /\ Lim \in Nat /\ Lim <= job.navail /\ wcap \in Int /\ wi \in Nat
          /\ lo = cfg.bframes + 2 /\ wi + 1 \in Nat /\ wi + wcap + 1 \in Int
      <4>1. Lim \in Nat /\ Lim <= job.navail /\ wcap \in Int /\ wi \in Nat /\ lo = cfg.bframes + 2
        BY <1>0, Limits, Numbers
      <4> QED
        BY ONLY <4>1
    <3>2. Least(Lim, wi + wcap + 1) \in Int /\ Least(Lim, wi + wcap + 1) <= Lim
      BY <3>1, Leasts
    <3>3. r \in Int /\ r <= Lim
      <4>1. r \in Int /\ r <= Least(Lim, wi + wcap + 1)
        BY <3>1, <3>2, Reaching
      <4> QED
        BY <3>1, <3>2, <4>1
    <3>4. /\ req /\ h = job.popseq % Cap /\ h \in Int /\ job.pushed = job.popseq + job.navail
          /\ job.pushed <= pushed /\ done >= job.popseq + Lim + 1
      BY <1>0, <2>1, Limits, Numbers DEF Ahead
    <3>5. pop_seq <= job.popseq + cfg.bframes + 1
      BY <1>0, <3>4, Passed
    <3>6. i \in Int /\ 0 <= i /\ i < Cap /\ s = Slot(job.popseq + i + 1)
      <4>1. job.popseq \in Int
        BY <1>2
      <4> QED
        BY <1>0, <3>4, <4>1, Offset
    <3> PICK g \in Int : g = job.popseq + i + 1
      BY <1>2, <3>6
    <3>7. /\ Taken < g /\ pushed - Cap < g /\ g >= 1 /\ g <= pushed /\ g <= done /\ g <= Final
          /\ pop_seq < g
      <4>1. i < r /\ i >= lo
        BY <2>6
      <4> QED
        BY ONLY <1>1, <1>2, <1>3, <3>1, <3>3, <3>4, <3>5, <3>6, <4>1, g \in Int, g = job.popseq + i + 1
    <3>8. (i <= settled) => g < done - cfg.bframes
      BY ONLY <1>1, <1>2, <3>1, <3>4, <3>6, g \in Int, g = job.popseq + i + 1,
         settled = Lim - 2 - cfg.bframes, settled \in Int
    <3>9. g = ring[s].fr /\ ring[s].typed
      <4>1. g \in 1 .. Analysed /\ g > Analysed - Cap
        <5>1. Analysed \in {done, done + 1} /\ Analysed <= pushed
          <6>1. done <= pushed /\ (cpc \in {"analyse", "finalize", "publish"} => done < pushed)
            BY <1>0 DEF Pace
          <6> QED
            BY <1>2, <6>1 DEF Analysed
        <5> QED
          BY <1>1, <1>2, <3>7, <5>1
      <4>2. s = Slot(g)
        BY <3>6
      <4> QED
        BY <1>0, <3>7, <4>1, <4>2 DEF Charted
    <3>12. f = g
      BY <2>6, <3>9
    <3> PICK b \in BOOLEAN : b = (i <= settled)
      BY ONLY (i <= settled) \in BOOLEAN, Zenon
    <3>13. b => g < done - cfg.bframes \/ flushing
      BY <3>8
    <3>14. memo'[s].seed = Seed(ring[s], b) /\ memo'[s].data[1] = g /\ s = Slot(g)
      BY <2>6, <3>6, <3>9
    <3>15. Recalled(s, g)'
      BY <2>1, <2>2, <3>7, <3>9, <3>13, <3>14, Computed
    <3> QED
      BY <3>12, <3>15
  <2>7. IsMemo(memo[s])
    BY <1>0 DEF TypeOK
  <2>8. CASE i > wi /\ i < r /\ i >= lo /\ i <= WarmBound(settled)
    <3>1. memo'[s] = Refreshed(memo[s], ring[s].fr, Past(A, Poc(ring[s])),
                               Future(A, Poc(ring[s])), Seed(ring[s], i <= settled))
      BY <2>4, <2>8
    <3>2. \/ memo'[s] = memo[s]
          \/ memo'[s].data[1] = ring[s].fr /\ memo'[s].seed = Seed(ring[s], i <= settled)
      BY <2>7, <3>1, Refreshing
    <3> QED
      BY <2>5, <2>6, <2>8, <3>2
  <2>9. CASE ~(i > wi /\ i < r /\ i >= lo /\ i <= WarmBound(settled))
    <3>1. memo'[s] = memo[s]
      BY <2>4, <2>9
    <3> QED
      BY <2>5, <3>1
  <2> QED
    BY <2>8, <2>9
<1>9. CASE ~Push /\ ~TakeB /\ ~Walk /\ ~WarmPhaseA
  <2>1. memo'[s] = memo[s] /\ pushed' = pushed
    BY <1>9, Movers
  <2>2. f \in Int /\ f > pushed - Cap /\ s = Slot(f) /\ f = memo[s].data[1]
    BY <1>4, <2>1
  <2>3. f <= Taken' => f <= Taken \/ ring[s].anchor
    <3>1. CASE Taken' = Taken
      BY <3>1
    <3>2. CASE TakeAnchor /\ Taken' = Taken + 1 /\ Taken' = pop_seq
      <4>1. apc = "take" /\ ring[cur].anchor
        BY <3>2 DEF TakeAnchor
      <4>2. cur = Slot(pop_seq)
        BY <1>0, <4>1 DEF Counts, InHand
      <4>3. f <= Taken' => f <= Taken \/ f = pop_seq
        BY ONLY <1>2, <1>3, <2>2, <3>2
      <4> QED
        BY <2>2, <4>1, <4>2, <4>3
    <3> QED
      BY <1>9, <3>1, <3>2, Onward
  <2> QED
    BY <2>1, <2>2, <2>3, RecalledKept
<1> QED
  BY <1>5, <1>6, <1>7, <1>8, <1>9

\* The entry of a frame already taken keeps its legs, or is of another frame.
LEMMA TakenKept ==
  ASSUME IInv, [Next]_vars, ~flushing', NEW f \in 1 .. Taken
  PROVE  ring'[Slot(f)].fr = f =>
           ring[Slot(f)].fr = f /\ ring'[Slot(f)].bleg = ring[Slot(f)].bleg
<1>0. Counts /\ Pace /\ Slotted /\ Charted /\ Cadence /\ TypeOK /\ cfg \in Shapes
  BY DEF IInv, TypeOK
<1>1. /\ pushed \in Nat /\ done \in Nat /\ flushing \in BOOLEAN /\ ch.brun \in Nat
      /\ cfg.bframes \in Nat /\ Cap \in Nat /\ Cap >= cfg.bframes + 3 /\ ch.brun <= cfg.bframes
  BY <1>0, Numbers, Caps, SMTT(60) DEF Cadence
<1>2. ~flushing /\ Taken \in Int /\ f \in Int /\ f >= 1 /\ f <= Taken
  BY Onward
<1>3. done >= Taken + cfg.bframes + 2
  BY <1>0, <1>2 DEF Pace
<1>4. Slot(f) \in Slots
  BY <1>0, <1>2, SlotIn
<1>5. CASE ChainAnalyse
  <2>1. /\ cpc = "analyse"
        /\ ring' = [ring EXCEPT ![Entry] =
                      [Blank EXCEPT !.fr = plane[Entry], !.aleg = ring[Entry].aleg]]
    BY <1>5 DEF ChainAnalyse
  <2>2. plane[Entry] = done + 1 /\ Entry \in Slots
    BY <1>0, <2>1, Entered
  <2>3. ring = [x \in Slots |-> ring[x]]
    BY <1>0 DEF TypeOK
  <2>4. CASE Slot(f) = Entry
    <3>1. ring'[Entry] = [Blank EXCEPT !.fr = done + 1, !.aleg = ring[Entry].aleg]
      BY <2>1, <2>2, <2>3
    <3> PICK a : a = ring[Entry].aleg
      OBVIOUS
    <3> PICK n : n = done + 1
      OBVIOUS
    <3> PICK y : y = ring'[Entry]
      OBVIOUS
    <3>4. y = [Blank EXCEPT !.fr = n, !.aleg = a]
      BY <3>1
    <3>5. y = [fr |-> n, typed |-> FALSE, anchor |-> FALSE, idr |-> FALSE, since |-> 0,
               cleared |-> FALSE, bleg |-> << >>, aleg |-> a]
      BY ONLY <3>4, Blanked, Zenon
    <3>6. y.fr = n
      BY ONLY <3>5
    <3>2. ring'[Entry].fr = n
      BY <3>6
    <3>3. ~(ring'[Slot(f)].fr = f)
      BY <1>1, <1>2, <1>3, <2>4, <3>2
    <3> QED
      BY <3>3
  <2>5. CASE Slot(f) # Entry
    BY <1>4, <2>1, <2>3, <2>5
  <2> QED
    BY <2>4, <2>5
<1>6. CASE ChainFinalize /\ ch.prev # None
  <2>1. Typing(done) /\ cpc = "finalize"
    BY <1>6, ChainTypes DEF ChainFinalize
  <2>2. ring'[Slot(f)].fr = ring[Slot(f)].fr
    BY <1>4, <2>1 DEF Typing
  <2>3. ASSUME ring[Slot(f)].fr = f, NEW j \in 1 .. ch.brun, Slot(f) = Slot(done - j) PROVE FALSE
    <3>1. j \in Int /\ 1 <= j /\ j <= cfg.bframes
      BY <1>1
    <3> PICK g \in Int : g = done - j
      BY <1>1, <3>1
    <3>2. Analysed = done + 1
      BY <2>1 DEF Analysed
    <3>3. g \in 1 .. Analysed /\ g > Analysed - Cap /\ g > f
      BY <1>1, <1>2, <1>3, <3>1, <3>2
    <3>4. ring[Slot(g)].fr = g
      BY <1>0, <3>3 DEF Charted
    <3> QED
      BY <1>2, <2>3, <3>3, <3>4
  <2> QED
    BY <1>4, <2>1, <2>2, <2>3 DEF Typing
<1>7. CASE TakeTail
  BY <1>2, <1>7, TailTypes
<1>8. CASE ~ChainAnalyse /\ ~(ChainFinalize /\ ch.prev # None) /\ ~TakeTail
  <2>1. ring' = ring
    BY <1>8, Movers DEF ChainFinalize
  <2> QED
    BY <2>1
<1> QED
  BY <1>5, <1>6, <1>7, <1>8

LEMMA KeptKept == ASSUME IInv, [Next]_vars PROVE Kept'
<1>0. Counts /\ Pace /\ Charted /\ Kept /\ TypeOK /\ cfg \in Shapes /\ cfg' = cfg
  BY Movers DEF IInv, TypeOK
<1>1. \A s : Slot(s)' = Slot(s)
  BY <1>0, Fixed
<1>2. pushed \in Nat /\ done \in Nat /\ pop_seq \in Nat /\ cfg.bframes \in Nat /\ Cap \in Nat
      /\ la_n \in Nat /\ Len(bbuf) \in Nat
  BY <1>0, Numbers, Caps
<1>3. Taken \in Int /\ Taken' \in Int /\ Taken' >= Taken
  BY Onward
<1> SUFFICES ASSUME ~flushing', NEW k \in 1 .. Len(bbuf')
             PROVE  /\ bbuf'[k].fr \in 1 .. Taken'
                    /\ ring'[Slot(bbuf'[k].fr)].fr = bbuf'[k].fr =>
                         bbuf'[k].seed = ring'[Slot(bbuf'[k].fr)].bleg
  BY <1>1 DEF Kept
<1>4. ~flushing
  BY Onward
<1>5. ASSUME k \in 1 .. Len(bbuf), bbuf'[k].fr = bbuf[k].fr, bbuf'[k].seed = bbuf[k].seed
      PROVE  /\ bbuf'[k].fr \in 1 .. Taken'
             /\ ring'[Slot(bbuf'[k].fr)].fr = bbuf'[k].fr =>
                         bbuf'[k].seed = ring'[Slot(bbuf'[k].fr)].bleg
  <2> PICK f : f = bbuf[k].fr
    OBVIOUS
  <2>1. f \in 1 .. Taken /\ (ring[Slot(f)].fr = f => bbuf[k].seed = ring[Slot(f)].bleg)
    BY <1>0, <1>4, <1>5 DEF Kept
  <2>2. ring'[Slot(f)].fr = f =>
           ring[Slot(f)].fr = f /\ ring'[Slot(f)].bleg = ring[Slot(f)].bleg
    BY <2>1, TakenKept
  <2>3. f \in 1 .. Taken'
    BY <1>3, <2>1
  <2> QED
    BY <1>5, <2>1, <2>2, <2>3
<1>6. CASE TakeB
  <2> PICK e : e = [poc |-> Poc(ring[cur]), fr |-> ring[cur].fr, memo |-> memo[cur],
                    plain |-> plain[cur],
                    seed |-> IF ring[cur].bleg # << >> /\ ring[cur].bleg[1] < Poc(ring[cur])
                                  /\ Poc(ring[cur]) < ring[cur].bleg[2]
                             THEN ring[cur].bleg ELSE << >>]
    OBVIOUS
  <2>1. bbuf' = Append(bbuf, e) /\ apc = "take" /\ ring' = ring
    BY <1>6, Zenon DEF TakeB
  <2>2. bbuf = [x \in 1 .. Len(bbuf) |-> bbuf[x]]
    BY <1>0 DEF TypeOK
  <2>3. Len(bbuf') = Len(bbuf) + 1 /\ bbuf'[Len(bbuf')] = e /\ \A x \in 1 .. Len(bbuf) : bbuf'[x] = bbuf[x]
    BY <1>2, <2>1, <2>2, Appended
  <2>4. CASE k \in 1 .. Len(bbuf)
    BY <1>5, <2>3, <2>4
  <2>5. CASE k = Len(bbuf) + 1
    <3>1. bbuf'[k] = e
      BY <2>3, <2>5
    <3>2. cur = Slot(pop_seq) /\ pop_seq > 0 /\ pushed = pop_seq + la_n /\ la_n < Cap
      BY <1>0, <2>1 DEF Counts, InHand
    <3>3. done >= pop_seq + cfg.bframes + 2 /\ done <= pushed
          /\ (cpc \in {"finalize", "publish"} => done < pushed)
      BY <1>0, <1>4, <2>1 DEF Pace
    <3>4. pop_seq \in 1 .. Analysed /\ pop_seq > Analysed - Cap
      BY <1>2, <3>2, <3>3, SMTT(60) DEF Analysed
    <3>5. ring[cur].fr = pop_seq
      BY <1>0, <3>2, <3>4 DEF Charted
    <3>6. Taken' = pop_seq
      <4>1. apc' = "ready" /\ pop_seq' = pop_seq
        BY <1>6 DEF TakeB
      <4> QED
        BY <4>1 DEF Taken, Untaken
    <3>7. e.seed = ring[cur].bleg
      <4>1. cur \in Slots
        BY <1>0, <1>2, <3>2, SlotIn
      <4>2. ring[cur].bleg # << >> => ring[cur].bleg[1] < Poc(ring[cur])
                                     /\ Poc(ring[cur]) < ring[cur].bleg[2]
        BY <1>0, <4>1 DEF Charted
      <4> QED
        BY <4>2
    <3>8. e.fr = ring[cur].fr
      OBVIOUS
    <3> QED
      BY <1>2, <2>1, <3>1, <3>2, <3>5, <3>6, <3>7, <3>8
  <2> QED
    BY <1>2, <2>3, <2>4, <2>5
<1>7. CASE TakeAnchor
  <2>1. bbuf' = bbuf \/ bbuf' = << >>
    BY <1>7 DEF TakeAnchor
  <2> QED
    BY <1>5, <2>1
<1>8. CASE WarmLaunch
  <2>1. bbuf' = << >>
    BY <1>8 DEF WarmLaunch
  <2> QED
    BY <2>1
<1>9. CASE Walk
  <2>1. bbuf' = [x \in DOMAIN bbuf |-> [bbuf[x] EXCEPT !.memo = BufferMemo(@, bbuf[x]),
                                                      !.plain = BufferMemo(@, bbuf[x])]]
    BY <1>9, Zenon DEF Walk
  <2>2. DOMAIN bbuf = 1 .. Len(bbuf) /\ \A x \in 1 .. Len(bbuf) : IsStash(bbuf[x])
    BY <1>0 DEF TypeOK
  <2>3. Len(bbuf') = Len(bbuf)
    <3> DEFINE F(x) == [bbuf[x] EXCEPT !.memo = BufferMemo(@, bbuf[x]),
                                       !.plain = BufferMemo(@, bbuf[x])]
    <3>1. bbuf' = [x \in 1 .. Len(bbuf) |-> F(x)]
      BY <2>1, <2>2, Zenon
    <3> HIDE DEF F
    <3>2. DOMAIN bbuf' = 1 .. Len(bbuf)
      BY <3>1
    <3>3. bbuf' \in Seq({F(x) : x \in 1 .. Len(bbuf)})
      BY <1>2, <3>1
    <3> QED
      BY <1>2, <3>2, <3>3
  <2>4. k \in 1 .. Len(bbuf)
    BY <2>3
  <2>5. bbuf'[k] = [bbuf[k] EXCEPT !.memo = BufferMemo(@, bbuf[k]), !.plain = BufferMemo(@, bbuf[k])]
    BY <2>1, <2>2, <2>4
  <2>6. bbuf[k] = [poc |-> bbuf[k].poc, fr |-> bbuf[k].fr, memo |-> bbuf[k].memo,
                   plain |-> bbuf[k].plain, seed |-> bbuf[k].seed]
    BY <2>2, <2>4 DEF IsStash
  <2>7. bbuf'[k].fr = bbuf[k].fr /\ bbuf'[k].seed = bbuf[k].seed
    BY <2>5, <2>6
  <2> QED
    BY <1>5, <2>4, <2>7
<1>10. CASE ~TakeB /\ ~TakeAnchor /\ ~Walk /\ ~WarmLaunch
  <2>1. bbuf' = bbuf
    BY <1>10, Movers
  <2> QED
    BY <1>5, <2>1
<1> QED
  BY <1>6, <1>7, <1>8, <1>9, <1>10

-----------------------------------------------------------------------------
(* The invariant holds.                                                     *)

LEMMA Inductive == ASSUME IInv, [Next]_vars PROVE IInv'
  BY TypeKept, CountsKept, PaceKept, SlottedKept, ChartedKept, CadenceKept, RunsKept, AheadKept,
     RememberedKept, KeptKept DEF IInv

LEMMA Invariant == Spec => []IInv
<1>1. Init => IInv
  BY Beginning
<1>2. IInv /\ [Next]_vars => IInv'
  BY Inductive
<1> QED
  BY <1>1, <1>2, PTL DEF Spec

-----------------------------------------------------------------------------
(* Who is at which frames.                                                  *)

LEMMA Window ==
  ASSUME IInv
  PROVE  /\ cfg \in Shapes /\ Cap \in Nat \ {0} /\ cfg.bframes \in Nat /\ cfg.depth \in Nat
         /\ cfg.depth >= cfg.bframes + 3 /\ Cap >= cfg.depth
         /\ pushed \in Nat /\ pop_seq \in Nat /\ la_n \in Nat /\ done \in Nat
         /\ pushed = pop_seq + la_n /\ la_n <= Cap /\ (apc # "pop" => la_n < Cap)
         /\ la_head = pop_seq % Cap /\ la_head \in Int /\ done <= pushed
<1>1. TypeOK /\ Counts /\ Pace
  BY DEF IInv
<1>2. /\ cfg \in Shapes /\ pushed \in Nat /\ pop_seq \in Nat /\ la_n \in Nat /\ done \in Nat
      /\ la_head \in Int
  BY <1>1, Numbers
<1>3. /\ Cap \in Nat \ {0} /\ cfg.bframes \in Nat /\ cfg.depth \in Nat
      /\ cfg.depth >= cfg.bframes + 3 /\ Cap >= cfg.depth
  BY <1>2, Caps
<1>4. pushed = pop_seq + la_n /\ la_n <= Cap /\ (apc # "pop" => la_n < Cap)
      /\ la_head = pop_seq % Cap
  BY <1>1, <1>2, <1>3 DEF Counts
<1>5. done <= pushed
  BY <1>1 DEF Pace
<1> QED
  BY <1>2, <1>3, <1>4, <1>5

\* A frame of the window is in the ring, and so is one popped but not waited for.
LEMMA InWindow ==
  ASSUME IInv, NEW g \in Int, g <= pushed, pop_seq < g \/ (pop_seq = g /\ apc = "popwait")
  PROVE  Slot(g) \notin Outside
<1>1. CASE pop_seq < g
  <2> PICK i \in Int : i = g - pop_seq - 1
    BY Window
  <2>1. i \in 0 .. la_n - 1 /\ pop_seq + i + 1 = g
    BY <1>1, Window
  <2>2. At(la_head, i) = Slot(g)
    <3>1. pop_seq \in Int /\ la_head \in Int /\ la_head = pop_seq % Cap /\ cfg \in Shapes
      BY Window
    <3>2. At(la_head, i) = Slot(pop_seq + i + 1)
      BY <3>1, AtHead
    <3> QED
      BY <2>1, <3>2
  <2> QED
    BY <2>1, <2>2 DEF Outside
<1>2. CASE pop_seq = g /\ apc = "popwait"
  <2>1. cur = Slot(g)
    BY <1>2 DEF IInv, Counts, InHand
  <2> QED
    BY <1>2, <2>1 DEF Outside
<1> QED
  BY <1>1, <1>2

LEMMA WalkFrames ==
  ASSUME IInv, NEW hi \in Int, NEW s \in WalkReads(hi)
  PROVE  /\ apc = "walk"
         /\ \E g \in Int : s = Slot(g) /\ pop_seq < g /\ g <= pushed /\ g <= pop_seq + hi
<1>1. apc = "walk" /\ \E i \in 0 .. Least(la_n, hi) - 1 : s = At(la_head, i)
  BY DEF WalkReads
<1>2. pop_seq \in Int /\ la_n \in Int /\ la_head \in Int /\ la_head = pop_seq % Cap /\ cfg \in Shapes
      /\ pushed = pop_seq + la_n
  BY Window
<1>3. Least(la_n, hi) \in Int /\ Least(la_n, hi) <= la_n /\ Least(la_n, hi) <= hi
  BY <1>2, Leasts
<1> PICK i \in 0 .. Least(la_n, hi) - 1 : s = At(la_head, i)
  BY <1>1
<1>4. i \in Int /\ 0 <= i /\ i < la_n /\ i < hi
  BY <1>2, <1>3
<1> PICK g \in Int : g = pop_seq + i + 1
  BY <1>2, <1>4
<1>5. s = Slot(g)
  BY <1>2, <1>4, AtHead
<1>6. pop_seq < g /\ g <= pushed /\ g <= pop_seq + hi
  BY ONLY <1>2, <1>4, g \in Int, g = pop_seq + i + 1, hi \in Int
<1> QED
  BY <1>1, <1>5, <1>6

LEMMA WarmFrames ==
  ASSUME IInv, NEW hi \in Int, NEW s \in WarmReads(hi)
  PROVE  /\ wpc = "phaseA" /\ job.popseq \in Int /\ Lim \in Int /\ done >= job.popseq + Lim + 1
         /\ \E g \in Int : /\ s = Slot(g) /\ pop_seq < g /\ g < done
                           /\ g <= job.popseq + hi /\ g <= job.popseq + Lim
<1>0. TypeOK /\ Ahead /\ Runs
  BY DEF IInv
<1>1. wpc = "phaseA" /\ \E i \in lo .. Least(Lim, hi) - 1 : s = At(job.head, i)
  BY DEF WarmReads
<1>2. /\ job.popseq \in Int /\ job.head \in Int /\ pop_seq \in Int /\ done \in Int
      /\ cfg \in Shapes
  BY <1>0, Numbers
<1>3. /\ Lim \in Int /\ lo \in Int /\ lo = cfg.bframes + 2 /\ cfg.bframes \in Nat
      /\ WarmNeed = job.popseq + Lim + 1
  BY <1>0, Limits
<1>4. req /\ done >= WarmNeed /\ job.head = job.popseq % Cap
  BY <1>0, <1>1 DEF Ahead
<1>5. pop_seq <= job.popseq + cfg.bframes + 1
  BY <1>0, <1>4, Passed
<1>6. Least(Lim, hi) \in Int /\ Least(Lim, hi) <= Lim /\ Least(Lim, hi) <= hi
  BY <1>3, Leasts
<1> PICK i \in lo .. Least(Lim, hi) - 1 : s = At(job.head, i)
  BY <1>1
<1>7. i \in Int /\ i >= lo /\ i < Lim /\ i < hi
  BY <1>3, <1>6
<1> PICK g \in Int : g = job.popseq + i + 1
  BY <1>2, <1>7
<1>8. s = Slot(g)
  BY <1>2, <1>4, <1>7, AtHead
<1>9. pop_seq < g /\ g < done /\ g <= job.popseq + hi /\ g <= job.popseq + Lim
      /\ done >= job.popseq + Lim + 1
  BY ONLY <1>2, <1>3, <1>4, <1>5, <1>7, g \in Int, g = job.popseq + i + 1, hi \in Int
<1> QED
  BY <1>1, <1>2, <1>3, <1>8, <1>9

\* The entry the chain analyses, and the one it types.
LEMMA ChainFrames ==
  ASSUME IInv, NEW s \in ChainWrites
  PROVE  /\ ~flushing /\ done < pushed
         /\ \E g \in Int : /\ s = Slot(g) /\ g >= 1 /\ g >= done /\ g <= done + 1
                           /\ pop_seq < g \/ (pop_seq = g /\ apc = "popwait")
<1>0. TypeOK /\ Pace /\ Slotted /\ Charted /\ Counts
  BY DEF IInv
<1>1. cpc \in {"analyse", "finalize"}
  BY DEF ChainWrites
<1>2. /\ done \in Nat /\ pushed \in Nat /\ pop_seq \in Nat /\ cfg.bframes \in Nat
      /\ flushing \in BOOLEAN
  BY <1>0, Window, Numbers
<1>3. done < pushed /\ ~flushing
  BY <1>0, <1>1, <1>2 DEF Pace
<1>4. \E g \in Int : s = Slot(g) /\ g >= 1 /\ g >= done /\ g <= done + 1
  <2>1. CASE cpc = "analyse"
    <3>1. s = Slot(done + 1)
      BY <1>0, <2>1, Entered DEF ChainWrites
    <3>2. done + 1 \in Int /\ done + 1 >= 1
      BY <1>2
    <3> QED
      BY <1>2, <3>1, <3>2
  <2>2. CASE cpc = "finalize"
    <3>1. s = ch.prev /\ ch.prev # None
      BY <2>2 DEF ChainWrites
    <3>2. s = Slot(done) /\ done # 0
      BY <1>0, <2>2, <3>1 DEF Charted
    <3>3. done \in Int /\ done >= 1
      BY <1>2, <3>2
    <3> QED
      BY <1>2, <3>2, <3>3
  <2> QED
    BY <1>1, <2>1, <2>2
<1> PICK g \in Int : s = Slot(g) /\ g >= 1 /\ g >= done /\ g <= done + 1
  BY <1>4
<1>5. Taken > 0 => done >= Taken + cfg.bframes + 2
  BY <1>0, <1>3 DEF Pace
<1>6. apc = "take" => done >= pop_seq + cfg.bframes + 2
  BY <1>0, <1>3 DEF Pace
<1>7. Untaken => pop_seq > 0
  BY <1>0 DEF Counts, InHand, Untaken
<1>8. pop_seq < g \/ (pop_seq = g /\ apc = "popwait")
  <2>1. CASE ~Untaken
    BY <1>2, <1>5, <2>1 DEF Taken
  <2>2. CASE apc = "take"
    BY <1>2, <1>6, <2>2
  <2>3. CASE apc = "popwait"
    <3>1. Taken = pop_seq - 1
      BY <2>3 DEF Taken, Untaken
    <3> QED
      BY <1>2, <1>5, <2>3, <3>1
  <2> QED
    BY <2>1, <2>2, <2>3 DEF Untaken
<1> QED
  BY <1>3, <1>8

\* The leaves of an anchor that is being typed: the run of B's before it.
LEMMA LegFrames ==
  ASSUME IInv, NEW s \in ChainLegs
  PROVE  /\ ~flushing /\ done < pushed
         /\ \E g \in Int : /\ s = Slot(g) /\ g < done /\ g >= done - cfg.bframes
                           /\ pop_seq < g \/ (pop_seq = g /\ apc = "popwait")
<1>0. TypeOK /\ Pace /\ Slotted /\ Charted /\ Counts /\ Cadence /\ Runs
  BY DEF IInv
<1>1. cpc = "finalize" /\ ch.prev # None /\ s \in Leaves(ch.prev, Entry)
  BY DEF ChainLegs
<1>2. /\ done \in Nat /\ pushed \in Nat /\ pop_seq \in Nat /\ cfg.bframes \in Nat
      /\ flushing \in BOOLEAN /\ ch.brun \in Nat /\ ch.brun <= cfg.bframes /\ cfg \in Shapes
      /\ Len(bbuf) \in Nat
  BY <1>0, Window, Numbers DEF Cadence
<1>3. done < pushed /\ ~flushing
  BY <1>0, <1>1, <1>2 DEF Pace
<1>4. ch.prev = Slot(done) /\ done > 0
  BY <1>0, <1>1, <1>2 DEF Charted
<1>5. Entry \in Int /\ Slot(done) \in Slots /\ done \in Int
  BY <1>0, <1>1, <1>2, Entered, SlotIn
<1> PICK f : f = Finalized(Slot(done), Entry)
  OBVIOUS
<1>6. s \in Slots /\ f.ring[s].bleg # ring[s].bleg
  BY <1>1, <1>4 DEF Leaves
<1>7. \E j \in 1 .. ch.brun : s = At(Slot(done), Cap - j)
  BY <1>0, <1>5, <1>6, Finalizing
<1> PICK j \in 1 .. ch.brun : s = At(Slot(done), Cap - j)
  BY <1>7
<1>8. j \in Int /\ 1 <= j /\ j <= ch.brun
  BY <1>2
<1> PICK g \in Int : g = done - j
  BY <1>2, <1>8
<1>9. s = Slot(g)
  BY <1>2, <1>5, <1>8, AtBack
<1>10. g < done /\ g >= done - cfg.bframes /\ g >= done - ch.brun
  BY <1>2, <1>8
<1>11. Taken > 0 => done >= Taken + cfg.bframes + 2
  BY <1>0, <1>3 DEF Pace
<1>12. apc = "take" => done >= pop_seq + cfg.bframes + 2
  BY <1>0, <1>3 DEF Pace
<1>13. Final = done - 1 /\ Final \in Int
  BY <1>1, <1>2, <1>4 DEF Final
<1>14. pop_seq < g \/ (pop_seq = g /\ apc = "popwait")
  <2>1. CASE apc = "take"
    BY <1>2, <1>10, <1>12, <2>1
  <2>2. CASE Taken > 0 /\ apc # "take"
    <3>1. Taken = pop_seq \/ Taken = pop_seq - 1
      BY DEF Taken
    <3> QED
      BY <1>2, <1>10, <1>11, <2>2, <3>1
  <2>3. CASE ~(Taken > 0) /\ apc # "take"
    <3>1. ~Hanging
      BY <2>3 DEF Hanging
    <3>2. apc = "popwait" => pop_seq > 0
      BY <1>0 DEF Counts, InHand
    <3>3. Taken = IF apc = "popwait" THEN pop_seq - 1 ELSE pop_seq
      BY <2>3 DEF Taken, Untaken
    <3>4. Taken = 0
      BY <1>2, <2>3, <3>2, <3>3
    <3>5. Taken <= Final
      BY <1>2, <1>4, <1>13, <3>4
    <3> PICK a \in Int : a = Final - ch.brun
      BY <1>2, <1>13
    <3>6. a = Base \/ a > Taken
      BY <1>0, <3>1, <3>5 DEF Runs, LastRun
    <3>7. Base \in Int /\ Base >= 0
      <4>1. Base \in Int
        BY <1>2, <3>4 DEF Base
      <4> QED
        BY <1>0, <4>1 DEF Runs
    <3>8. a >= 0
      BY <3>4, <3>6, <3>7
    <3>9. g >= 1
      BY <1>2, <1>10, <1>13, <3>8
    <3> QED
      BY <1>2, <3>3, <3>4, <3>9
  <2> QED
    BY <2>1, <2>2, <2>3
<1> QED
  BY <1>3, <1>9, <1>10, <1>14

-----------------------------------------------------------------------------
(* The theorems.                                                            *)

LEMMA KeepsPlanes == ASSUME IInv PROVE PlaneKept
<1>0. Pace /\ Slotted /\ Cap \in Nat /\ done \in Nat /\ pushed \in Nat
  BY Window DEF IInv
<1> SUFFICES ASSUME NEW s \in done + 1 .. pushed PROVE plane[q[s % Cap]] = s
  BY DEF PlaneKept
<1>1. done >= pushed - Cap
  BY <1>0 DEF Pace
<1>2. s \in 1 .. pushed /\ s > pushed - Cap
  BY <1>0, <1>1
<1> QED
  BY <1>0, <1>2 DEF Slotted

LEMMA ChainApart ==
  ASSUME IInv
  PROVE  ChainWrites \cap (Outside \cup WalkReads(wcap) \cup WarmReads(wi + wcap + 1)) = {}
<1> SUFFICES ASSUME NEW s \in ChainWrites,
                    s \in Outside \/ s \in WalkReads(wcap) \/ s \in WarmReads(wi + wcap + 1)
             PROVE  FALSE
  OBVIOUS
<1>0. TypeOK /\ Pace
  BY DEF IInv
<1>1. /\ cfg \in Shapes /\ Cap \in Nat /\ cfg.depth \in Nat /\ pushed \in Nat /\ pop_seq \in Nat
      /\ la_n \in Nat /\ done \in Nat /\ pushed = pop_seq + la_n /\ (apc # "pop" => la_n < Cap)
      /\ la_n <= Cap
  BY Window
<1>2. wcap \in Int /\ wcap = cfg.depth - 2 /\ wi + wcap + 1 \in Int
  <2>1. wcap \in Int /\ wcap = cfg.depth - 2 /\ wi \in Int
    BY <1>0, Limits, Numbers
  <2> QED
    BY ONLY <2>1
<1>3. ~flushing /\ done < pushed
  BY ChainFrames
<1> PICK g \in Int : /\ s = Slot(g) /\ g >= 1 /\ g >= done /\ g <= done + 1
                     /\ pop_seq < g \/ (pop_seq = g /\ apc = "popwait")
  BY ChainFrames
<1>4. g <= pushed
  BY <1>1, <1>3
<1>5. CASE s \in Outside
  BY <1>4, <1>5, InWindow
<1>6. CASE s \in WalkReads(wcap)
  <2>1. apc = "walk"
    BY <1>2, <1>6, WalkFrames
  <2> PICK w \in Int : s = Slot(w) /\ pop_seq < w /\ w <= pushed /\ w <= pop_seq + wcap
    BY <1>2, <1>6, WalkFrames
  <2>2. done >= pop_seq + cfg.depth - 1
    BY <1>0, <1>3, <2>1 DEF Pace
  <2>3. w < g /\ g < w + Cap
    BY <1>1, <1>2, <1>4, <2>1, <2>2
  <2> QED
    BY <1>1, <2>3, SlotApart
<1>7. CASE s \in WarmReads(wi + wcap + 1)
  <2> PICK w \in Int : s = Slot(w) /\ pop_seq < w /\ w < done
    BY <1>2, <1>7, WarmFrames
  <2>1. w < g /\ g < w + Cap
    BY <1>1, <1>4
  <2> QED
    BY <1>1, <2>1, SlotApart
<1> QED
  BY <1>5, <1>6, <1>7

LEMMA LegsApart ==
  ASSUME IInv
  PROVE  ChainLegs \cap (Outside \cup WalkReads(SettledOff + 1)
                           \cup WarmReads(WarmBound(Lim - 2 - cfg.bframes) + 1)) = {}
<1> SUFFICES ASSUME NEW s \in ChainLegs,
                    \/ s \in Outside \/ s \in WalkReads(SettledOff + 1)
                    \/ s \in WarmReads(WarmBound(Lim - 2 - cfg.bframes) + 1)
             PROVE  FALSE
  OBVIOUS
<1>0. TypeOK /\ Pace
  BY DEF IInv
<1>1. /\ cfg \in Shapes /\ Cap \in Nat /\ cfg.depth \in Nat /\ pushed \in Nat /\ pop_seq \in Nat
      /\ la_n \in Nat /\ done \in Nat /\ pushed = pop_seq + la_n /\ (apc # "pop" => la_n < Cap)
      /\ la_n <= Cap /\ cfg.bframes \in Nat
  BY Window
<1>2. ~flushing /\ done < pushed
  BY LegFrames
<1> PICK g \in Int : /\ s = Slot(g) /\ g < done /\ g >= done - cfg.bframes
                     /\ pop_seq < g \/ (pop_seq = g /\ apc = "popwait")
  BY LegFrames
<1>3. CASE s \in Outside
  BY <1>1, <1>2, <1>3, InWindow
<1>4. CASE s \in WalkReads(SettledOff + 1)
  <2>1. SettledOff + 1 \in Int /\ SettledOff + 1 = cfg.depth - 3 - cfg.bframes
    BY <1>1 DEF SettledOff
  <2>2. apc = "walk"
    BY <1>4, <2>1, WalkFrames
  <2> PICK w \in Int : s = Slot(w) /\ pop_seq < w /\ w <= pushed /\ w <= pop_seq + (SettledOff + 1)
    BY <1>4, <2>1, WalkFrames
  <2>3. done >= pop_seq + cfg.depth - 1
    BY <1>0, <1>2, <2>2 DEF Pace
  <2>4. w < g /\ g < w + Cap
    BY <1>1, <1>2, <2>1, <2>2, <2>3
  <2> QED
    BY <1>1, <2>4, SlotApart
<1>5. CASE s \in WarmReads(WarmBound(Lim - 2 - cfg.bframes) + 1)
  <2> PICK hi : hi = WarmBound(Lim - 2 - cfg.bframes) + 1
    OBVIOUS
  <2>1. hi \in Int /\ hi <= Lim - 1 - cfg.bframes
    <3>1. Lim \in Int /\ wi \in Int
      BY <1>0, Limits, Numbers
    <3> PICK a \in Int : a = Lim - 2 - cfg.bframes
      BY <1>1, <3>1
    <3> PICK b \in Int : b = wi + cfg.depth - 4 - cfg.bframes
      BY <1>1, <3>1
    <3>2. WarmBound(Lim - 2 - cfg.bframes) = Least(a, b)
      BY DEF WarmBound
    <3>3. Least(a, b) \in Int /\ Least(a, b) <= a
      BY Leasts
    <3> QED
      BY <1>1, <3>1, <3>2, <3>3
  <2>2. job.popseq \in Int /\ Lim \in Int /\ done >= job.popseq + Lim + 1
    BY <1>5, <2>1, WarmFrames
  <2> PICK w \in Int : s = Slot(w) /\ pop_seq < w /\ w < done /\ w <= job.popseq + hi
    BY <1>5, <2>1, WarmFrames
  <2>3. w < g /\ g < w + Cap
    BY <1>1, <1>2, <2>1, <2>2
  <2> QED
    BY <1>1, <2>3, SlotApart
<1> QED
  BY <1>3, <1>4, <1>5

LEMMA ApiApart == ASSUME IInv PROVE ApiWrites \cap WarmReads(wi + wcap + 1) = {}
<1> SUFFICES ASSUME NEW s \in ApiWrites, s \in WarmReads(wi + wcap + 1) PROVE FALSE
  OBVIOUS
<1>0. TypeOK /\ Counts
  BY DEF IInv
<1>1. /\ cfg \in Shapes /\ Cap \in Nat /\ pushed \in Nat /\ pop_seq \in Nat
      /\ la_n \in Nat /\ done \in Nat /\ pushed = pop_seq + la_n /\ (apc # "pop" => la_n < Cap)
      /\ done <= pushed
  BY Window
<1>2. wi + wcap + 1 \in Int
  <2>1. wcap \in Int /\ wi \in Int
    BY <1>0, Limits, Numbers
  <2> QED
    BY ONLY <2>1
<1> PICK w \in Int : s = Slot(w) /\ pop_seq < w /\ w < done
  BY <1>2, WarmFrames
<1>3. apc = "pad" \/ apc = "take"
  BY DEF ApiWrites
<1>4. CASE apc = "pad"
  <2>1. s = Slot(pushed + 1)
    BY <1>0, <1>1, <1>4, Padded DEF ApiWrites
  <2>2. w < pushed + 1 /\ pushed + 1 < w + Cap /\ pushed + 1 \in Int
    BY <1>1, <1>4
  <2> QED
    BY <1>1, <2>1, <2>2, SlotApart
<1>5. CASE apc = "take" /\ ring[cur].typed
  <2>1. s = cur
    BY <1>5 DEF ApiWrites
  <2>2. cur = Slot(pop_seq)
    BY <1>0, <1>5 DEF Counts, InHand
  <2>3. pop_seq < w /\ w < pop_seq + Cap /\ pop_seq \in Int
    BY <1>1, <1>5
  <2> QED
    BY <1>1, <2>1, <2>2, <2>3, SlotApart
<1>6. CASE apc = "take" /\ ~ring[cur].typed
  BY <1>1, <1>6, AtTail
<1> QED
  BY <1>3, <1>4, <1>5, <1>6

\* The ring's entries are shared without a lock by the chain's thread (la_chain_step,
\* la_finalize), the encode call (la_push, the pop, mb-tree's walk) and the
\* prefetch (mbt_warm_window): for every depth, slack, run of B's and film, none
\* of them writes an entry another is using, and the picture a chain step reads is
\* not padded over before the step is done.
THEOREM RaceFreedom == Spec => []RaceFree
<1>1. IInv => RaceFree
  BY KeepsPlanes, ChainApart, LegsApart, ApiApart DEF RaceFree
<1> QED
  BY <1>1, Invariant, PTL

LEMMA SeesWindow == ASSUME IInv PROVE WalkSeesWindow
<1> SUFFICES ASSUME apc = "walk", NEW i \in 0 .. Least(la_n, wcap) - 1
             PROVE  /\ ring[At(la_head, i)].fr = pop_seq + i + 1
                    /\ \/ ring[At(la_head, i)].typed
                       \/ ring[At(la_head, i)].fr = pushed /\ flushing
  BY DEF WalkSeesWindow
<1>0. TypeOK /\ Pace /\ Charted
  BY DEF IInv
<1>1. /\ cfg \in Shapes /\ Cap \in Nat /\ cfg.depth \in Nat /\ pushed \in Nat /\ pop_seq \in Nat
      /\ la_n \in Nat /\ done \in Nat /\ pushed = pop_seq + la_n /\ la_n < Cap
      /\ la_head = pop_seq % Cap /\ la_head \in Int /\ pop_seq \in Int /\ done <= pushed
  BY Window
<1>2. wcap \in Int /\ wcap = cfg.depth - 2
  BY <1>0, Limits
<1>3. Least(la_n, wcap) \in Int /\ Least(la_n, wcap) <= la_n /\ Least(la_n, wcap) <= wcap
  BY <1>1, <1>2, Leasts
<1>4. i \in Int /\ 0 <= i /\ i < la_n /\ i < wcap
  BY <1>1, <1>2, <1>3
<1> PICK g \in Int : g = pop_seq + i + 1
  BY <1>1, <1>4
<1>5. At(la_head, i) = Slot(g)
  BY <1>1, <1>4, AtHead
<1>6. g >= 1 /\ g <= pushed /\ g > pushed - Cap /\ g > pop_seq /\ g <= pop_seq + wcap
  BY ONLY <1>1, <1>4, <1>2, g \in Int, g = pop_seq + i + 1
<1>7. flushing => done = pushed
  BY <1>0 DEF Pace
<1>8. ~flushing => done >= pop_seq + cfg.depth - 1
  BY <1>0 DEF Pace
<1>9. /\ Analysed \in {done, done + 1} /\ Analysed <= pushed
      /\ Final \in Int /\ Final >= done - 1 /\ Final <= done
  <2>1. cpc \in {"analyse", "finalize", "publish"} => done < pushed
    BY <1>0 DEF Pace
  <2> QED
    BY <1>1, <2>1 DEF Analysed, Final
<1>10. CASE flushing
  <2>1. done = pushed
    BY <1>7, <1>10
  <2>2. g \in 1 .. Analysed /\ g > Analysed - Cap
    BY <1>1, <1>6, <1>9, <2>1
  <2>3. ring[Slot(g)].fr = g /\ (g <= Final => ring[Slot(g)].typed)
    BY <1>0, <2>2 DEF Charted
  <2>4. ~(g <= Final) => g = pushed
    BY <1>1, <1>6, <1>9, <2>1
  <2> QED
    BY <1>5, <1>10, <2>3, <2>4
<1>11. CASE ~flushing
  <2>1. done >= pop_seq + cfg.depth - 1
    BY <1>8, <1>11
  <2>2. g \in 1 .. Analysed /\ g > Analysed - Cap /\ g <= Final
    BY <1>1, <1>2, <1>6, <1>9, <2>1
  <2>3. ring[Slot(g)].fr = g /\ ring[Slot(g)].typed
    BY <1>0, <2>2 DEF Charted
  <2> QED
    BY <1>5, <2>3
<1> QED
  BY <1>10, <1>11

\* la_th_wait_mbtree is enough: compute_mbtree_wholebuf's walk finds in each slot
\* in its reach the frame that was pushed there, analysed and with its type, only
\* the last frame of a flushed stream having none, so that the window is a
\* function of the stream and not of how far the chain thread happens to be.
THEOREM WindowSettled == Spec => []WalkSeesWindow
<1>1. IInv => WalkSeesWindow
  BY SeesWindow
<1> QED
  BY <1>1, Invariant, PTL

LEMMA SeedsFinal == ASSUME IInv PROVE SeedFinal
<1>0. TypeOK /\ Remembered /\ Kept
  BY DEF IInv
<1>1. ASSUME NEW s \in Slots, memo[s].valid, memo[s].seed # << >>
      PROVE  memo[s].seed = <<Legs(ring[s])>>
  BY <1>0, <1>1 DEF Remembered, Recalled
<1>2. ASSUME ~flushing, NEW k \in DOMAIN bbuf
      PROVE  ring[(bbuf[k].fr - 1) % Cap].fr = bbuf[k].fr =>
               bbuf[k].seed = ring[(bbuf[k].fr - 1) % Cap].bleg
  <2>1. k \in 1 .. Len(bbuf)
    BY <1>0, <1>2 DEF TypeOK
  <2>2. ring[Slot(bbuf[k].fr)].fr = bbuf[k].fr => bbuf[k].seed = ring[Slot(bbuf[k].fr)].bleg
    BY <1>0, <1>2, <2>1 DEF Kept
  <2> QED
    BY <2>2 DEF Slot
<1> QED
  BY <1>1, <1>2 DEF SeedFinal

\* The settled bounds of mbt_pa_source and mbt_warm_window are right, and so is
\* stash_lr_seed: legs a memo was computed from, or that a buffered B took with
\* it, are never written again by la_finalize while the frame is in the ring.
THEOREM SeedsSettled == Spec => []SeedFinal
<1>1. IInv => SeedFinal
  BY SeedsFinal
<1> QED
  BY <1>1, Invariant, PTL
===============================================================================
