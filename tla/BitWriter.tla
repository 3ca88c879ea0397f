----------------------------- MODULE BitWriter -----------------------------
(***************************************************************************)
(* The MSB-first bit writer every header and CAVLC slice goes through      *)
(* (src/src/common/bitstream.c), its price-only mode, and the packaging of *)
(* a finished RBSP into a NAL unit (src/src/common/nal.c).                 *)
(*                                                                         *)
(* A writer is a record.  `p` is what has been written to the buffer,      *)
(* `cur` the buffered bits as a sequence (the code's accumulator and its   *)
(* bit count in one), `room` the bytes left before `end`.  A price-only    *)
(* writer keeps nothing but `bits`.  Values stay below 2^31.               *)
(*                                                                         *)
(* The second half is the reader of the standard (7.3.1, 9.1): what a      *)
(* decoder makes of the bytes.                                             *)
(***************************************************************************)
EXTENDS Integers, Sequences, SequencesExt

Byte == 0..255

BitsOf(n, v) == [i \in 1..n |-> (v \div 2^(n - i)) % 2]

RECURSIVE ValueOf(_)
ValueOf(bits) ==
  IF bits = <<>> THEN 0 ELSE 2 * ValueOf(Front(bits)) + Last(bits)

Zeros(n) == [i \in 1..n |-> 0]

\* Op over a sequence from the left.  The value so far is bound by a
\* quantifier, so that TLC has it before it looks at the next step: a run of
\* bins is longer than the folds of the community modules evaluate.
Folded(Op(_, _), base, seq) ==
  LET upto[n \in 0..Len(seq)] ==
        IF n = 0 THEN base
        ELSE CHOOSE next \in {Op(v, seq[n]) : v \in {upto[n - 1]}} : TRUE
  IN  upto[Len(seq)]

\* The smallest n with v < 2^(n+1): what 31 - __builtin_clz(v) computes.
Log2(v) == CHOOSE n \in 0..30 : 2^n <= v /\ v < 2^(n + 1)

---------------------------------------------------------------------------
\* The writer.

bs_init(size) ==
  [p |-> <<>>, cur |-> <<>>, room |-> size, overflow |-> FALSE,
   count_only |-> FALSE, bits |-> 0]

bs_init_count == [bs_init(0) EXCEPT !.count_only = TRUE]

\* Whole bytes leave the accumulator; one that does not fit is dropped.
RECURSIVE flush_bytes(_)
flush_bytes(bs) ==
  IF Len(bs.cur) < 8 THEN bs
  ELSE LET rest == [bs EXCEPT !.cur = SubSeq(@, 9, Len(@))]
       IN  flush_bytes(
             IF bs.room > 0
             THEN [rest EXCEPT !.p = Append(@, ValueOf(SubSeq(bs.cur, 1, 8))),
                               !.room = @ - 1]
             ELSE [rest EXCEPT !.overflow = TRUE])

PutBits(bs, bits) ==
  IF bs.count_only
  THEN [bs EXCEPT !.bits = @ + Len(bits)]
  ELSE flush_bytes([bs EXCEPT !.cur = @ \o bits])

bs_write(bs, count, value) == PutBits(bs, BitsOf(count, value))
bs_write1(bs, bit)         == PutBits(bs, <<bit>>)
bs_write_zero(bs, count)   == PutBits(bs, Zeros(count))

bs_write_ue(bs, value) ==
  LET n == Log2(value + 1)
  IN  IF bs.count_only
      THEN [bs EXCEPT !.bits = @ + 2 * n + 1]
      ELSE bs_write(bs_write_zero(bs, n), n + 1, value + 1)

bs_write_se(bs, value) ==
  bs_write_ue(bs, IF value > 0 THEN 2 * value - 1 ELSE -(2 * value))

bs_pos_bits(bs) == 8 * Len(bs.p) + Len(bs.cur) + bs.bits

\* The padding that ends on a byte boundary: cabac_alignment_one_bit before
\* the arithmetic coder, rbsp_stop_one_bit and zeros after a CAVLC slice.
Padding(bs, bit) == [i \in 1..((8 - Len(bs.cur)) % 8) |-> bit]

bs_align_ones(bs)    == PutBits(bs, Padding(bs, 1))
bs_rbsp_trailing(bs) ==
  LET stopped == bs_write1(bs, 1) IN PutBits(stopped, Padding(stopped, 0))

---------------------------------------------------------------------------
\* y264_nal_write: start code, header byte, and 03 after two zeros wherever
\* the next byte could be read as a start code.

StartCode == <<0, 0, 0, 1>>

RECURSIVE Escaped(_, _)
Escaped(rbsp, zeros) ==
  IF rbsp = <<>> THEN <<>>
  ELSE LET b    == Head(rbsp)
           stop == zeros >= 2 /\ b <= 3
           run  == IF stop THEN 0 ELSE zeros
       IN  (IF stop THEN <<3>> ELSE <<>>) \o <<b>>
           \o Escaped(Tail(rbsp), IF b = 0 THEN run + 1 ELSE 0)

\* The capacity asked of the output buffer before the first byte is written.
NalRoom(n) == 5 + n + (n \div 2) + 1

NoNal == <<>>

nal_write(out_size, ref_idc, type, rbsp) ==
  IF out_size < NalRoom(Len(rbsp))
  THEN NoNal
  ELSE StartCode \o <<32 * ref_idc + type>> \o Escaped(rbsp, 0)

---------------------------------------------------------------------------
\* The reader.  A cursor is a record of the bytes and the next bit's place;
\* a bit past the end is a zero.

OpenBits(bytes) == [buf |-> bytes, pos |-> 0]

BitAt(r) ==
  LET at == r.pos \div 8 + 1
  IN  IF at > Len(r.buf) THEN 0
      ELSE (r.buf[at] \div 2^(7 - (r.pos % 8))) % 2

Skip(r, n) == [r EXCEPT !.pos = @ + n]

ReadBits(r, n) == ValueOf([i \in 1..n |-> BitAt(Skip(r, i - 1))])

\* The zeros before the next one bit (at most 40: longer is not a codeword).
ZerosAhead(r) == CHOOSE n \in 0..40 :
  /\ \A i \in 0..(n - 1) : BitAt(Skip(r, i)) = 0
  /\ n = 40 \/ BitAt(Skip(r, n)) = 1

UeLength(r)  == 2 * ZerosAhead(r) + 1
ReadUe(r)    == LET n == ZerosAhead(r) IN ReadBits(Skip(r, n), n + 1) - 1
ReadSe(r)    == LET k == ReadUe(r)
                IN  IF k % 2 = 1 THEN (k + 1) \div 2 ELSE 0 - (k \div 2)

ByteAligned(r) == [r EXCEPT !.pos = 8 * ((@ + 7) \div 8)]

\* A NAL unit's payload with the emulation prevention bytes taken out again.
RECURSIVE Unescaped(_, _)
Unescaped(bytes, zeros) ==
  IF bytes = <<>> THEN <<>>
  ELSE LET b == Head(bytes)
       IN  IF zeros = 2 /\ b = 3
           THEN Unescaped(Tail(bytes), 0)
           ELSE <<b>> \o Unescaped(Tail(bytes),
                                   IF b = 0 THEN IF zeros = 2 THEN 2 ELSE zeros + 1 ELSE 0)

\* A decoder that looks for start codes finds exactly the one that opens the
\* unit.
OneUnit(nal) ==
  /\ SubSeq(nal, 1, 4) = StartCode
  /\ \A i \in 5..(Len(nal) - 2) :
       ~(nal[i] = 0 /\ nal[i + 1] = 0 /\ nal[i + 2] <= 2)

\* Zero bytes before the next start code belong to the byte stream.
RECURSIVE Stripped(_)
Stripped(nal) == IF Last(nal) = 0 THEN Stripped(Front(nal)) ELSE nal
============================================================================
