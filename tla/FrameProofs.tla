---------------------------- MODULE FrameProofs ----------------------------
(***************************************************************************)
(* Proofs about a frame as bytes.                                          *)
(*  - ShmRing: how the ring passes it on, for a data area, a length field  *)
(*    and payloads of any sizes and any number of frames.                  *)
(*  - WireFrames: how it is laid out and read, for topics, values, tokens, *)
(*    numbers and limits of any sizes.                                     *)
(*                                                                         *)
(* In the ring, what lies between head and tail is described by its        *)
(* boundaries: a sequence of nodes, from cursor 0 to tail.  Each node says *)
(* where it is, how many accepted frames end at or before it, and which    *)
(* frame, or pad, ends at it.                                              *)
(***************************************************************************)
EXTENDS ShmRing, WireFrames, SequenceTheorems, TLAPS

-----------------------------------------------------------------------------
(* Cursors and offsets *)

\* The n bytes from a cursor on do not cross the end of the data area.
Inside(cursor, n) == Offset(cursor) + n <= Cap

LEMMA ModType ==
    ASSUME NEW a \in Nat
    PROVE  /\ Offset(a) \in Offsets /\ Offset(a) \in Nat
           /\ Contig(a) \in Nat \ {0} /\ Contig(a) <= Cap
<1>1. a % Cap \in 0 .. Cap - 1
  BY SizesAssumption
<1> QED
  BY <1>1, SizesAssumption DEF Offset, Offsets, Contig

\* Quotient and remainder.
LEMMA Division ==
    ASSUME NEW a \in Nat
    PROVE  a \div Cap \in Nat /\ a = (Cap * (a \div Cap)) + Offset(a)
  BY SizesAssumption DEF Offset

LEMMA ModUnique ==
    ASSUME NEW q \in Nat, NEW r \in Offsets
    PROVE  Offset((Cap * q) + r) = r
  BY SizesAssumption DEF Offset, Offsets

\* Two cursors less than Cap apart have different offsets.
LEMMA ModDiffers ==
    ASSUME NEW a \in Nat, NEW b \in Nat, a < b, b < a + Cap
    PROVE  Offset(a) # Offset(b)
<1> DEFINE p == a \div Cap
           q == b \div Cap
           d == b - a
<1>1. SUFFICES ASSUME Offset(a) = Offset(b) PROVE FALSE
  OBVIOUS
<1>2. /\ p \in Nat /\ q \in Nat
      /\ a = (Cap * p) + Offset(a) /\ b = (Cap * q) + Offset(a)
  BY <1>1, Division
<1>3. Offset(a) \in Nat
  BY ModType
<1>4. Cap * p \in Int /\ Cap * q \in Int
  BY <1>2, SizesAssumption
<1>5. Cap * q = (Cap * p) + d /\ d \in Int /\ d > 0 /\ d < Cap
  <2> HIDE DEF p, q
  <2> QED
    BY <1>2, <1>3, <1>4, SizesAssumption
<1> HIDE DEF p, q, d
<1> QED
  BY <1>2, <1>5, SizesAssumption

\* Bytes of a record that does not cross the end lie one after another.
LEMMA ModAdd ==
    ASSUME NEW a \in Nat, NEW k \in Nat, Inside(a, k + 1)
    PROVE  Offset(a + k) = Offset(a) + k
<1> DEFINE q == a \div Cap
<1>1. q \in Nat /\ a = (Cap * q) + Offset(a)
  BY Division
<1>2. Offset(a) \in Nat
  BY ModType
<1>3. Cap * q \in Int
  BY <1>1, SizesAssumption
<1>4. a + k = (Cap * q) + (Offset(a) + k)
  <2> HIDE DEF q
  <2> QED
    BY <1>1, <1>2, <1>3
<1>5. Offset(a) + k \in Offsets
  BY <1>2, SizesAssumption DEF Offsets, Inside
<1> QED
  BY <1>1, <1>4, <1>5, ModUnique

\* After a pad the next record begins at the start of the data area.
LEMMA ModContig ==
    ASSUME NEW a \in Nat
    PROVE  Offset(a + Contig(a)) = 0
<1> DEFINE q == a \div Cap
<1>1. q \in Nat /\ a = (Cap * q) + Offset(a)
  BY Division
<1>2. Offset(a) \in Nat
  BY ModType
<1>3. Cap * q \in Int /\ Cap * (q + 1) = (Cap * q) + Cap
  BY <1>1, SizesAssumption
<1>4. a + Contig(a) = (Cap * (q + 1)) + 0
  <2> HIDE DEF q
  <2> QED
    BY <1>1, <1>2, <1>3, SizesAssumption DEF Contig
<1>5. q + 1 \in Nat /\ 0 \in Offsets
  BY <1>1, SizesAssumption DEF Offsets
<1> QED
  BY <1>4, <1>5, ModUnique

-----------------------------------------------------------------------------
(* What a store leaves alone and what it puts there *)

LEMMA StoreHolds ==
    ASSUME NEW m, NEW off \in Nat, NEW f, NEW i \in Nat, NEW j \in Int, off + j < Cap
    PROVE  Holds(Stored(m, off, f, i, j), off, f, i, j)
  BY SizesAssumption DEF Holds, Stored, Offsets

\* A record is kept by a store behind it that is less than Cap away.
LEMMA StoreKeeps ==
    ASSUME NEW m, NEW at \in Nat, NEW f, NEW n \in Nat, Inside(at, n),
           Holds(m, Offset(at), f, 0, n - 1),
           NEW w \in Nat, NEW g, NEW i \in Nat, NEW j \in Int, Inside(w, j + 1),
           at + n <= w + i, w + j < at + Cap
    PROVE  Holds(Stored(m, Offset(w), g, i, j), Offset(at), f, 0, n - 1)
<1>1. Offset(at) \in Nat /\ Offset(w) \in Nat
  BY ModType
<1>2. ASSUME NEW k \in 0 .. n - 1
      PROVE  /\ Offset(at) + k \in Offsets
             /\ Stored(m, Offset(w), g, i, j)[Offset(at) + k] = Byte(f, k)
  <2>1. Offset(at) + k \in Offsets /\ m[Offset(at) + k] = Byte(f, k)
    BY <1>2 DEF Holds
  <2>2. (Offset(at) + k) - Offset(w) \notin i .. j
    <3>1. SUFFICES ASSUME NEW l \in i .. j, Offset(at) + k = Offset(w) + l
                   PROVE  FALSE
      BY <1>1, <1>2
    <3>2. Offset(at + k) = Offset(at) + k
      <4>1. Inside(at, k + 1)
        BY <1>1, <1>2, <2>1, SizesAssumption DEF Offsets, Inside
      <4> QED
        BY <4>1, <1>2, ModAdd
    <3>3. Offset(w + l) = Offset(w) + l
      <4>1. Inside(w, l + 1) /\ l \in Nat
        BY <1>1, <3>1, SizesAssumption DEF Inside
      <4> QED
        BY <4>1, ModAdd
    <3>4. at + k < w + l /\ w + l < (at + k) + Cap
      BY <1>2, SizesAssumption
    <3>5. at + k \in Nat /\ w + l \in Nat
      BY <1>2
    <3> QED
      BY <3>1, <3>2, <3>3, <3>4, <3>5, ModDiffers
  <2> QED
    BY <2>1, <2>2 DEF Stored
<1> QED
  BY <1>2 DEF Holds

\* A store behind a cursor, less than Cap away, does not meet its byte.
LEMMA StoreUntouched ==
    ASSUME NEW m, NEW w \in Nat, NEW g, NEW i \in Nat, NEW j \in Int, Inside(w, j + 1),
           NEW c \in Nat, c < w + i, w + j < c + Cap
    PROVE  Stored(m, Offset(w), g, i, j)[Offset(c)] = m[Offset(c)]
<1>1. Offset(c) \in Offsets /\ c \in Nat
  BY ModType
<1>2. Offset(c) - Offset(w) \notin i .. j
  <2> DEFINE l == Offset(c) - Offset(w)
  <2>1. SUFFICES ASSUME l \in i .. j PROVE FALSE
    OBVIOUS
  <2>2. Offset(w) \in Nat /\ Offset(c) \in Nat
    BY <1>1, ModType
  <2>3. l \in Int /\ Offset(c) = Offset(w) + l
    BY <2>2
  <2> HIDE DEF l
  <2>4. Inside(w, l + 1) /\ l \in Nat
    BY <2>1, <2>2, <2>3, SizesAssumption DEF Inside
  <2>5. Offset(w + l) = Offset(w) + l
    BY <2>4, ModAdd
  <2>6. c < w + l /\ w + l < c + Cap /\ w + l \in Nat
    BY <2>1, <2>4, SizesAssumption
  <2> QED
    BY <1>1, <2>3, <2>5, <2>6, ModDiffers
<1> QED
  BY <1>1, <1>2 DEF Stored

-----------------------------------------------------------------------------
(* The inductive invariant *)

Node == [at : Nat, idx : Nat, frame : Nat]

\* The room that a frame, or a pad, placed at a cursor takes, and the bytes of
\* it that are written.
Extent(at, f) == IF f = Pad THEN Contig(at) ELSE Need(f)
Bytes(f) == IF f = Pad THEN Hdr ELSE Need(f)

Fits(at, f) == Inside(at, Bytes(f))

After(n, f) ==
    [at |-> n.at + Extent(n.at, f), idx |-> n.idx + (IF f = Pad THEN 0 ELSE 1), frame |-> f]

\* B are the boundaries of all that was published up to a cursor, the frames
\* acc.
Chain(B, end, acc) ==
    /\ Len(B) >= 1 /\ B[1] = [at |-> 0, idx |-> 0, frame |-> Pad]
    /\ \A k \in 1 .. Len(B) - 1 :
         /\ B[k + 1] = After(B[k], B[k + 1].frame)
         /\ B[k + 1].frame \in 0 .. Len(length)
         /\ Fits(B[k].at, B[k + 1].frame)
         /\ B[k + 1].frame # Pad => acc[B[k + 1].idx] = B[k + 1].frame
    /\ \A j, k \in 1 .. Len(B) : j < k => B[j].at < B[k].at /\ B[j].idx <= B[k].idx
    /\ end = B[Len(B)].at /\ Len(acc) = B[Len(B)].idx

\* What lies between the h-th node and tail is in the data area.
Stands(B, h) ==
    \A k \in h .. Len(B) - 1 :
       Holds(mem, Offset(B[k].at), B[k + 1].frame, 0, Bytes(B[k + 1].frame) - 1)

\* head is the h-th node, and what was accepted up to there is delivered.
Released(B, h) ==
    /\ head = B[h].at /\ Len(delivered) = B[h].idx
    /\ \A i \in 1 .. Len(delivered) : delivered[i] = accepted[i]

\* The reader has come to the r-th node of those up to the t-th.
Reading(B, h, r, t) ==
    /\ reader.pc # "idle" =>
         /\ h <= r /\ r <= t
         /\ reader.head = B[r].at /\ reader.tail = B[t].at
         /\ B[r].idx = Len(delivered) + Len(reader.out)
         /\ Len(reader.out) <= MaxItems
         /\ \A i \in 1 .. Len(reader.out) : reader.out[i] = accepted[Len(delivered) + i]
    /\ reader.pc = "payload" =>
         /\ r < t /\ Len(reader.out) < MaxItems
         /\ reader.frame = B[r + 1].frame /\ reader.frame # Pad

Layout(B, h, r, t) ==
    Chain(B, tail, accepted) /\ Stands(B, h) /\ Released(B, h) /\ Reading(B, h, r, t)

\* A record begins at tail, or behind a pad that begins there.
Begins(at) ==
    \/ at = tail
    \/ /\ at = tail + Contig(tail)
       /\ Hdr <= Contig(tail)
       /\ Holds(mem, Offset(tail), Pad, 0, Hdr - 1)

\* The writer keeps within the free bytes it saw: head only grows.
WriterInv ==
    /\ writer.pc \notin {"idle", "ended"} => Frame >= 1
    /\ writer.pc = "pad" =>
         /\ writer.at = tail
         /\ Hdr <= Contig(tail) /\ Contig(tail) < Need(Frame)
         /\ tail + Contig(tail) <= head + Cap
         /\ writer.fits => tail + Contig(tail) + Need(Frame) <= head + Cap
    /\ writer.pc = "skip" =>
         /\ writer.at = tail + Contig(tail)
         /\ Begins(writer.at)
         /\ writer.at <= head + Cap
    /\ writer.pc \in {"header", "payload", "publish"} =>
         /\ Begins(writer.at)
         /\ Fits(writer.at, Frame)
         /\ writer.at + Need(Frame) <= head + Cap
    /\ writer.pc = "payload" => Holds(mem, Offset(writer.at), Frame, 0, Hdr - 1)
    /\ writer.pc = "publish" => Holds(mem, Offset(writer.at), Frame, 0, Need(Frame) - 1)

LayoutInv ==
    \E B \in Seq(Node) : \E h, r, t \in 1 .. Len(B) : Layout(B, h, r, t)

Inv == TypeOK /\ Len(length) <= MaxFrames /\ WriterInv /\ LayoutInv

-----------------------------------------------------------------------------
(* Consequences *)

LEMMA RingSizes ==
    ASSUME TypeOK
    PROVE  /\ \A f \in 1 .. Len(length) : length[f] \in Nat /\ Need(f) \in Nat /\ Need(f) >= Hdr
           /\ \A f \in 0 .. Len(length) : Bytes(f) \in Nat /\ Bytes(f) >= Hdr
           /\ \A f \in 0 .. Len(length), a \in Nat : Extent(a, f) \in Nat \ {0}
           /\ Frame \in Nat
<1>1. ASSUME NEW f \in 1 .. Len(length)
      PROVE  length[f] \in Nat /\ Need(f) \in Nat /\ Need(f) >= Hdr
  <2>1. length[f] \in Lengths
    BY ElementOfSeq DEF TypeOK
  <2>2. length[f] \in Nat
    BY <2>1, SizesAssumption
  <2> QED
    BY <2>2, SizesAssumption DEF Need
<1>2. ASSUME NEW a \in Nat PROVE Contig(a) \in Nat \ {0}
  BY ModType
<1>3. Len(length) \in Nat
  BY LenProperties DEF TypeOK
<1>4. ASSUME NEW f \in 0 .. Len(length)
      PROVE  Bytes(f) \in Nat /\ Bytes(f) >= Hdr
  BY <1>1, <1>3, SizesAssumption DEF Bytes, Pad
<1>5. ASSUME NEW f \in 0 .. Len(length), NEW a \in Nat PROVE Extent(a, f) \in Nat \ {0}
  BY <1>1, <1>2, <1>3, SizesAssumption DEF Extent, Pad
<1> QED
  BY <1>1, <1>3, <1>4, <1>5 DEF Frame

\* Nodes lie in the order of their cursors.
LEMMA Ordered ==
    ASSUME NEW B \in Seq(Node), NEW end, NEW acc, Chain(B, end, acc),
           NEW j \in 1 .. Len(B), NEW k \in 1 .. Len(B)
    PROVE  /\ B[j].at \in Nat /\ B[j].idx \in Nat
           /\ j <= k <=> B[j].at <= B[k].at
           /\ j <= k => B[j].idx <= B[k].idx
           /\ B[j].at <= end /\ B[j].idx <= Len(acc)
<1>1. ASSUME NEW i \in 1 .. Len(B) PROVE B[i].at \in Nat /\ B[i].idx \in Nat
  <2>1. B[i] \in Node
    BY ElementOfSeq
  <2> QED
    BY <2>1 DEF Node
<1>2. Len(B) \in Nat /\ Len(B) \in 1 .. Len(B)
  BY LenProperties DEF Chain
<1> QED
  BY <1>1, <1>2 DEF Chain

\* The header found at a node is that of the frame, or pad, that begins there.
LEMMA HeaderFound ==
    ASSUME TypeOK, NEW off \in Nat, NEW f \in 0 .. Len(length),
           Holds(mem, off, f, 0, Bytes(f) - 1)
    PROVE  FrameAt(off) = f
<1>1. Bytes(f) \in Nat /\ Bytes(f) >= Hdr /\ Hdr \in Nat \ {0}
  BY RingSizes, SizesAssumption
<1>2. Holds(mem, off, f, 0, Hdr - 1)
  BY <1>1 DEF Holds
<1>3. ASSUME NEW g \in 0 .. Len(length), Holds(mem, off, g, 0, Hdr - 1) PROVE g = f
  <2>1. 0 \in 0 .. Hdr - 1
    BY <1>1
  <2>2. mem[off + 0] = Byte(f, 0) /\ mem[off + 0] = Byte(g, 0)
    BY <1>2, <1>3, <2>1 DEF Holds
  <2> QED
    BY <2>2 DEF Byte
<1>4. {g \in 0 .. Len(length) : Holds(mem, off, g, 0, Hdr - 1)} = {f}
  BY <1>2, <1>3
<1> QED
  BY <1>4 DEF FrameAt

-----------------------------------------------------------------------------
(* Steps that publish nothing *)

\* The frames write() was called with before keep their lengths.
Extends ==
    /\ length' \in Seq(Lengths) /\ Len(length) <= Len(length')
    /\ \A f \in 1 .. Len(length) : length'[f] = length[f]

LEMMA SizesKept ==
    ASSUME TypeOK, Extends
    PROVE  /\ \A f \in 1 .. Len(length) : Need(f)' = Need(f)
           /\ \A f \in 0 .. Len(length) : Bytes(f)' = Bytes(f)
           /\ \A f \in 0 .. Len(length), a \in Nat : Extent(a, f)' = Extent(a, f)
<1>1. \A f \in 1 .. Len(length) : Need(f)' = Need(f)
  BY DEF Extends, Need
<1>2. Len(length) \in Nat
  BY RingSizes DEF Frame
<1> QED
  BY <1>1, <1>2 DEF Bytes, Extent, Pad

LEMMA ChainKept ==
    ASSUME TypeOK, Extends, NEW B \in Seq(Node), NEW end, NEW acc, Chain(B, end, acc)
    PROVE  Chain(B, end, acc)'
<1>1. Len(length) \in Nat /\ Len(length') \in Nat /\ Len(B) \in Nat
  BY LenProperties DEF TypeOK, Extends
<1>2. ASSUME NEW k \in 1 .. Len(B) - 1
      PROVE  /\ B[k + 1] = After(B[k], B[k + 1].frame)'
             /\ B[k + 1].frame \in 0 .. Len(length')
             /\ Fits(B[k].at, B[k + 1].frame)'
             /\ B[k + 1].frame # Pad => acc[B[k + 1].idx] = B[k + 1].frame
  <2>1. /\ B[k + 1] = After(B[k], B[k + 1].frame)
        /\ B[k + 1].frame \in 0 .. Len(length)
        /\ Fits(B[k].at, B[k + 1].frame)
        /\ B[k + 1].frame # Pad => acc[B[k + 1].idx] = B[k + 1].frame
    BY <1>2 DEF Chain
  <2>2. B[k].at \in Nat
    BY <1>1, <1>2, Ordered
  <2>3. /\ Bytes(B[k + 1].frame)' = Bytes(B[k + 1].frame)
        /\ Extent(B[k].at, B[k + 1].frame)' = Extent(B[k].at, B[k + 1].frame)
    BY <2>1, <2>2, SizesKept
  <2>4. B[k + 1].frame \in 0 .. Len(length')
    BY <1>1, <2>1 DEF Extends
  <2> QED
    BY <2>1, <2>3, <2>4 DEF After, Fits
<1>3. /\ Len(B) >= 1 /\ B[1] = [at |-> 0, idx |-> 0, frame |-> Pad]
      /\ \A j, k \in 1 .. Len(B) : j < k => B[j].at < B[k].at /\ B[j].idx <= B[k].idx
      /\ end = B[Len(B)].at /\ Len(acc) = B[Len(B)].idx
  BY DEF Chain
<1> QED
  BY <1>2, <1>3 DEF Chain

LEMMA StandsKept ==
    ASSUME TypeOK, Extends, NEW B \in Seq(Node), Chain(B, tail, accepted),
           NEW h \in 1 .. Len(B), Stands(B, h),
           mem' = mem
    PROVE  Stands(B, h)'
<1>1. ASSUME NEW k \in h .. Len(B) - 1
      PROVE  Holds(mem', Offset(B[k].at), B[k + 1].frame, 0, Bytes(B[k + 1].frame)' - 1)
  <2>1. B[k + 1].frame \in 0 .. Len(length)
    <3>1. k \in 1 .. Len(B) - 1
      BY LenProperties
    <3> QED
      BY <3>1 DEF Chain
  <2>2. Bytes(B[k + 1].frame)' = Bytes(B[k + 1].frame)
    BY <2>1, SizesKept
  <2> QED
    BY <1>1, <2>2 DEF Stands
<1> QED
  BY <1>1 DEF Stands, Holds

\* A store between tail and head + Cap leaves what is published as it is.
LEMMA StandsStored ==
    ASSUME TypeOK, NEW B \in Seq(Node), Chain(B, tail, accepted),
           NEW h \in 1 .. Len(B), Stands(B, h),
           head = B[h].at, length' = length,
           NEW w \in Nat, NEW g, NEW i \in Nat, NEW j \in Int, Inside(w, j + 1),
           tail <= w + i, w + j < head + Cap,
           mem' = Stored(mem, Offset(w), g, i, j)
    PROVE  Stands(B, h)'
<1>3. head \in Nat /\ tail \in Nat
  <2>1. head \in 0 .. tail /\ tail \in Nat
    BY DEF TypeOK
  <2> QED
    BY <2>1
<1>1. ASSUME NEW k \in h .. Len(B) - 1
      PROVE  Holds(mem', Offset(B[k].at), B[k + 1].frame, 0, Bytes(B[k + 1].frame) - 1)
  <2> DEFINE at == B[k].at
             f == B[k + 1].frame
             n == Bytes(f)
  <2>1. k \in 1 .. Len(B) /\ k + 1 \in 1 .. Len(B) /\ k \in 1 .. Len(B) - 1
    BY LenProperties
  <2>2. /\ at \in Nat /\ B[k + 1].at <= tail /\ head <= at
    BY <2>1, Ordered
  <2>3. f \in 0 .. Len(length) /\ Fits(at, f) /\ B[k + 1] = After(B[k], f)
    BY <2>1 DEF Chain
  <2>4. n \in Nat /\ Extent(at, f) \in Nat
    BY <2>2, <2>3, RingSizes
  <2>5. Inside(at, n)
    BY <2>3 DEF Fits
  <2>6. Holds(mem, Offset(at), f, 0, n - 1)
    BY <1>1 DEF Stands
  <2> DEFINE end == B[k + 1].at
  <2>7. end = at + Extent(at, f)
    BY <2>3 DEF After
  <2>9. n <= Extent(at, f)
    <3>1. CASE f = Pad
      <4>1. Hdr <= Cap - Offset(at) /\ n = Hdr
        <5>1. Offset(at) \in Nat
          BY <2>2, ModType
        <5> QED
          BY <3>1, <2>5, <5>1, SizesAssumption DEF Bytes, Inside
      <4> QED
        BY <3>1, <4>1 DEF Extent, Contig
    <3>2. CASE f # Pad
      BY <3>2, <2>4 DEF Extent, Bytes
    <3> QED
      BY <3>1, <3>2
  <2> HIDE DEF at, f, n, end
  <2>11. at + n <= w + i /\ w + j < at + Cap
    <3>1. at + n <= end
      BY <2>2, <2>4, <2>7, <2>9
    <3>2. end <= tail /\ end \in Nat /\ head <= at /\ at \in Nat
      BY <2>2, <2>4, <2>7 DEF end
    <3>3. at + n <= tail
      BY <3>1, <3>2, <2>4, <1>3
    <3>4. w + i \in Nat /\ w + j \in Int /\ Cap \in Nat
      BY SizesAssumption
    <3>5. at + n <= w + i
      BY <3>2, <3>3, <3>4, <2>4, <1>3
    <3>6. w + j < at + Cap
      BY <3>2, <3>4, <1>3
    <3> QED
      BY <3>5, <3>6
  <2> HIDE DEF at, f, n
  <2>8. Holds(mem', Offset(at), f, 0, n - 1)
    BY <2>2, <2>4, <2>5, <2>6, <2>11, StoreKeeps
  <2> QED
    BY <2>8 DEF at, f, n
<1>2. \A f : Bytes(f)' = Bytes(f)
  BY DEF Bytes, Need
<1> QED
  BY <1>1, <1>2 DEF Stands, Holds

\* The boundaries of what was published before stay where they are.
LEMMA LayoutExtended ==
    ASSUME NEW B \in Seq(Node), NEW C \in Seq(Node),
           NEW h \in 1 .. Len(B), NEW r \in 1 .. Len(B), NEW t \in 1 .. Len(B),
           Layout(B, h, r, t),
           Len(B) <= Len(C), \A k \in 1 .. Len(B) : C[k] = B[k],
           Chain(C, tail, accepted)', Stands(C, h)',
           accepted \in Seq(Nat), delivered \in Seq(Int),
           \A i \in 1 .. Len(accepted) : accepted'[i] = accepted[i],
           reader.out \in Seq(Int),
           UNCHANGED <<head, reader, delivered>>
    PROVE  LayoutInv'
<1>1. Chain(B, tail, accepted) /\ Released(B, h) /\ Reading(B, h, r, t)
  BY DEF Layout
<1>2. /\ Len(B) \in Nat /\ Len(C) \in Nat /\ Len(accepted) \in Nat /\ Len(delivered) \in Nat
      /\ Len(reader.out) \in Nat
  BY LenProperties
<1>3. /\ C[h] = B[h] /\ C[r] = B[r] /\ C[t] = B[t]
      /\ h \in 1 .. Len(C) /\ r \in 1 .. Len(C) /\ t \in 1 .. Len(C)
  BY <1>2
<1>4. B[h].idx <= Len(accepted) /\ B[r].idx <= Len(accepted) /\ B[h].idx \in Nat /\ B[r].idx \in Nat
  BY <1>1, Ordered
<1>5. Released(C, h)'
  <2>1. head = B[h].at /\ Len(delivered) = B[h].idx
    BY <1>1 DEF Released
  <2>2. ASSUME NEW i \in 1 .. Len(delivered) PROVE delivered[i] = accepted'[i]
    <3>1. i \in 1 .. Len(accepted)
      BY <1>2, <1>4, <2>1
    <3> QED
      BY <1>1, <3>1 DEF Released
  <2> QED
    BY <1>3, <2>1, <2>2 DEF Released
<1>6. Reading(C, h, r, t)'
  <2>1. ASSUME reader.pc # "idle"
        PROVE  \A i \in 1 .. Len(reader.out) : reader.out[i] = accepted'[Len(delivered) + i]
    <3>1. ASSUME NEW i \in 1 .. Len(reader.out)
          PROVE  reader.out[i] = accepted'[Len(delivered) + i]
      <4>1. reader.out[i] = accepted[Len(delivered) + i]
        BY <1>1, <2>1 DEF Reading
      <4>2. Len(delivered) + Len(reader.out) <= Len(accepted)
        <5>1. B[r].idx = Len(delivered) + Len(reader.out)
          BY <1>1, <2>1 DEF Reading
        <5> QED
          BY ONLY <1>4, <5>1
      <4>3. Len(delivered) + i \in 1 .. Len(accepted)
        BY <1>2, <4>2
      <4> QED
        BY <4>1, <4>3
    <3> QED
      BY <3>1
  <2>2. ASSUME reader.pc = "payload" PROVE C[r + 1] = B[r + 1]
    <3>1. r < t
      BY <1>1, <2>2 DEF Reading
    <3>2. r + 1 \in 1 .. Len(B)
      BY <1>2, <3>1
    <3> QED
      BY <3>2
  <2> QED
    BY <1>1, <1>3, <2>1, <2>2 DEF Reading
<1>7. Layout(C, h, r, t)'
  BY <1>5, <1>6 DEF Layout
<1> QED
  BY <1>3, <1>7 DEF LayoutInv

LEMMA LayoutKept ==
    ASSUME TypeOK, Extends, NEW B \in Seq(Node),
           NEW h \in 1 .. Len(B), NEW r \in 1 .. Len(B), NEW t \in 1 .. Len(B),
           Layout(B, h, r, t), Stands(B, h)',
           UNCHANGED <<tail, head, reader, accepted, delivered>>
    PROVE  LayoutInv'
<1>1. Chain(B, tail, accepted)'
  BY ChainKept DEF Layout
<1>2. Released(B, h)' /\ Reading(B, h, r, t)'
  BY DEF Layout, Released, Reading
<1>3. Layout(B, h, r, t)'
  BY <1>1, <1>2 DEF Layout
<1> QED
  BY <1>3 DEF LayoutInv

-----------------------------------------------------------------------------
(* A call of write() *)

LEMMA CallExtends ==
    ASSUME TypeOK, NEW l, Called(l)
    PROVE  /\ Extends
           /\ l \in Nat /\ Hdr + l \in Nat
           /\ Frame \in Nat /\ Frame' = Frame + 1 /\ Frame' <= MaxFrames
           /\ Need(Frame)' = Hdr + l
<1>1. l \in Lengths /\ length \in Seq(Lengths) /\ length' = Append(length, l)
  BY DEF Called, TypeOK
<1>2. /\ length' \in Seq(Lengths) /\ Len(length') = Len(length) + 1
      /\ \A i \in 1 .. Len(length) : length'[i] = length[i]
      /\ length'[Len(length) + 1] = l
  BY <1>1, AppendProperties
<1>3. Len(length) \in Nat /\ Len(length) < MaxFrames
  BY <1>1, LenProperties DEF Called
<1>4. l \in Nat
  BY <1>1, SizesAssumption
<1>5. Need(Frame)' = Hdr + l
  BY <1>2 DEF Need, Frame
<1>6. Extends
  BY <1>2, <1>3 DEF Extends
<1> QED
  BY <1>2, <1>3, <1>4, <1>5, <1>6, SizesAssumption DEF Frame

LEMMA SameExtends ==
    ASSUME TypeOK, length' = length
    PROVE  Extends
<1>1. length \in Seq(Lengths)
  BY DEF TypeOK
<1>2. Len(length) \in Nat
  BY <1>1, LenProperties
<1> QED
  BY <1>1, <1>2 DEF Extends

\* What is known of frames stays so when there are more of them.
LEMMA MoreFrames ==
    ASSUME TypeOK, Extends, UNCHANGED <<mem, reader, accepted, delivered>>
    PROVE  /\ mem' \in [Offsets -> [frame : 0 .. Len(length'), pos : Nat]]
           /\ reader' \in [pc : {"idle", "record", "payload"}, head : Nat, tail : Nat,
                           frame : -1 .. Len(length'), out : Seq(-1 .. Len(length'))]
           /\ accepted' \in Seq(1 .. Len(length'))
           /\ delivered' \in Seq(-1 .. Len(length'))
<1>1. Len(length) \in Nat /\ Len(length') \in Nat /\ Len(length) <= Len(length')
  BY LenProperties DEF TypeOK, Extends
<1>2. /\ 0 .. Len(length) \subseteq 0 .. Len(length')
      /\ 1 .. Len(length) \subseteq 1 .. Len(length')
      /\ -1 .. Len(length) \subseteq -1 .. Len(length')
  BY <1>1
<1>3. accepted' \in Seq(1 .. Len(length'))
  BY <1>2, SeqMonotonic DEF TypeOK
<1>4. delivered' \in Seq(-1 .. Len(length'))
  BY <1>2, SeqMonotonic DEF TypeOK
<1>5. mem' \in [Offsets -> [frame : 0 .. Len(length'), pos : Nat]]
  BY <1>2 DEF TypeOK
<1>6. reader' \in [pc : {"idle", "record", "payload"}, head : Nat, tail : Nat,
                   frame : -1 .. Len(length'), out : Seq(-1 .. Len(length'))]
  <2>1. reader \in [pc : {"idle", "record", "payload"}, head : Nat, tail : Nat,
                    frame : -1 .. Len(length), out : Seq(-1 .. Len(length))]
    BY DEF TypeOK
  <2>2. reader.out \in Seq(-1 .. Len(length'))
    BY <1>2, <2>1, SeqMonotonic
  <2>3. reader.frame \in -1 .. Len(length')
    BY <1>2, <2>1
  <2> QED
    BY <2>1, <2>2, <2>3
<1> QED
  BY <1>3, <1>4, <1>5, <1>6

\* A store keeps the type of the data area.
LEMMA StoreType ==
    ASSUME TypeOK, NEW off \in Nat, NEW f \in 0 .. Len(length), NEW i \in Nat, NEW j \in Int
    PROVE  Stored(mem, off, f, i, j) \in [Offsets -> [frame : 0 .. Len(length), pos : Nat]]
<1>1. ASSUME NEW o \in Offsets, o - off \in i .. j PROVE o - off \in Nat
  BY <1>1, SizesAssumption DEF Offsets
<1>2. mem \in [Offsets -> [frame : 0 .. Len(length), pos : Nat]]
  BY DEF TypeOK
<1> QED
  BY <1>1, <1>2 DEF Stored, Byte

LEMMA FrameAtType ==
    ASSUME TypeOK, NEW off
    PROVE  FrameAt(off) \in -1 .. Len(length)
<1>1. Len(length) \in Nat
  BY RingSizes DEF Frame
<1>2. FrameAt(off) = Torn \/ FrameAt(off) \in 0 .. Len(length)
  BY DEF FrameAt
<1> QED
  BY <1>1, <1>2 DEF Torn

-----------------------------------------------------------------------------
(* The type invariant is kept *)

WriterType ==
    writer \in [pc : {"idle", "pad", "skip", "header", "payload", "publish", "ended"},
                at : Nat, fits : BOOLEAN]

\* The reader's cursor lies between head and tail.
LEMMA ReaderBetween ==
    ASSUME Inv
    PROVE  reader.pc # "idle" => reader.head \in head .. tail
<1>0. PICK B \in Seq(Node) : \E h, r, t \in 1 .. Len(B) : Layout(B, h, r, t)
  BY DEF Inv, LayoutInv
<1>1. PICK h \in 1 .. Len(B), r \in 1 .. Len(B), t \in 1 .. Len(B) : Layout(B, h, r, t)
  BY <1>0
<1>2. Chain(B, tail, accepted) /\ Released(B, h) /\ Reading(B, h, r, t)
  BY <1>1 DEF Layout
<1>3. SUFFICES ASSUME reader.pc # "idle" PROVE reader.head \in head .. tail
  OBVIOUS
<1>4. h <= r /\ reader.head = B[r].at /\ head = B[h].at
  BY <1>2, <1>3 DEF Reading, Released
<1>5. /\ B[r].at \in Nat /\ B[h].at \in Nat
      /\ B[h].at <= B[r].at /\ B[r].at <= tail
  BY <1>2, <1>4, Ordered
<1>6. tail \in Nat
  BY DEF Inv, TypeOK
<1> QED
  BY <1>4, <1>5, <1>6

LEMMA TypeCall ==
    ASSUME Inv, NEW l, Refuse(l) \/ Place(l) \/ Wrap(l) \/ Overrun(l)
    PROVE  TypeOK'
<1>1. TypeOK
  BY DEF Inv
<1>2. /\ Called(l) /\ UNCHANGED <<mem, tail, head, reader, accepted, delivered>>
  BY DEF Refuse, Place, Wrap, Overrun
<1>3. tail \in Nat /\ head \in 0 .. tail /\ tail - head <= Cap /\ WriterType
  BY <1>1 DEF TypeOK, WriterType
<1>4. WriterType'
  <2>1. CASE Refuse(l)
    BY <1>3, <2>1 DEF Refuse, WriterType
  <2>2. CASE Place(l)
    BY <1>3, <2>2 DEF Place, WriterType, WriterIdle
  <2>3. CASE Wrap(l)
    <3> DEFINE fits == RoomAfterPad(Hdr + l, Free, Contig(tail))
    <3>1. fits \in BOOLEAN
      BY DEF RoomAfterPad
    <3>2. writer' = [pc |-> "pad", at |-> tail, fits |-> fits]
      BY <2>3 DEF Wrap
    <3> HIDE DEF fits
    <3> QED
      BY <1>3, <3>1, <3>2 DEF WriterType
  <2>4. CASE Overrun(l)
    BY <2>4 DEF Overrun, WriterType, WriterIdle
  <2> QED
    BY <2>1, <2>2, <2>3, <2>4
<1>5. Extends /\ length' \in Seq(Lengths)
  BY <1>1, <1>2, CallExtends DEF Extends
<1> QED
  BY <1>1, <1>2, <1>3, <1>4, <1>5, MoreFrames DEF TypeOK, WriterType

LEMMA TypeWrite ==
    ASSUME Inv, WritePad \/ PublishPad \/ WriteHeader \/ WritePayload \/ Publish \/ Reconnect
    PROVE  TypeOK'
<1>1. TypeOK /\ WriterInv
  BY DEF Inv
<1>2. tail \in Nat /\ head \in Nat /\ head <= tail /\ tail - head <= Cap /\ Cap \in Nat
  <2>1. tail \in Nat /\ head \in 0 .. tail /\ tail - head <= Cap
    BY <1>1 DEF TypeOK
  <2> QED
    BY <2>1, SizesAssumption
<1>3. WriterType /\ writer.at \in Nat /\ Offset(writer.at) \in Nat
  <2>1. WriterType /\ writer.at \in Nat
    BY <1>1 DEF TypeOK, WriterType
  <2> QED
    BY <2>1, ModType
<1>4. UNCHANGED <<reader, length, delivered>>
  BY DEF WritePad, PublishPad, WriteHeader, WritePayload, Publish, Reconnect
<1>5. Frame \in Nat /\ Len(length) = Frame
  BY <1>1, RingSizes DEF Frame
<1>6. ASSUME mem' = mem \/ (\E f \in 0 .. Len(length), i \in Nat, j \in Int :
                              mem' = Stored(mem, Offset(writer.at), f, i, j))
      PROVE  mem' \in [Offsets -> [frame : 0 .. Len(length), pos : Nat]]
  <2>1. CASE mem' = mem
    BY <1>1, <2>1 DEF TypeOK
  <2>2. ASSUME NEW f \in 0 .. Len(length), NEW i \in Nat, NEW j \in Int,
               mem' = Stored(mem, Offset(writer.at), f, i, j)
        PROVE  mem' \in [Offsets -> [frame : 0 .. Len(length), pos : Nat]]
    BY <1>1, <1>3, <2>2, StoreType
  <2> QED
    BY <1>6, <2>1, <2>2
<1>7. ASSUME /\ tail' \in Nat /\ head' = head /\ head <= tail' /\ tail' - head <= Cap
             /\ WriterType' /\ accepted' \in Seq(1 .. Len(length))
             /\ mem' \in [Offsets -> [frame : 0 .. Len(length), pos : Nat]]
      PROVE  TypeOK'
  <2>1. head' \in 0 .. tail'
    BY <1>2, <1>7
  <2> QED
    BY <1>1, <1>4, <1>7, <2>1 DEF TypeOK, WriterType
<1>8. accepted \in Seq(1 .. Len(length))
  BY <1>1 DEF TypeOK
<1>9. CASE WritePad
  <2>1. Pad \in 0 .. Len(length) /\ 0 \in Nat /\ Hdr - 1 \in Int
    BY <1>5, SizesAssumption DEF Pad
  <2>2. mem' \in [Offsets -> [frame : 0 .. Len(length), pos : Nat]]
    BY <1>6, <1>9, <2>1 DEF WritePad
  <2>3. Contig(writer.at) \in Nat
    BY <1>3, ModType
  <2>4. WriterType'
    <3> DEFINE pc == IF writer.fits THEN "header" ELSE "skip"
               at == writer.at + Contig(writer.at)
    <3>1. pc \in {"header", "skip"} /\ at \in Nat
      BY <1>3, <2>3
    <3>2. writer' = [writer EXCEPT !.pc = pc, !.at = at]
      BY <1>9 DEF WritePad
    <3> HIDE DEF pc, at
    <3> QED
      BY <1>3, <3>1, <3>2 DEF WriterType
  <2> QED
    BY <1>2, <1>7, <1>8, <1>9, <2>2, <2>4 DEF WritePad
<1>10. CASE PublishPad
  <2>1. /\ writer.at = tail + Contig(tail) /\ writer.at <= head + Cap
        /\ tail' = writer.at /\ head' = head
    BY <1>1, <1>10 DEF PublishPad, WriterInv
  <2>2. Contig(tail) \in Nat
    BY <1>2, ModType
  <2>3. tail' \in Nat /\ head <= tail' /\ tail' - head <= Cap
    BY <1>2, <2>1, <2>2
  <2>4. WriterType'
    BY <1>10 DEF PublishPad, WriterType, WriterIdle
  <2> QED
    BY <1>6, <1>7, <1>8, <1>10, <2>1, <2>3, <2>4 DEF PublishPad
<1>11. CASE WriteHeader
  <2>1. Frame \in 0 .. Len(length) /\ 0 \in Nat /\ Hdr - 1 \in Int
    BY <1>5, SizesAssumption
  <2>2. mem' \in [Offsets -> [frame : 0 .. Len(length), pos : Nat]]
    BY <1>6, <1>11, <2>1 DEF WriteHeader
  <2>3. WriterType'
    BY <1>3, <1>11 DEF WriteHeader, WriterType
  <2> QED
    BY <1>2, <1>7, <1>8, <1>11, <2>2, <2>3 DEF WriteHeader
<1>12. CASE WritePayload
  <2>1. Frame >= 1
    BY <1>1, <1>12 DEF WritePayload, WriterInv
  <2>2. Need(Frame) \in Nat
    BY <1>1, <1>5, <2>1, RingSizes
  <2>3. Frame \in 0 .. Len(length) /\ Hdr \in Nat /\ Need(Frame) - 1 \in Int
    BY <1>5, <2>2, SizesAssumption
  <2>4. mem' \in [Offsets -> [frame : 0 .. Len(length), pos : Nat]]
    BY <1>6, <1>12, <2>3 DEF WritePayload
  <2>5. WriterType'
    BY <1>3, <1>12 DEF WritePayload, WriterType
  <2> QED
    BY <1>2, <1>7, <1>8, <1>12, <2>4, <2>5 DEF WritePayload
<1>13. CASE Publish
  <2>1. Frame >= 1 /\ writer.at + Need(Frame) <= head + Cap /\ Begins(writer.at)
    BY <1>1, <1>13 DEF Publish, WriterInv
  <2>2. Need(Frame) \in Nat
    BY <1>1, <1>5, <2>1, RingSizes
  <2>3. tail <= writer.at
    <3>1. Contig(tail) \in Nat
      BY <1>2, ModType
    <3> QED
      BY <1>2, <2>1, <3>1 DEF Begins
  <2>4. tail' = writer.at + Need(Frame) /\ head' = head
    BY <1>13 DEF Publish, NextTail
  <2>5. tail' \in Nat /\ head <= tail' /\ tail' - head <= Cap
    BY <1>2, <1>3, <2>1, <2>2, <2>3, <2>4
  <2>6. accepted' \in Seq(1 .. Len(length))
    <3>1. Frame \in 1 .. Len(length)
      BY <1>5, <2>1
    <3> QED
      BY <1>8, <1>13, <3>1, AppendProperties DEF Publish
  <2>7. WriterType'
    BY <1>13 DEF Publish, WriterType, WriterIdle
  <2> QED
    BY <1>6, <1>7, <1>13, <2>4, <2>5, <2>6, <2>7 DEF Publish
<1>14. CASE Reconnect
  <2>1. WriterType'
    BY <1>14 DEF Reconnect, WriterType, WriterIdle
  <2> QED
    BY <1>2, <1>6, <1>7, <1>8, <1>14, <2>1 DEF Reconnect
<1> QED
  BY <1>9, <1>10, <1>11, <1>12, <1>13, <1>14

LEMMA TypeRead ==
    ASSUME Inv, Read
    PROVE  TypeOK'
<1>1. TypeOK
  BY DEF Inv
<1> DEFINE RT == [pc : {"idle", "record", "payload"}, head : Nat, tail : Nat,
                  frame : -1 .. Len(length), out : Seq(-1 .. Len(length))]
<1>2. /\ tail \in Nat /\ head \in Nat /\ head \in 0 .. tail /\ tail - head <= Cap
      /\ reader \in RT /\ delivered \in Seq(-1 .. Len(length))
  <2>1. /\ tail \in Nat /\ head \in 0 .. tail /\ tail - head <= Cap
        /\ reader \in RT /\ delivered \in Seq(-1 .. Len(length))
    BY <1>1 DEF TypeOK
  <2> QED
    BY <2>1
<1>3. UNCHANGED <<mem, tail, writer, length, accepted>>
  BY DEF Read, ReadCursors, ReadHeader, ReadPayload, ReturnBatch
<1>4. ASSUME /\ head' \in 0 .. tail /\ tail - head' <= Cap
             /\ reader' \in RT /\ delivered' \in Seq(-1 .. Len(length))
      PROVE  TypeOK'
  BY <1>1, <1>3, <1>4 DEF TypeOK
<1>5. Len(length) \in Nat
  BY <1>1, RingSizes DEF Frame
<1>6. /\ <<>> \in Seq(-1 .. Len(length))
      /\ 0 \in -1 .. Len(length)
  BY <1>5, EmptySeq
<1>7. ReaderIdle \in RT
  BY <1>6 DEF ReaderIdle
<1>8. reader.head \in Nat /\ reader.out \in Seq(-1 .. Len(length)) /\ reader.frame \in -1 .. Len(length)
  BY <1>2
<1>9. CASE ReadCursors
  <2>1. reader' \in RT
    <3>1. CASE head < tail
      <4>1. reader' = [ReaderIdle EXCEPT !.pc = "record", !.head = head, !.tail = tail]
        BY <1>9, <3>1 DEF ReadCursors
      <4> QED
        BY <1>2, <1>7, <4>1 DEF ReaderIdle
    <3>2. CASE ~(head < tail)
      BY <1>2, <1>9, <3>2 DEF ReadCursors
    <3> QED
      BY <3>1, <3>2
  <2> QED
    BY <1>2, <1>4, <1>9, <2>1 DEF ReadCursors
<1>10. CASE ReadHeader
  <2> DEFINE f == FrameAt(Offset(reader.head))
  <2>1. f \in -1 .. Len(length)
    BY <1>1, FrameAtType
  <2>2. SkipPad(reader.head) \in Nat
    <3>1. Contig(reader.head) \in Nat
      BY <1>8, ModType
    <3> QED
      BY <1>8, <3>1 DEF SkipPad
  <2>3. reader' = IF f = Pad THEN [reader EXCEPT !.head = SkipPad(@)]
                  ELSE [reader EXCEPT !.pc = "payload", !.frame = f]
    BY <1>10 DEF ReadHeader
  <2>4. reader' \in RT
    <3> HIDE DEF f
    <3> QED
      BY <1>2, <2>1, <2>2, <2>3
  <2> QED
    BY <1>2, <1>4, <1>10, <2>4 DEF ReadHeader
<1>11. CASE ReadPayload
  <2> DEFINE f == reader.frame
             len == IF f = Torn THEN 0 ELSE length[f]
             whole == Holds(mem, Offset(reader.head), f, Hdr, Hdr + len - 1)
             e == IF whole THEN f ELSE Torn
  <2>1. reader' = [reader EXCEPT !.pc = "record", !.head = @ + Hdr + len, !.frame = 0,
                                 !.out = Append(@, e)]
    BY <1>11 DEF ReadPayload
  <2>2. e \in -1 .. Len(length)
    BY <1>5, <1>8 DEF Torn
  <2>3. Append(reader.out, e) \in Seq(-1 .. Len(length))
    <3> HIDE DEF e
    <3> QED
      BY <1>8, <2>2, AppendProperties
  <2>4. len \in Nat
    <3>1. CASE f = Torn
      BY <3>1
    <3>2. CASE f # Torn
      <4>1. f \in 1 .. Len(length)
        <5>1. f # Pad
          <6>1. \E B \in Seq(Node) : \E h, r, t \in 1 .. Len(B) : Layout(B, h, r, t)
            BY DEF Inv, LayoutInv
          <6> QED
            BY <1>11, <6>1 DEF Layout, Reading, ReadPayload
        <5> QED
          BY <1>5, <1>8, <3>2, <5>1 DEF Torn, Pad
      <4> QED
        BY <1>1, <3>2, <4>1, RingSizes
    <3> QED
      BY <3>1, <3>2
  <2>5. reader.head + Hdr + len \in Nat
    <3> HIDE DEF len
    <3> QED
      BY <1>8, <2>4, SizesAssumption
  <2>6. reader' \in RT
    <3> HIDE DEF len, e
    <3> QED
      BY <1>2, <1>6, <2>1, <2>3, <2>5
  <2> QED
    BY <1>2, <1>4, <1>11, <2>6 DEF ReadPayload
<1>12. CASE ReturnBatch
  <2>1. reader.head \in head .. tail
    BY <1>12, ReaderBetween DEF ReturnBatch
  <2>2. head' = reader.head /\ delivered' = delivered \o reader.out /\ reader' = ReaderIdle
    BY <1>12 DEF ReturnBatch
  <2>3. head' \in 0 .. tail /\ tail - head' <= Cap
    BY <1>2, <2>1, <2>2, SizesAssumption
  <2>4. delivered' \in Seq(-1 .. Len(length))
    BY <1>2, <1>8, <2>2, ConcatProperties
  <2> QED
    BY <1>4, <1>7, <2>2, <2>3, <2>4
<1> QED
  BY <1>9, <1>10, <1>11, <1>12 DEF Read

-----------------------------------------------------------------------------
(* Publishing adds a boundary *)

LEMMA ChainAppend ==
    ASSUME TypeOK, NEW B \in Seq(Node), NEW end, NEW acc \in Seq(Nat), Chain(B, end, acc),
           NEW f \in 0 .. Len(length), Fits(end, f),
           NEW acc2 \in Seq(Nat),
           f = Pad => acc2 = acc, f # Pad => acc2 = Append(acc, f)
    PROVE  LET C == Append(B, After(B[Len(B)], f))
           IN /\ C \in Seq(Node) /\ Len(C) = Len(B) + 1
              /\ \A k \in 1 .. Len(B) : C[k] = B[k]
              /\ C[Len(B) + 1] = After(B[Len(B)], f)
              /\ Chain(C, end + Extent(end, f), acc2)
<1> DEFINE b == B[Len(B)]
           c == After(b, f)
           C == Append(B, c)
<1>1. Len(B) \in Nat /\ Len(B) >= 1 /\ Len(acc) \in Nat /\ Len(length) \in Nat
  BY LenProperties DEF Chain, TypeOK
<1>2. /\ b \in Node /\ b.at = end /\ b.idx = Len(acc) /\ end \in Nat
  <2>1. b \in Node
    BY <1>1, ElementOfSeq
  <2>2. b.at = end /\ b.idx = Len(acc)
    BY DEF Chain
  <2> QED
    BY <2>1, <2>2 DEF Node
<1>3. Extent(end, f) \in Nat \ {0}
  BY <1>2, RingSizes
<1>4. /\ c \in Node /\ c.at = end + Extent(end, f) /\ c.frame = f /\ end < c.at
      /\ c.idx = IF f = Pad THEN Len(acc) ELSE Len(acc) + 1
  <2>1. /\ c.at = end + Extent(end, f) /\ c.frame = f
        /\ c.idx = Len(acc) + (IF f = Pad THEN 0 ELSE 1)
        /\ c = [at |-> c.at, idx |-> c.idx, frame |-> c.frame]
    BY <1>2 DEF After
  <2>2. c.at \in Nat /\ c.idx \in Nat /\ c.frame \in Nat
    BY <1>1, <1>2, <1>3, <2>1
  <2>3. c \in Node
    <3> HIDE DEF c
    <3> QED
      BY <2>1, <2>2 DEF Node
  <2> HIDE DEF c
  <2> QED
    BY <1>1, <1>2, <1>3, <2>1, <2>3
<1>5. /\ C \in Seq(Node) /\ Len(C) = Len(B) + 1
      /\ \A k \in 1 .. Len(B) : C[k] = B[k]
      /\ C[Len(B) + 1] = c
  <2> HIDE DEF c
  <2> QED
    BY <1>4, AppendProperties
<1>6. Len(acc2) = c.idx /\ \A i \in 1 .. Len(acc) : acc2[i] = acc[i]
  <2>1. CASE f = Pad
    BY <1>4, <2>1
  <2>2. CASE f # Pad
    <3>1. f \in Nat /\ acc2 = Append(acc, f)
      BY <1>1, <2>2
    <3> QED
      BY <1>4, <2>2, <3>1, AppendProperties
  <2> QED
    BY <2>1, <2>2
<1>7. f # Pad => acc2[c.idx] = f
  <2>1. SUFFICES ASSUME f # Pad PROVE acc2[Len(acc) + 1] = f
    BY <1>4
  <2>2. f \in Nat /\ acc2 = Append(acc, f)
    BY <1>1, <2>1
  <2> QED
    BY <2>2, AppendProperties
<1>8. ASSUME NEW k \in 1 .. Len(C) - 1
      PROVE  /\ C[k + 1] = After(C[k], C[k + 1].frame)
             /\ C[k + 1].frame \in 0 .. Len(length)
             /\ Fits(C[k].at, C[k + 1].frame)
             /\ C[k + 1].frame # Pad => acc2[C[k + 1].idx] = C[k + 1].frame
  <2>1. CASE k = Len(B)
    <3>1. C[k] = b /\ C[k + 1] = c
      BY <1>1, <1>5, <2>1
    <3> HIDE DEF C
    <3> QED
      BY <1>2, <1>4, <1>7, <3>1
  <2>2. CASE k # Len(B)
    <3>1. k \in 1 .. Len(B) - 1 /\ k \in 1 .. Len(B) /\ k + 1 \in 1 .. Len(B)
      BY <1>1, <1>5, <2>2
    <3>2. C[k] = B[k] /\ C[k + 1] = B[k + 1]
      BY <1>5, <3>1
    <3>3. /\ B[k + 1] = After(B[k], B[k + 1].frame)
          /\ B[k + 1].frame \in 0 .. Len(length)
          /\ Fits(B[k].at, B[k + 1].frame)
          /\ B[k + 1].frame # Pad => acc[B[k + 1].idx] = B[k + 1].frame
      BY <3>1 DEF Chain
    <3>4. B[k + 1].frame # Pad => acc2[B[k + 1].idx] = B[k + 1].frame
      <4>1. SUFFICES ASSUME B[k + 1].frame # Pad PROVE B[k + 1].idx \in 1 .. Len(acc)
        BY <1>6, <3>3
      <4>2. B[k + 1].idx <= Len(acc) /\ B[k].idx \in Nat
        BY <3>1, Ordered
      <4>3. B[k + 1].idx = B[k].idx + 1
        BY <3>3, <4>1 DEF After
      <4> QED
        BY <1>1, <4>2, <4>3
    <3> HIDE DEF C
    <3> QED
      BY <3>2, <3>3, <3>4
  <2> QED
    BY <2>1, <2>2
<1>9. ASSUME NEW j \in 1 .. Len(C), NEW k \in 1 .. Len(C), j < k
      PROVE  C[j].at < C[k].at /\ C[j].idx <= C[k].idx
  <2>1. j \in 1 .. Len(B) /\ C[j] = B[j]
    BY <1>1, <1>5, <1>9
  <2>2. B[j].at \in Nat /\ B[j].idx \in Nat /\ B[j].at <= end /\ B[j].idx <= Len(acc)
    BY <2>1, Ordered
  <2>3. CASE k = Len(B) + 1
    <3>1. C[k] = c
      BY <1>5, <2>3
    <3>2. c.idx \in Nat /\ c.at \in Nat /\ Len(acc) <= c.idx
      <4>1. c.idx \in Nat /\ c.at \in Nat
        <5> HIDE DEF c
        <5> QED
          BY <1>4 DEF Node
      <4> HIDE DEF c
      <4> QED
        BY <1>1, <1>4, <4>1
    <3> HIDE DEF c, C
    <3> QED
      BY <1>1, <1>2, <1>4, <2>1, <2>2, <3>1, <3>2
  <2>4. CASE k # Len(B) + 1
    <3>1. k \in 1 .. Len(B)
      BY <1>1, <1>5, <2>4
    <3>2. C[k] = B[k]
      BY <1>5, <3>1
    <3>3. B[j].at < B[k].at /\ B[j].idx <= B[k].idx
      BY <1>9, <2>1, <3>1 DEF Chain
    <3> HIDE DEF C
    <3> QED
      BY <2>1, <3>2, <3>3
  <2> QED
    BY <2>3, <2>4
<1>10. C[1] = [at |-> 0, idx |-> 0, frame |-> Pad] /\ Len(C) >= 1
  <2>1. C[1] = B[1]
    BY <1>1, <1>5
  <2>2. B[1] = [at |-> 0, idx |-> 0, frame |-> Pad]
    BY DEF Chain
  <2> HIDE DEF C
  <2> QED
    BY <1>1, <1>5, <2>1, <2>2
<1>11. C[Len(C)] = c
  BY <1>5
<1>12. Chain(C, end + Extent(end, f), acc2)
  <2> HIDE DEF c, C
  <2> QED
    BY <1>4, <1>6, <1>8, <1>9, <1>10, <1>11 DEF Chain
<1> QED
  BY <1>5, <1>12

LEMMA StandsAppend ==
    ASSUME TypeOK, NEW B \in Seq(Node), NEW end, NEW acc, Chain(B, end, acc),
           NEW h \in 1 .. Len(B), Stands(B, h),
           NEW f, Holds(mem, Offset(end), f, 0, Bytes(f) - 1),
           NEW C \in Seq(Node), Len(C) = Len(B) + 1,
           \A k \in 1 .. Len(B) : C[k] = B[k], C[Len(B) + 1] = After(B[Len(B)], f)
    PROVE  Stands(C, h)
<1>1. Len(B) \in Nat /\ end = B[Len(B)].at
  BY LenProperties DEF Chain
<1>2. ASSUME NEW k \in h .. Len(C) - 1
      PROVE  Holds(mem, Offset(C[k].at), C[k + 1].frame, 0, Bytes(C[k + 1].frame) - 1)
  <2>1. CASE k = Len(B)
    <3>1. C[k] = B[Len(B)] /\ C[k + 1] = After(B[Len(B)], f)
      BY <1>1, <2>1
    <3>2. C[k + 1].frame = f /\ C[k].at = end
      BY <1>1, <3>1 DEF After
    <3> QED
      BY <3>2
  <2>2. CASE k # Len(B)
    <3>1. k \in h .. Len(B) - 1 /\ k \in 1 .. Len(B) /\ k + 1 \in 1 .. Len(B)
      BY <1>1, <2>2
    <3>2. C[k] = B[k] /\ C[k + 1] = B[k + 1]
      BY <3>1
    <3> QED
      BY <3>1, <3>2 DEF Stands
  <2> QED
    BY <2>1, <2>2
<1> QED
  BY <1>2 DEF Stands

-----------------------------------------------------------------------------
(* The layout is kept *)

\* Where the writer stores: beyond tail, before head + Cap, not across the end.
LEMMA WriterStores ==
    ASSUME Inv, WritePad \/ WriteHeader \/ WritePayload
    PROVE  \E w \in Nat, g \in 0 .. Len(length), i \in Nat, j \in Int :
             /\ Inside(w, j + 1) /\ tail <= w + i /\ w + j < head + Cap
             /\ mem' = Stored(mem, Offset(w), g, i, j)
<1>1. TypeOK /\ WriterInv
  BY DEF Inv
<1>2. tail \in Nat /\ head \in Int /\ writer.at \in Nat /\ Offset(writer.at) \in Nat
  <2>1. tail \in Nat /\ head \in 0 .. tail /\ writer.at \in Nat
    BY <1>1 DEF TypeOK
  <2> QED
    BY <2>1, ModType
<1>3. Frame \in Nat /\ Len(length) = Frame /\ Hdr \in Nat \ {0} /\ Cap \in Nat
  BY <1>1, RingSizes, SizesAssumption DEF Frame
<1>4. CASE WritePad
  <2>1. /\ writer.at = tail /\ Hdr <= Contig(tail) /\ tail + Contig(tail) <= head + Cap
        /\ mem' = Stored(mem, Offset(writer.at), Pad, 0, Hdr - 1)
    BY <1>1, <1>4 DEF WriterInv, WritePad
  <2>2. Contig(tail) \in Nat /\ Offset(tail) \in Nat
    BY <1>2, ModType
  <2>3. Inside(tail, (Hdr - 1) + 1)
    BY <1>3, <2>1, <2>2 DEF Inside, Contig
  <2>4. tail <= tail + 0 /\ tail + (Hdr - 1) < head + Cap
    BY <1>2, <1>3, <2>1, <2>2
  <2>5. Pad \in 0 .. Len(length) /\ 0 \in Nat /\ Hdr - 1 \in Int
    BY <1>3 DEF Pad
  <2> QED
    BY <1>2, <2>1, <2>3, <2>4, <2>5
<1>5. ASSUME writer.pc \in {"header", "payload"}
      PROVE  /\ Frame \in 1 .. Len(length) /\ Need(Frame) \in Nat /\ Need(Frame) >= Hdr
             /\ Inside(writer.at, Need(Frame)) /\ tail <= writer.at
             /\ writer.at + Need(Frame) <= head + Cap
  <2>1. Frame >= 1
    BY <1>1, <1>5 DEF WriterInv
  <2>2. Begins(writer.at) /\ Fits(writer.at, Frame) /\ writer.at + Need(Frame) <= head + Cap
    BY <1>1, <1>5 DEF WriterInv
  <2>3. Frame \in 1 .. Len(length) /\ Frame # Pad
    BY <1>3, <2>1 DEF Pad
  <2>4. Contig(tail) \in Nat
    BY <1>2, ModType
  <2>5. tail <= writer.at
    BY <1>2, <2>2, <2>4 DEF Begins
  <2>6. Need(Frame) \in Nat /\ Need(Frame) >= Hdr
    BY <1>1, <2>3, RingSizes
  <2> QED
    BY <2>2, <2>3, <2>5, <2>6 DEF Fits, Bytes
<1>6. CASE WriteHeader
  <2>1. /\ mem' = Stored(mem, Offset(writer.at), Frame, 0, Hdr - 1)
        /\ writer.pc \in {"header", "payload"}
    BY <1>6 DEF WriteHeader
  <2>2. Inside(writer.at, (Hdr - 1) + 1)
    BY <1>2, <1>3, <1>5, <2>1 DEF Inside
  <2>3. tail <= writer.at + 0 /\ writer.at + (Hdr - 1) < head + Cap
    BY <1>2, <1>3, <1>5, <2>1
  <2>4. Frame \in 0 .. Len(length) /\ 0 \in Nat /\ Hdr - 1 \in Int
    BY <1>3
  <2> QED
    BY <1>2, <2>1, <2>2, <2>3, <2>4
<1>7. CASE WritePayload
  <2>1. /\ mem' = Stored(mem, Offset(writer.at), Frame, Hdr, Need(Frame) - 1)
        /\ writer.pc \in {"header", "payload"}
    BY <1>7 DEF WritePayload
  <2>2. Inside(writer.at, (Need(Frame) - 1) + 1)
    BY <1>2, <1>3, <1>5, <2>1 DEF Inside
  <2>3. tail <= writer.at + Hdr /\ writer.at + (Need(Frame) - 1) < head + Cap
    BY <1>2, <1>3, <1>5, <2>1
  <2>4. Frame \in 0 .. Len(length) /\ Hdr \in Nat /\ Need(Frame) - 1 \in Int
    BY <1>3, <1>5, <2>1
  <2> QED
    BY <1>2, <2>1, <2>2, <2>3, <2>4
<1> QED
  BY <1>4, <1>6, <1>7

\* Steps of the writer that publish nothing.
LEMMA LayoutWrite ==
    ASSUME Inv,
           \/ \E l \in Lengths : Refuse(l) \/ Place(l) \/ Wrap(l) \/ Overrun(l)
           \/ WritePad \/ WriteHeader \/ WritePayload \/ Reconnect
    PROVE  LayoutInv'
<1>1. TypeOK
  BY DEF Inv
<1>2. PICK B \in Seq(Node) : \E h, r, t \in 1 .. Len(B) : Layout(B, h, r, t)
  BY DEF Inv, LayoutInv
<1>3. PICK h \in 1 .. Len(B), r \in 1 .. Len(B), t \in 1 .. Len(B) : Layout(B, h, r, t)
  BY <1>2
<1>4. Chain(B, tail, accepted) /\ Stands(B, h) /\ head = B[h].at
  BY <1>3 DEF Layout, Released
<1>5. UNCHANGED <<tail, head, reader, accepted, delivered>>
  BY DEF Refuse, Place, Wrap, Overrun, WritePad, WriteHeader, WritePayload, Reconnect
<1>6. Extends
  <2>1. CASE length' = length
    BY <1>1, <2>1, SameExtends
  <2>2. CASE length' # length
    <3>1. \E l \in Lengths : Called(l)
      BY <2>2 DEF Refuse, Place, Wrap, Overrun, WritePad, WriteHeader, WritePayload, Reconnect
    <3> QED
      BY <1>1, <3>1, CallExtends
  <2> QED
    BY <2>1, <2>2
<1>7. Stands(B, h)'
  <2>1. CASE mem' = mem
    BY <1>1, <1>4, <1>6, <2>1, StandsKept
  <2>2. CASE WritePad \/ WriteHeader \/ WritePayload
    <3>1. PICK w \in Nat, g \in 0 .. Len(length), i \in Nat, j \in Int :
             /\ Inside(w, j + 1) /\ tail <= w + i /\ w + j < head + Cap
             /\ mem' = Stored(mem, Offset(w), g, i, j)
      BY <2>2, WriterStores
    <3>2. length' = length
      BY <2>2 DEF WritePad, WriteHeader, WritePayload
    <3> QED
      BY <1>1, <1>4, <3>1, <3>2, StandsStored
  <2> QED
    BY <2>1, <2>2 DEF Refuse, Place, Wrap, Overrun, Reconnect
<1> QED
  BY <1>1, <1>3, <1>5, <1>6, <1>7, LayoutKept

LEMMA LayoutPublish ==
    ASSUME Inv, PublishPad \/ Publish
    PROVE  LayoutInv'
<1>1. TypeOK /\ WriterInv
  BY DEF Inv
<1>2. PICK B \in Seq(Node) : \E h, r, t \in 1 .. Len(B) : Layout(B, h, r, t)
  BY DEF Inv, LayoutInv
<1>3. PICK h \in 1 .. Len(B), r \in 1 .. Len(B), t \in 1 .. Len(B) : Layout(B, h, r, t)
  BY <1>2
<1>4. Chain(B, tail, accepted) /\ Stands(B, h)
  BY <1>3 DEF Layout
<1>5. UNCHANGED <<mem, head, reader, length, delivered>>
  BY DEF PublishPad, Publish
<1>6. /\ accepted \in Seq(Nat) /\ delivered \in Seq(Int) /\ reader.out \in Seq(Int)
      /\ tail \in Nat /\ Frame \in Nat /\ Len(length) = Frame
  <2>1. accepted \in Seq(1 .. Len(length)) /\ delivered \in Seq(-1 .. Len(length)) /\ tail \in Nat
    BY <1>1 DEF TypeOK
  <2>2. reader.out \in Seq(-1 .. Len(length))
    BY <1>1 DEF TypeOK
  <2>3. Frame \in Nat /\ Len(length) = Frame
    BY <1>1, RingSizes DEF Frame
  <2>4. 1 .. Len(length) \subseteq Nat /\ -1 .. Len(length) \subseteq Int
    BY <2>3
  <2> QED
    BY <2>1, <2>2, <2>3, <2>4, SeqMonotonic
<1>7. Len(B) \in Nat
  BY LenProperties
\* The boundaries with a pad behind the last.
<1> DEFINE P == Append(B, After(B[Len(B)], Pad))
<1>8. ASSUME Hdr <= Contig(tail), Holds(mem, Offset(tail), Pad, 0, Hdr - 1)
      PROVE  /\ P \in Seq(Node) /\ Len(P) = Len(B) + 1 /\ \A k \in 1 .. Len(B) : P[k] = B[k]
             /\ Chain(P, tail + Contig(tail), accepted) /\ Stands(P, h)
  <2>1. Pad \in 0 .. Len(length) /\ Bytes(Pad) = Hdr /\ Extent(tail, Pad) = Contig(tail)
    BY <1>6 DEF Pad, Bytes, Extent
  <2>2. Fits(tail, Pad)
    <3>1. Offset(tail) \in Nat
      BY <1>6, ModType
    <3> QED
      BY <1>8, <2>1, <3>1, SizesAssumption DEF Fits, Inside, Contig
  <2>3. /\ P \in Seq(Node) /\ Len(P) = Len(B) + 1 /\ \A k \in 1 .. Len(B) : P[k] = B[k]
        /\ P[Len(B) + 1] = After(B[Len(B)], Pad)
        /\ Chain(P, tail + Extent(tail, Pad), accepted)
    BY <1>1, <1>4, <1>6, <2>1, <2>2, ChainAppend
  <2>4. Stands(P, h)
    <3> HIDE DEF P
    <3> QED
      BY <1>1, <1>4, <1>8, <2>1, <2>3, StandsAppend
  <2> QED
    BY <2>1, <2>3, <2>4
\* Boundaries that a frame makes longer, or not, extend the layout.
<1>9. ASSUME NEW C \in Seq(Node), Len(B) <= Len(C), \A k \in 1 .. Len(B) : C[k] = B[k],
             Chain(C, tail', accepted'), Stands(C, h),
             \A i \in 1 .. Len(accepted) : accepted'[i] = accepted[i]
      PROVE  LayoutInv'
  <2>1. Chain(C, tail, accepted)'
    BY <1>1, <1>5, <1>9, SameExtends, ChainKept DEF Chain, After, Fits, Inside, Extent, Bytes, Need
  <2>2. Stands(C, h)'
    BY <1>5, <1>9 DEF Stands, Holds, Bytes, Need
  <2> QED
    BY <1>3, <1>5, <1>6, <1>9, <2>1, <2>2, LayoutExtended
<1>10. CASE PublishPad
  <2>1. writer.at = tail + Contig(tail) /\ Begins(writer.at) /\ tail' = writer.at /\ accepted' = accepted
    BY <1>1, <1>10 DEF PublishPad, WriterInv
  <2>2. Contig(tail) \in Nat \ {0}
    BY <1>6, ModType
  <2>3. Hdr <= Contig(tail) /\ Holds(mem, Offset(tail), Pad, 0, Hdr - 1)
    BY <1>6, <2>1, <2>2 DEF Begins
  <2> HIDE DEF P
  <2> QED
    BY <1>7, <1>8, <1>9, <2>1, <2>3
<1>11. CASE Publish
  <2>1. /\ Frame >= 1 /\ Begins(writer.at) /\ Fits(writer.at, Frame)
        /\ Holds(mem, Offset(writer.at), Frame, 0, Need(Frame) - 1)
        /\ tail' = writer.at + Need(Frame) /\ accepted' = Append(accepted, Frame)
    BY <1>1, <1>11 DEF Publish, WriterInv, NextTail
  <2>2. /\ Frame \in 0 .. Len(length) /\ Frame # Pad /\ Bytes(Frame) = Need(Frame)
        /\ Extent(writer.at, Frame) = Need(Frame)
    BY <1>6, <2>1 DEF Pad, Bytes, Extent
  <2>3. accepted' \in Seq(Nat) /\ \A i \in 1 .. Len(accepted) : accepted'[i] = accepted[i]
    BY <1>6, <2>1, AppendProperties
  <2>4. ASSUME NEW D \in Seq(Node), Len(B) <= Len(D), \A k \in 1 .. Len(B) : D[k] = B[k],
               Chain(D, writer.at, accepted), Stands(D, h)
        PROVE  LayoutInv'
    <3> DEFINE C == Append(D, After(D[Len(D)], Frame))
    <3>1. /\ C \in Seq(Node) /\ Len(C) = Len(D) + 1 /\ \A k \in 1 .. Len(D) : C[k] = D[k]
          /\ C[Len(D) + 1] = After(D[Len(D)], Frame)
          /\ Chain(C, writer.at + Extent(writer.at, Frame), accepted')
      <4>1. /\ TypeOK /\ accepted \in Seq(Nat) /\ accepted' \in Seq(Nat)
            /\ Frame # Pad /\ accepted' = Append(accepted, Frame)
            /\ Chain(D, writer.at, accepted) /\ Fits(writer.at, Frame)
            /\ Frame \in 0 .. Len(length)
        BY <1>1, <1>6, <2>1, <2>2, <2>3, <2>4
      <4> QED
        BY ONLY <2>4, <4>1, ChainAppend
    <3>2. h \in 1 .. Len(D) /\ Len(D) \in Nat
      BY <1>7, <2>4, LenProperties
    <3> HIDE DEF C
    <3>3. Stands(C, h)
      BY <1>1, <2>1, <2>2, <2>4, <3>1, <3>2, StandsAppend
    <3>4. Len(B) <= Len(C) /\ \A k \in 1 .. Len(B) : C[k] = B[k]
      <4>1. Len(B) <= Len(D) /\ Len(C) = Len(D) + 1
        BY <2>4, <3>1
      <4>2. ASSUME NEW k \in 1 .. Len(B) PROVE C[k] = B[k]
        <5>1. k \in 1 .. Len(D)
          BY <1>7, <3>2, <4>1
        <5> QED
          BY <2>4, <3>1, <5>1
      <4> QED
        BY <1>7, <3>2, <4>1, <4>2
    <3> QED
      BY <1>9, <2>1, <2>2, <2>3, <3>1, <3>3, <3>4
  <2>5. CASE writer.at = tail
    BY <1>4, <1>7, <2>4, <2>5
  <2>6. CASE writer.at # tail
    <3>1. /\ writer.at = tail + Contig(tail) /\ Hdr <= Contig(tail)
          /\ Holds(mem, Offset(tail), Pad, 0, Hdr - 1)
      BY <2>1, <2>6 DEF Begins
    <3> HIDE DEF P
    <3> QED
      BY <1>7, <1>8, <2>4, <3>1
  <2> QED
    BY <2>5, <2>6
<1> QED
  BY <1>10, <1>11

LEMMA LayoutRead ==
    ASSUME Inv, Read
    PROVE  LayoutInv'
<1>1. TypeOK
  BY DEF Inv
<1>2. PICK B \in Seq(Node) : \E h, r, t \in 1 .. Len(B) : Layout(B, h, r, t)
  BY DEF Inv, LayoutInv
<1>3. PICK h \in 1 .. Len(B), r \in 1 .. Len(B), t \in 1 .. Len(B) : Layout(B, h, r, t)
  BY <1>2
<1>4. Chain(B, tail, accepted) /\ Stands(B, h) /\ Released(B, h) /\ Reading(B, h, r, t)
  BY <1>3 DEF Layout
<1>5. UNCHANGED <<mem, tail, writer, length, accepted>>
  BY DEF Read, ReadCursors, ReadHeader, ReadPayload, ReturnBatch
<1>6. Chain(B, tail, accepted)'
  BY <1>1, <1>4, <1>5, SameExtends, ChainKept
<1>7. \A k \in 1 .. Len(B) : Stands(B, k) => Stands(B, k)'
  BY <1>5 DEF Stands, Holds, Bytes, Need
<1>8. Len(B) \in Nat /\ Len(B) \in 1 .. Len(B)
  <2>1. Len(B) \in Nat
    BY LenProperties
  <2> QED
    BY <2>1
<1>9. /\ delivered \in Seq(-1 .. Len(length)) /\ reader.out \in Seq(-1 .. Len(length))
      /\ Len(length) \in Nat /\ Len(delivered) \in Nat /\ Len(reader.out) \in Nat
  <2>1. delivered \in Seq(-1 .. Len(length)) /\ reader.out \in Seq(-1 .. Len(length))
    BY <1>1 DEF TypeOK
  <2> QED
    BY <1>1, <2>1, LenProperties, RingSizes DEF Frame
<1>10. \A j, k \in 1 .. Len(B) : (j <= k <=> B[j].at <= B[k].at) /\ B[j].at \in Nat
  BY <1>4, Ordered
<1>11. CASE ReadCursors
  <2>1. CASE head < tail
    <3>1. reader' = [ReaderIdle EXCEPT !.pc = "record", !.head = head, !.tail = tail]
          /\ UNCHANGED <<head, delivered>>
      BY <1>11, <2>1 DEF ReadCursors
    <3>2. /\ reader'.pc = "record" /\ reader'.head = head /\ reader'.tail = tail
          /\ reader'.out = <<>>
      BY <3>1 DEF ReaderIdle
    <3>3. head = B[h].at /\ Len(delivered) = B[h].idx /\ tail = B[Len(B)].at
      BY <1>4 DEF Released, Chain
    <3>4. Len(<<>>) = 0 /\ 0 <= MaxItems
      BY EmptySeq, SizesAssumption
    <3>5. Reading(B, h, h, Len(B))'
      <4>1. h <= h /\ h <= Len(B) /\ B[h].idx = Len(delivered) + Len(<<>>) /\ Len(<<>>) <= MaxItems
        BY <1>8, <1>9, <3>3, <3>4
      <4>2. \A i \in 1 .. Len(<<>>) : FALSE
        BY <3>4
      <4> QED
        BY <3>1, <3>2, <3>3, <4>1, <4>2 DEF Reading
    <3>6. Released(B, h)'
      BY <1>4, <1>5, <3>1 DEF Released
    <3>7. Layout(B, h, h, Len(B))'
      BY <1>4, <1>6, <1>7, <3>5, <3>6 DEF Layout
    <3> QED
      BY <1>8, <3>7 DEF LayoutInv
  <2>2. CASE ~(head < tail)
    <3>1. UNCHANGED <<reader, head, delivered>>
      BY <1>11, <2>2 DEF ReadCursors
    <3>2. Layout(B, h, r, t)'
      BY <1>4, <1>5, <1>6, <1>7, <3>1 DEF Layout, Released, Reading
    <3> QED
      BY <3>2 DEF LayoutInv
  <2> QED
    BY <2>1, <2>2
\* What the reader finds at the r-th node.
<1>12. ASSUME reader.pc # "idle", r < t
       PROVE  /\ r + 1 \in 1 .. Len(B) /\ h <= r /\ r + 1 <= t
              /\ B[r + 1] = After(B[r], B[r + 1].frame)
              /\ B[r + 1].frame \in 0 .. Len(length)
              /\ B[r + 1].frame # Pad => accepted[B[r + 1].idx] = B[r + 1].frame
              /\ Holds(mem, Offset(B[r].at), B[r + 1].frame, 0, Bytes(B[r + 1].frame) - 1)
              /\ B[r].at \in Nat /\ B[r].idx \in Nat
  <2>1. r + 1 \in 1 .. Len(B) /\ r \in 1 .. Len(B) - 1 /\ r + 1 <= t
    BY <1>8, <1>12
  <2>2. h <= r
    BY <1>4, <1>12 DEF Reading
  <2>3. r \in h .. Len(B) - 1
    BY <1>8, <2>1, <2>2
  <2>4. /\ B[r + 1] = After(B[r], B[r + 1].frame)
        /\ B[r + 1].frame \in 0 .. Len(length)
        /\ B[r + 1].frame # Pad => accepted[B[r + 1].idx] = B[r + 1].frame
    BY <1>4, <2>1 DEF Chain
  <2>5. Holds(mem, Offset(B[r].at), B[r + 1].frame, 0, Bytes(B[r + 1].frame) - 1)
    BY <1>4, <2>3 DEF Stands
  <2>6. B[r].at \in Nat /\ B[r].idx \in Nat
    BY <1>4, Ordered
  <2> QED
    BY <2>1, <2>2, <2>4, <2>5, <2>6
<1>13. CASE ReadHeader
  <2>1. /\ reader.pc = "record" /\ reader.head < reader.tail /\ Len(reader.out) < MaxItems
        /\ UNCHANGED <<head, delivered>>
    BY <1>13 DEF ReadHeader, More
  <2>2. /\ reader.head = B[r].at /\ reader.tail = B[t].at /\ h <= r /\ r <= t
        /\ Len(reader.out) <= MaxItems
        /\ B[r].idx = Len(delivered) + Len(reader.out)
        /\ \A i \in 1 .. Len(reader.out) : reader.out[i] = accepted[Len(delivered) + i]
    BY <1>4, <2>1 DEF Reading
  <2>3. r < t
    BY <1>10, <2>1, <2>2
  <2> DEFINE f == B[r + 1].frame
  <2>4. FrameAt(Offset(reader.head)) = f
    <3>1. Offset(B[r].at) \in Nat
      BY <1>12, <2>1, <2>3, ModType
    <3> QED
      BY <1>1, <1>12, <2>1, <2>2, <2>3, <3>1, HeaderFound
  <2>5. reader' = IF f = Pad THEN [reader EXCEPT !.head = SkipPad(@)]
                  ELSE [reader EXCEPT !.pc = "payload", !.frame = f]
    BY <1>13, <2>4 DEF ReadHeader
  <2>6. reader \in [pc : {"idle", "record", "payload"}, head : Nat, tail : Nat,
                    frame : -1 .. Len(length), out : Seq(-1 .. Len(length))]
    BY <1>1 DEF TypeOK
  <2>7. Released(B, h)'
    BY <1>4, <1>5, <2>1 DEF Released
  <2> HIDE DEF f
  <2>8. CASE f = Pad
    <3>1. B[r + 1].at = SkipPad(reader.head) /\ B[r + 1].idx = B[r].idx
      BY <1>12, <2>1, <2>2, <2>3, <2>8 DEF f, After, Extent, SkipPad
    <3>2. /\ reader'.pc = "record" /\ reader'.head = SkipPad(reader.head)
          /\ reader'.tail = reader.tail /\ reader'.out = reader.out
      BY <2>1, <2>5, <2>6, <2>8
    <3>3. r + 1 \in 1 .. Len(B) /\ h <= r + 1 /\ r + 1 <= t
      BY <1>8, <1>12, <2>1, <2>3
    <3>4. Reading(B, h, r + 1, t)'
      BY <1>5, <2>1, <2>2, <3>1, <3>2, <3>3 DEF Reading
    <3>5. Layout(B, h, r + 1, t)'
      BY <1>4, <1>6, <1>7, <2>7, <3>4 DEF Layout
    <3> QED
      BY <3>3, <3>5 DEF LayoutInv
  <2>9. CASE f # Pad
    <3>1. /\ reader'.pc = "payload" /\ reader'.head = reader.head /\ reader'.frame = f
          /\ reader'.tail = reader.tail /\ reader'.out = reader.out
      BY <2>1, <2>5, <2>6, <2>9
    <3>2. Reading(B, h, r, t)'
      BY <1>5, <2>1, <2>2, <2>3, <2>9, <3>1 DEF Reading, f
    <3>3. Layout(B, h, r, t)'
      BY <1>4, <1>6, <1>7, <2>7, <3>2 DEF Layout
    <3> QED
      BY <3>3 DEF LayoutInv
  <2> QED
    BY <2>8, <2>9
<1>14. CASE ReadPayload
  <2>1. reader.pc = "payload" /\ UNCHANGED <<head, delivered>>
    BY <1>14 DEF ReadPayload
  <2> DEFINE f == B[r + 1].frame
  <2>2. /\ reader.head = B[r].at /\ reader.tail = B[t].at
        /\ B[r].idx = Len(delivered) + Len(reader.out)
        /\ \A i \in 1 .. Len(reader.out) : reader.out[i] = accepted[Len(delivered) + i]
        /\ r < t /\ Len(reader.out) < MaxItems /\ reader.frame = f /\ f # Pad
    BY <1>4, <2>1 DEF Reading
  <2>3. f \in 1 .. Len(length) /\ f # Torn /\ f \in -1 .. Len(length)
    <3>1. f \in 0 .. Len(length) /\ f # Pad
      BY <1>12, <2>1, <2>2
    <3> HIDE DEF f
    <3> QED
      BY <1>9, <3>1 DEF Pad, Torn
  <2>4. Need(f) = Hdr + length[f] /\ Bytes(f) = Need(f) /\ Need(f) \in Nat /\ Need(f) >= Hdr
    <3> HIDE DEF f
    <3> QED
      BY <1>1, <2>2, <2>3, RingSizes DEF Bytes, Need
  <2>5. Holds(mem, Offset(reader.head), f, Hdr, Hdr + length[f] - 1)
    <3>1. Holds(mem, Offset(reader.head), f, 0, Need(f) - 1)
      BY <1>12, <2>1, <2>2, <2>4
    <3>2. Hdr .. Hdr + length[f] - 1 \subseteq 0 .. Need(f) - 1
      <4>1. length[f] \in Nat
        BY <1>1, <2>3, RingSizes
      <4> HIDE DEF f
      <4> QED
        BY <2>4, <4>1, SizesAssumption
    <3> HIDE DEF f
    <3> QED
      BY <3>1, <3>2 DEF Holds
  <2>6. reader' = [reader EXCEPT !.pc = "record", !.head = @ + Hdr + length[f], !.frame = 0,
                                 !.out = Append(@, f)]
    <3> HIDE DEF f
    <3> QED
      BY <1>14, <2>2, <2>3, <2>5 DEF ReadPayload
  <2>7. reader \in [pc : {"idle", "record", "payload"}, head : Nat, tail : Nat,
                    frame : -1 .. Len(length), out : Seq(-1 .. Len(length))]
    BY <1>1 DEF TypeOK
  <2> DEFINE out2 == Append(reader.out, f)
  <2>8. /\ reader'.pc = "record" /\ reader'.head = reader.head + Hdr + length[f]
        /\ reader'.tail = reader.tail /\ reader'.out = out2
    <3> HIDE DEF f
    <3> QED
      BY <2>6, <2>7
  <2>9. /\ Len(out2) = Len(reader.out) + 1
        /\ \A i \in 1 .. Len(reader.out) : out2[i] = reader.out[i]
        /\ out2[Len(reader.out) + 1] = f
    <3> HIDE DEF f
    <3> QED
      BY <1>9, <2>3, AppendProperties
  <2>10. B[r + 1].at = reader.head + Hdr + length[f] /\ B[r + 1].idx = B[r].idx + 1
    <3>1. B[r + 1].at = B[r].at + Need(f) /\ B[r + 1].idx = B[r].idx + 1
      BY <1>12, <2>1, <2>2 DEF After, Extent
    <3>2. length[f] \in Nat /\ reader.head \in Nat
      BY <1>1, <2>3, <2>7, RingSizes
    <3> HIDE DEF f
    <3> QED
      BY <2>2, <2>4, <3>1, <3>2, SizesAssumption
  <2>11. accepted[Len(delivered) + Len(reader.out) + 1] = f
    <3>1. accepted[B[r + 1].idx] = f
      BY <1>12, <2>1, <2>2
    <3> QED
      BY <2>2, <2>10, <3>1
  <2> HIDE DEF f, out2
  <2>12. \A i \in 1 .. Len(out2) : out2[i] = accepted[Len(delivered) + i]
    <3>1. ASSUME NEW i \in 1 .. Len(out2) PROVE out2[i] = accepted[Len(delivered) + i]
      <4>1. CASE i = Len(reader.out) + 1
        <5>1. Len(delivered) + (Len(reader.out) + 1) = Len(delivered) + Len(reader.out) + 1
          BY <1>9
        <5> QED
          BY <2>9, <2>11, <4>1, <5>1
      <4>2. CASE i # Len(reader.out) + 1
        <5>1. i \in 1 .. Len(reader.out)
          BY <1>9, <2>9, <4>2
        <5> QED
          BY <2>2, <2>9, <5>1
      <4> QED
        BY <4>1, <4>2
    <3> QED
      BY <3>1
  <2>13. /\ r + 1 \in 1 .. Len(B) /\ h <= r + 1 /\ r + 1 <= t
         /\ Len(out2) <= MaxItems /\ B[r + 1].idx = Len(delivered) + Len(out2)
    <3>1. r + 1 \in 1 .. Len(B) /\ h <= r + 1 /\ r + 1 <= t
      BY <1>8, <1>12, <2>1, <2>2
    <3>2. Len(out2) <= MaxItems
      BY <1>9, <2>2, <2>9, SizesAssumption
    <3>3. B[r + 1].idx = Len(delivered) + Len(out2)
      BY <1>9, <2>2, <2>9, <2>10
    <3> QED
      BY <3>1, <3>2, <3>3
  <2>14. Reading(B, h, r + 1, t)'
    BY <1>5, <2>1, <2>2, <2>8, <2>10, <2>12, <2>13 DEF Reading
  <2>15. Released(B, h)'
    BY <1>4, <1>5, <2>1 DEF Released
  <2>16. Layout(B, h, r + 1, t)'
    BY <1>4, <1>6, <1>7, <2>14, <2>15 DEF Layout
  <2> QED
    BY <2>13, <2>16 DEF LayoutInv
<1>15. CASE ReturnBatch
  <2>1. /\ reader.pc = "record" /\ head' = reader.head /\ reader'.pc = "idle"
        /\ delivered' = delivered \o reader.out
    BY <1>15 DEF ReturnBatch, ReaderIdle
  <2>2. /\ reader.head = B[r].at /\ h <= r
        /\ B[r].idx = Len(delivered) + Len(reader.out)
        /\ \A i \in 1 .. Len(reader.out) : reader.out[i] = accepted[Len(delivered) + i]
    BY <1>4, <2>1 DEF Reading
  <2>3. /\ Len(delivered') = Len(delivered) + Len(reader.out)
        /\ \A i \in 1 .. Len(delivered) + Len(reader.out) :
             delivered'[i] = IF i <= Len(delivered) THEN delivered[i]
                             ELSE reader.out[i - Len(delivered)]
    BY <1>9, <2>1, ConcatProperties
  <2>4. ASSUME NEW i \in 1 .. Len(delivered') PROVE delivered'[i] = accepted[i]
    <3>1. i \in 1 .. Len(delivered) + Len(reader.out)
      BY <2>3
    <3>2. CASE i <= Len(delivered)
      <4>1. i \in 1 .. Len(delivered)
        BY <1>9, <3>2
      <4>2. delivered[i] = accepted[i]
        BY <1>4, <4>1 DEF Released
      <4> QED
        BY <2>3, <3>1, <3>2, <4>2
    <3>3. CASE ~(i <= Len(delivered))
      <4> DEFINE j == i - Len(delivered)
      <4>1. j \in 1 .. Len(reader.out) /\ Len(delivered) + j = i
        BY <1>9, <3>1, <3>3
      <4>2. reader.out[j] = accepted[Len(delivered) + j]
        BY <2>2, <4>1
      <4> QED
        BY <2>3, <3>1, <3>3, <4>1, <4>2
    <3> QED
      BY <3>2, <3>3
  <2>5. Released(B, r)'
    BY <1>5, <2>1, <2>2, <2>3, <2>4 DEF Released
  <2>6. Reading(B, r, r, t)'
    BY <2>1 DEF Reading
  <2>7. Stands(B, r)
    <3>1. r .. Len(B) - 1 \subseteq h .. Len(B) - 1
      BY <1>8, <2>2
    <3> QED
      BY <1>4, <3>1 DEF Stands
  <2>8. Layout(B, r, r, t)'
    BY <1>6, <1>7, <2>5, <2>6, <2>7 DEF Layout
  <2> QED
    BY <2>8 DEF LayoutInv
<1> QED
  BY <1>11, <1>13, <1>14, <1>15 DEF Read

-----------------------------------------------------------------------------
(* What the writer knows is kept *)

\* The second store of a record completes it.
LEMMA StoreCompletes ==
    ASSUME NEW m, NEW off \in Nat, NEW f, NEW i \in Nat, NEW j \in Int, off + j < Cap,
           Holds(m, off, f, 0, i - 1)
    PROVE  Holds(Stored(m, off, f, i, j), off, f, 0, j)
<1>1. ASSUME NEW k \in 0 .. j
      PROVE  /\ off + k \in Offsets
             /\ Stored(m, off, f, i, j)[off + k] = Byte(f, k)
  <2>1. off + k \in Offsets /\ (off + k) - off = k
    BY SizesAssumption DEF Offsets
  <2>2. CASE k < i
    <3>1. m[off + k] = Byte(f, k) /\ k \notin i .. j
      BY <2>2 DEF Holds
    <3> QED
      BY <2>1, <3>1 DEF Stored
  <2>3. CASE ~(k < i)
    <3>1. k \in i .. j
      BY <2>3
    <3> QED
      BY <2>1, <3>1 DEF Stored
  <2> QED
    BY <2>1, <2>2, <2>3
<1> QED
  BY <1>1 DEF Holds

LEMMA WriterTypes ==
    ASSUME TypeOK, WriterInv
    PROVE  /\ tail \in Nat /\ head \in Nat /\ head <= tail /\ Cap \in Nat \ {0} /\ Hdr \in Nat \ {0}
           /\ writer.at \in Nat /\ Offset(writer.at) \in Nat
           /\ Contig(tail) \in Nat \ {0} /\ Offset(tail) \in Nat
           /\ writer.pc \in {"idle", "ended"}
              \/ /\ Frame \in 1 .. Len(length) /\ Frame # Pad
                 /\ Need(Frame) \in Nat /\ Need(Frame) >= Hdr /\ Bytes(Frame) = Need(Frame)
<1>1. tail \in Nat /\ head \in 0 .. tail /\ writer.at \in Nat
  BY DEF TypeOK
<1>2. Frame \in Nat /\ Len(length) = Frame
  BY RingSizes DEF Frame
<1>3. writer.pc \in {"idle", "ended"} \/ Frame \in 1 .. Len(length)
  BY <1>2 DEF WriterInv
<1>4. Frame \in 1 .. Len(length) =>
        /\ Frame # Pad /\ Need(Frame) \in Nat /\ Need(Frame) >= Hdr /\ Bytes(Frame) = Need(Frame)
  BY <1>2, RingSizes DEF Pad, Bytes
<1>5. /\ Offset(writer.at) \in Nat /\ Contig(tail) \in Nat \ {0} /\ Offset(tail) \in Nat
      /\ head \in Nat /\ head <= tail
  BY <1>1, ModType
<1> QED
  BY <1>1, <1>3, <1>4, <1>5, SizesAssumption

\* The writer relies on tail, on the bytes it wrote, and on the head it saw;
\* steps of the reader only move head forwards.
LEMMA WriterKept ==
    ASSUME Inv, Read
    PROVE  WriterInv'
<1>1. UNCHANGED <<mem, tail, writer, length>>
  BY DEF Read, ReadCursors, ReadHeader, ReadPayload, ReturnBatch
<1>2. TypeOK /\ WriterInv
  BY DEF Inv
<1>3. head' \in Int /\ head <= head'
  <2>1. head \in Nat /\ tail \in Nat
    BY <1>2, WriterTypes
  <2>2. CASE ReturnBatch
    <3>1. reader.head \in head .. tail
      BY <2>2, ReaderBetween DEF ReturnBatch
    <3>2. head' = reader.head
      BY <2>2 DEF ReturnBatch
    <3> QED
      BY <2>1, <3>1, <3>2
  <2>3. CASE head' = head
    BY <2>1, <2>3
  <2> QED
    BY <2>2, <2>3 DEF Read, ReadCursors, ReadHeader, ReadPayload
<1>4. CASE writer.pc \in {"idle", "ended"}
  BY <1>1, <1>4 DEF WriterInv
<1>5. CASE writer.pc \notin {"idle", "ended"}
  <2>1. /\ head \in Int /\ tail \in Nat /\ writer.at \in Nat /\ Cap \in Nat
        /\ Contig(tail) \in Nat /\ Need(Frame) \in Nat
    BY <1>2, <1>5, WriterTypes
  <2>2. /\ writer.at + Need(Frame) <= head + Cap => writer.at + Need(Frame) <= head' + Cap
        /\ tail + Contig(tail) <= head + Cap => tail + Contig(tail) <= head' + Cap
        /\ tail + Contig(tail) + Need(Frame) <= head + Cap
             => tail + Contig(tail) + Need(Frame) <= head' + Cap
        /\ writer.at <= head + Cap => writer.at <= head' + Cap
    BY <1>3, <2>1
  <2> QED
    BY <1>1, <1>2, <2>2 DEF WriterInv, Begins, Holds, Fits, Inside, Bytes, Need, Frame, Contig
<1> QED
  BY <1>4, <1>5

LEMMA WriterCall ==
    ASSUME Inv, NEW l, Refuse(l) \/ Place(l) \/ Wrap(l) \/ Overrun(l)
    PROVE  WriterInv'
<1>1. TypeOK /\ WriterInv
  BY DEF Inv
<1>2. Called(l) /\ UNCHANGED <<mem, tail, head>>
  BY DEF Refuse, Place, Wrap, Overrun
<1>3. /\ l \in Nat /\ Hdr + l \in Nat /\ Frame \in Nat /\ Frame' = Frame + 1
      /\ Need(Frame)' = Hdr + l
  BY <1>1, <1>2, CallExtends
<1>4. /\ tail \in Nat /\ head \in Nat /\ head <= tail /\ Cap \in Nat /\ Hdr \in Nat
      /\ Contig(tail) \in Nat /\ Offset(tail) \in Nat
  BY <1>1, WriterTypes
<1>5. Frame' >= 1 /\ Frame' # Pad
  BY <1>3 DEF Pad
<1>6. CASE Refuse(l)
  BY <1>6 DEF Refuse, Called, WriterInv
<1>7. CASE Place(l)
  <2>1. /\ writer'.pc = "header" /\ writer'.at = tail
        /\ Hdr + l <= Cap - (tail - head) /\ Contig(tail) >= Hdr + l
    BY <1>7 DEF Place, WriterIdle, Room, Free
  <2>2. Begins(writer.at)'
    BY <1>2, <2>1 DEF Begins
  <2>3. Fits(writer.at, Frame)'
    <3>1. Offset(tail) + (Hdr + l) <= Cap
      BY <1>3, <1>4, <2>1 DEF Contig
    <3>2. Bytes(Frame)' = Hdr + l
      BY <1>3, <1>5 DEF Bytes
    <3> QED
      BY <2>1, <3>1, <3>2 DEF Fits, Inside
  <2>4. tail + (Hdr + l) <= head + Cap
    BY <1>3, <1>4, <2>1
  <2>5. (writer.at + Need(Frame) <= head + Cap)'
    BY <1>2, <1>3, <2>1, <2>4
  <2> QED
    BY <1>5, <2>1, <2>2, <2>3, <2>5 DEF WriterInv
<1>8. CASE Wrap(l)
  <2>1. /\ writer'.pc = "pad" /\ writer'.at = tail
        /\ Hdr + l <= Cap - (tail - head) /\ Contig(tail) < Hdr + l /\ Hdr <= Contig(tail)
        /\ writer'.fits = (Hdr + l <= (Cap - (tail - head)) - Contig(tail))
    BY <1>8 DEF Wrap, Room, RoomAfterPad, Free
  <2>2. tail + Contig(tail) <= head + Cap
    BY <1>3, <1>4, <2>1
  <2>3. writer'.fits => tail + Contig(tail) + (Hdr + l) <= head + Cap
    <3>1. SUFFICES ASSUME Hdr + l <= (Cap - (tail - head)) - Contig(tail)
                   PROVE  tail + Contig(tail) + (Hdr + l) <= head + Cap
      BY <2>1
    <3> QED
      BY <1>3, <1>4, <3>1
  <2>4. Contig(tail)' = Contig(tail)
    BY <1>2 DEF Contig
  <2>5. /\ writer'.pc = "pad" /\ writer'.at = tail' /\ Hdr <= Contig(tail)'
        /\ Contig(tail)' < Need(Frame)' /\ (tail + Contig(tail) <= head + Cap)'
        /\ writer'.fits => (tail + Contig(tail) + Need(Frame) <= head + Cap)'
    BY <1>2, <1>3, <2>1, <2>2, <2>3, <2>4
  <2> QED
    BY <1>5, <2>5 DEF WriterInv
<1>9. CASE Overrun(l)
  <2>1. writer'.pc = "ended"
    BY <1>9 DEF Overrun, WriterIdle
  <2> QED
    BY <2>1 DEF WriterInv
<1> QED
  BY <1>6, <1>7, <1>8, <1>9

LEMMA WriterWrite ==
    ASSUME Inv, WritePad \/ PublishPad \/ WriteHeader \/ WritePayload \/ Publish \/ Reconnect
    PROVE  WriterInv'
<1>1. TypeOK /\ WriterInv
  BY DEF Inv
<1>2. CASE PublishPad \/ Publish \/ Reconnect
  <2>1. writer'.pc = "idle"
    BY <1>2 DEF PublishPad, Publish, Reconnect, WriterIdle
  <2> QED
    BY <2>1 DEF WriterInv
<1>3. CASE WritePad \/ WriteHeader \/ WritePayload
  <2>1. /\ tail \in Nat /\ head \in Nat /\ head <= tail /\ Cap \in Nat /\ Hdr \in Nat \ {0}
        /\ writer.at \in Nat /\ Offset(writer.at) \in Nat
        /\ Contig(tail) \in Nat \ {0} /\ Offset(tail) \in Nat
        /\ Frame >= 1 /\ Frame # Pad
        /\ Need(Frame) \in Nat /\ Need(Frame) >= Hdr /\ Bytes(Frame) = Need(Frame)
    <3>1. writer.pc \notin {"idle", "ended"}
      BY <1>3 DEF WritePad, WriteHeader, WritePayload
    <3> QED
      BY <1>1, <3>1, WriterTypes DEF WriterInv
  <2>2. /\ UNCHANGED <<tail, head, length>>
        /\ Need(Frame)' = Need(Frame) /\ Frame' = Frame /\ Contig(tail)' = Contig(tail)
    BY <1>3 DEF WritePad, WriteHeader, WritePayload, Need, Frame, Contig
  <2>3. \A at : Fits(at, Frame)' <=> Fits(at, Frame)
    BY <2>2 DEF Fits, Bytes, Need, Inside
  <2>4. writer \in [pc : {"idle", "pad", "skip", "header", "payload", "publish", "ended"},
                    at : Nat, fits : BOOLEAN]
    BY <1>1 DEF TypeOK
  <2>5. CASE WritePad
    <3>1. /\ writer.at = tail /\ Hdr <= Contig(tail) /\ tail + Contig(tail) <= head + Cap
          /\ writer.fits => tail + Contig(tail) + Need(Frame) <= head + Cap
          /\ mem' = Stored(mem, Offset(tail), Pad, 0, Hdr - 1)
      BY <1>1, <2>5 DEF WritePad, WriterInv
    <3> DEFINE at == tail + Contig(tail)
    <3>2. writer'.at = at /\ writer'.pc = IF writer.fits THEN "header" ELSE "skip"
      BY <2>4, <2>5, <3>1 DEF WritePad
    <3>3. Holds(mem', Offset(tail), Pad, 0, Hdr - 1)
      <4>1. Offset(tail) + (Hdr - 1) < Cap /\ Hdr - 1 \in Int
        BY <2>1, <3>1 DEF Contig
      <4> QED
        BY <2>1, <3>1, <4>1, StoreHolds
    <3>4. Begins(writer.at)'
      <4>1. Holds(mem, Offset(tail), Pad, 0, Hdr - 1)'
        BY <2>2, <3>3 DEF Holds
      <4> QED
        BY <2>2, <3>1, <3>2, <4>1 DEF Begins
    <3>5. ASSUME writer.fits PROVE Fits(at, Frame) /\ at + Need(Frame) <= head + Cap
      <4>1. at + Need(Frame) <= head + Cap
        BY <3>1, <3>5
      <4>2. Need(Frame) <= Cap
        BY <2>1, <4>1
      <4>3. Offset(at) = 0
        BY <2>1, ModContig
      <4> QED
        BY <2>1, <4>1, <4>2, <4>3 DEF Fits, Inside
    <3> HIDE DEF at
    <3>6. CASE writer.fits
      <4>1. writer'.pc = "header" /\ Fits(writer.at, Frame)'
        BY <2>3, <3>2, <3>5, <3>6
      <4>2. (writer.at + Need(Frame) <= head + Cap)'
        BY <2>2, <3>2, <3>5, <3>6
      <4> QED
        BY <2>1, <2>2, <3>4, <4>1, <4>2 DEF WriterInv
    <3>7. CASE ~writer.fits
      <4>1. writer'.pc = "skip" /\ (writer.at = tail + Contig(tail))'
        BY <2>2, <3>2, <3>7 DEF at
      <4>2. (writer.at <= head + Cap)'
        BY <2>2, <3>1, <3>2 DEF at
      <4> QED
        BY <2>1, <2>2, <3>4, <4>1, <4>2 DEF WriterInv
    <3> QED
      BY <3>6, <3>7
  <2>6. ASSUME writer.pc \in {"header", "payload"}, NEW i \in Nat, NEW j \in Int, j < Need(Frame),
               mem' = Stored(mem, Offset(writer.at), Frame, i, j), writer'.at = writer.at
        PROVE  /\ Begins(writer.at)' /\ Fits(writer.at, Frame)'
               /\ (writer.at + Need(Frame) <= head + Cap)'
               /\ Offset(writer.at) + j < Cap
    <3>1. /\ Begins(writer.at) /\ Fits(writer.at, Frame) /\ writer.at + Need(Frame) <= head + Cap
      BY <1>1, <2>6 DEF WriterInv
    <3>2. Offset(writer.at) + Need(Frame) <= Cap
      BY <2>1, <3>1 DEF Fits, Inside
    <3>3. Begins(writer.at)'
      <4>1. CASE writer.at = tail
        BY <2>2, <2>6, <4>1 DEF Begins
      <4>2. CASE writer.at # tail
        <5>1. /\ writer.at = tail + Contig(tail) /\ Hdr <= Contig(tail)
              /\ Holds(mem, Offset(tail), Pad, 0, Hdr - 1)
          BY <3>1, <4>2 DEF Begins
        <5>2. Inside(tail, Hdr) /\ Inside(writer.at, j + 1)
          BY <2>1, <2>6, <3>2, <5>1 DEF Inside, Contig
        <5>3. tail + Hdr <= writer.at + i /\ writer.at + j < tail + Cap
          BY <2>1, <2>6, <3>1, <5>1
        <5>4. Holds(mem', Offset(tail), Pad, 0, Hdr - 1)
          BY <2>1, <2>6, <5>1, <5>2, <5>3, StoreKeeps
        <5>5. Holds(mem, Offset(tail), Pad, 0, Hdr - 1)'
          BY <2>2, <5>4 DEF Holds
        <5> QED
          BY <2>2, <2>6, <5>1, <5>5 DEF Begins
      <4> QED
        BY <4>1, <4>2
    <3>4. Offset(writer.at) + j < Cap
      BY <2>1, <2>6, <3>2
    <3>5. Fits(writer.at, Frame)' /\ (writer.at + Need(Frame) <= head + Cap)'
      BY <2>2, <2>3, <2>6, <3>1
    <3> QED
      BY <3>3, <3>4, <3>5
  <2>7. CASE WriteHeader
    <3>1. /\ writer.pc \in {"header", "payload"} /\ writer'.pc = "payload" /\ writer'.at = writer.at
          /\ mem' = Stored(mem, Offset(writer.at), Frame, 0, Hdr - 1)
      BY <2>4, <2>7 DEF WriteHeader
    <3>2. Hdr - 1 < Need(Frame) /\ Hdr - 1 \in Int /\ 0 \in Nat
      BY <2>1
    <3>3. /\ Begins(writer.at)' /\ Fits(writer.at, Frame)'
          /\ (writer.at + Need(Frame) <= head + Cap)'
          /\ Offset(writer.at) + (Hdr - 1) < Cap
      BY <2>6, <3>1, <3>2
    <3>4. Holds(mem', Offset(writer.at), Frame, 0, Hdr - 1)
      BY <2>1, <3>1, <3>2, <3>3, StoreHolds
    <3>5. Holds(mem, Offset(writer.at), Frame, 0, Hdr - 1)'
      BY <2>2, <3>1, <3>4 DEF Holds
    <3> QED
      BY <2>1, <2>2, <3>1, <3>3, <3>5 DEF WriterInv
  <2>8. CASE WritePayload
    <3>1. /\ writer.pc \in {"header", "payload"} /\ writer'.pc = "publish" /\ writer'.at = writer.at
          /\ mem' = Stored(mem, Offset(writer.at), Frame, Hdr, Need(Frame) - 1)
          /\ Holds(mem, Offset(writer.at), Frame, 0, Hdr - 1)
      BY <1>1, <2>4, <2>8 DEF WritePayload, WriterInv
    <3>2. Need(Frame) - 1 < Need(Frame) /\ Need(Frame) - 1 \in Int /\ Hdr \in Nat
      BY <2>1
    <3>3. /\ Begins(writer.at)' /\ Fits(writer.at, Frame)'
          /\ (writer.at + Need(Frame) <= head + Cap)'
          /\ Offset(writer.at) + (Need(Frame) - 1) < Cap
      BY <2>6, <3>1, <3>2
    <3>4. Holds(mem', Offset(writer.at), Frame, 0, Need(Frame) - 1)
      BY <2>1, <3>1, <3>2, <3>3, StoreCompletes
    <3>5. Holds(mem, Offset(writer.at), Frame, 0, Need(Frame) - 1)'
      BY <2>2, <3>1, <3>4 DEF Holds
    <3> QED
      BY <2>1, <2>2, <3>1, <3>3, <3>5 DEF WriterInv
  <2> QED
    BY <1>3, <2>5, <2>7, <2>8
<1> QED
  BY <1>2, <1>3

-----------------------------------------------------------------------------
(* Theorems *)

\* The empty ring: one boundary, at cursor 0.
LEMMA InitInv ==
    ASSUME Init
    PROVE  Inv
<1>1. Len(<<>>) = 0 /\ \A S : <<>> \in Seq(S)
  BY EmptySeq
<1>2. TypeOK
  <2>1. mem \in [Offsets -> [frame : 0 .. Len(length), pos : Nat]]
    <3>1. Byte(Pad, Hdr) \in [frame : 0 .. 0, pos : Nat]
      BY SizesAssumption DEF Byte, Pad
    <3> QED
      BY <1>1, <3>1 DEF Init, Blank
  <2>2. tail \in Nat /\ head \in 0 .. tail /\ tail - head <= Cap
    BY SizesAssumption DEF Init
  <2>3. /\ writer \in [pc : {"idle", "pad", "skip", "header", "payload", "publish", "ended"},
                       at : Nat, fits : BOOLEAN]
        /\ reader \in [pc : {"idle", "record", "payload"}, head : Nat, tail : Nat,
                       frame : -1 .. Len(length), out : Seq(-1 .. Len(length))]
    BY <1>1 DEF Init, WriterIdle, ReaderIdle
  <2>4. length \in Seq(Lengths) /\ accepted \in Seq(1 .. Len(length)) /\ delivered \in Seq(-1 .. Len(length))
    BY <1>1 DEF Init
  <2> QED
    BY <2>1, <2>2, <2>3, <2>4 DEF TypeOK
<1>3. WriterInv
  BY DEF Init, WriterInv, WriterIdle
<1>4. Len(length) <= MaxFrames
  BY <1>1, SizesAssumption DEF Init
<1>5. LayoutInv
  <2> DEFINE b == [at |-> 0, idx |-> 0, frame |-> Pad]
             B == <<b>>
  <2>1. B \in Seq(Node) /\ Len(B) = 1 /\ B[1] = b
    BY DEF Node, Pad
  <2>2. b.at = 0 /\ b.idx = 0
    OBVIOUS
  <2> HIDE DEF b, B
  <2>3. Chain(B, tail, accepted)
    BY <1>1, <2>1, <2>2 DEF Chain, Init, b
  <2>4. Stands(B, 1)
    BY <2>1 DEF Stands
  <2>5. Released(B, 1)
    BY <1>1, <2>1, <2>2 DEF Released, Init
  <2>6. Reading(B, 1, 1, 1)
    BY DEF Reading, Init, ReaderIdle
  <2>7. 1 \in 1 .. Len(B)
    BY <2>1
  <2> QED
    BY <2>1, <2>3, <2>4, <2>5, <2>6, <2>7 DEF LayoutInv, Layout
<1> QED
  BY <1>2, <1>3, <1>4, <1>5 DEF Inv

LEMMA NextInv ==
    ASSUME Inv, [Next]_vars
    PROVE  Inv'
<1>1. ASSUME NEW l \in Lengths, Refuse(l) \/ Place(l) \/ Wrap(l) \/ Overrun(l)
      PROVE  Inv'
  <2>1. Len(length') <= MaxFrames
    BY <1>1, CallExtends DEF Inv, Refuse, Place, Wrap, Overrun, Frame
  <2> QED
    BY <1>1, <2>1, TypeCall, WriterCall, LayoutWrite DEF Inv
<1>2. CASE WritePad \/ PublishPad \/ WriteHeader \/ WritePayload \/ Publish \/ Reconnect
  <2>1. Len(length') <= MaxFrames
    BY <1>2 DEF Inv, WritePad, PublishPad, WriteHeader, WritePayload, Publish, Reconnect
  <2>2. LayoutInv'
    BY <1>2, LayoutWrite, LayoutPublish
  <2> QED
    BY <1>2, <2>1, <2>2, TypeWrite, WriterWrite DEF Inv
<1>3. CASE Read
  <2>1. Len(length') <= MaxFrames
    BY <1>3 DEF Inv, Read, ReadCursors, ReadHeader, ReadPayload, ReturnBatch
  <2> QED
    BY <1>3, <2>1, TypeRead, WriterKept, LayoutRead DEF Inv
<1>4. CASE UNCHANGED vars
  <2>1. TypeOK' /\ Len(length') <= MaxFrames
    BY <1>4 DEF vars, Inv, TypeOK
  <2>2. WriterInv'
    BY <1>4 DEF vars, Inv, WriterInv, Begins, Fits, Inside, Bytes, Need, Frame, Holds, Contig
  <2>3. PICK B \in Seq(Node) : \E h, r, t \in 1 .. Len(B) : Layout(B, h, r, t)
    BY DEF Inv, LayoutInv
  <2>4. PICK h \in 1 .. Len(B), r \in 1 .. Len(B), t \in 1 .. Len(B) : Layout(B, h, r, t)
    BY <2>3
  <2>5. TypeOK /\ Extends
    BY <1>4, SameExtends DEF vars, Inv
  <2>6. Stands(B, h)'
    BY <1>4, <2>4, <2>5, StandsKept DEF vars, Layout
  <2>7. LayoutInv'
    BY <1>4, <2>4, <2>5, <2>6, LayoutKept DEF vars
  <2> QED
    BY <2>1, <2>2, <2>7 DEF Inv
<1> QED
  BY <1>1, <1>2, <1>3, <1>4 DEF Next, Write

\* What is published and not released is, at every step of the two processes,
\* a sequence of whole records in the data area, read up to a boundary.
THEOREM RingInvariance == Spec => []Inv
<1>1. Init => Inv
  BY InitInv
<1>2. Inv /\ [Next]_vars => Inv'
  BY NextInv
<1> QED
  BY <1>1, <1>2, PTL DEF Spec

\* The cursors, locals and histories of write() and read_batch() keep their
\* types; head never passes tail, and tail never laps head.
THEOREM RingTyped == Spec => []TypeOK
<1>1. Inv => TypeOK
  BY DEF Inv
<1> QED
  BY <1>1, RingInvariance, PTL

\* No store of write() touches a byte that read_batch() may be copying.
THEOREM RingUntouched == Spec => Untouched
<1> DEFINE Leaves == \A c \in head .. tail - 1 : mem'[Offset(c)] = mem[Offset(c)]
<1>1. ASSUME Inv, [Next]_vars PROVE Leaves
  <2>1. CASE mem' = mem
    BY <2>1
  <2>2. CASE WritePad \/ WriteHeader \/ WritePayload
    <3>1. PICK w \in Nat, g \in 0 .. Len(length), i \in Nat, j \in Int :
             /\ Inside(w, j + 1) /\ tail <= w + i /\ w + j < head + Cap
             /\ mem' = Stored(mem, Offset(w), g, i, j)
      BY <1>1, <2>2, WriterStores
    <3>2. tail \in Nat /\ head \in Nat
      <4>1. tail \in Nat /\ head \in 0 .. tail
        BY <1>1 DEF Inv, TypeOK
      <4> QED
        BY <4>1
    <3>3. ASSUME NEW c \in head .. tail - 1
          PROVE  Stored(mem, Offset(w), g, i, j)[Offset(c)] = mem[Offset(c)]
      <4>1. Inside(w, j + 1) /\ tail <= w + i /\ w + j < head + Cap
        BY <3>1
      <4>2. Inside(w, j + 1) /\ c \in Nat /\ c < w + i /\ w + j < c + Cap
        BY <3>2, <4>1, SizesAssumption
      <4> QED
        BY <4>2, StoreUntouched
    <3> QED
      BY <3>1, <3>3
  <2> QED
    BY <1>1, <2>1, <2>2 DEF Next, Write, Read, vars, Refuse, Place, Wrap, Overrun, PublishPad,
                            Publish, Reconnect, ReadCursors, ReadHeader, ReadPayload, ReturnBatch
<1>2. Inv /\ [Next]_vars => [Leaves]_vars
  BY <1>1
<1> QED
  BY <1>2, RingInvariance, PTL DEF Spec, Untouched

\* write() refuses a frame only if its record fits neither at the tail nor
\* behind a pad.
THEOREM RingRefuses == Spec => RefusedFitsNowhere
<1> DEFINE Nowhere(l) ==
               \A at \in {tail, tail + Contig(tail)} :
                  Offset(at) + Hdr + l > Cap \/ at + Hdr + l > head + Cap
           Justified == \A l \in Lengths : Refuses(l) => Nowhere(l)
<1>1. ASSUME Inv, [Next]_vars PROVE Justified
  <2>1. SUFFICES ASSUME NEW l \in Lengths, Refuses(l) PROVE Nowhere(l)
    OBVIOUS
  <2>2. /\ tail \in Nat /\ head \in Nat /\ head <= tail /\ Cap \in Nat /\ Hdr \in Nat /\ l \in Nat
        /\ Contig(tail) \in Nat \ {0} /\ Offset(tail) \in Nat
    BY <1>1, <2>1, WriterTypes, SizesAssumption DEF Inv
  <2>3. /\ Called(l) /\ writer.pc = "idle" /\ length' = Append(length, l)
        /\ \/ writer'.pc = "idle"
           \/ writer'.pc = "pad" /\ ~writer'.fits
    BY <2>1 DEF Refuses, Called
  <2>4. PICK k \in Lengths : Refuse(k) \/ Place(k) \/ Wrap(k) \/ Overrun(k)
    <3>1. length' # length
      <4>1. Len(length') # Len(length)
        BY <1>1, <2>3, CallExtends DEF Inv, Frame
      <4> QED
        BY <4>1
    <3> QED
      BY <1>1, <2>3, <3>1 DEF Next, Write, Read, vars, WritePad, WriteHeader, WritePayload, PublishPad,
            Publish, Reconnect, ReadCursors, ReadHeader, ReadPayload, ReturnBatch
  <2>5. k = l
    <3>1. length' = Append(length, k) /\ length \in Seq(Lengths)
      BY <1>1, <2>4 DEF Refuse, Place, Wrap, Overrun, Called, Inv, TypeOK
    <3>2. length'[Len(length) + 1] = k
      BY <3>1, AppendProperties
    <3>3. length'[Len(length) + 1] = l
      <4>1. length' = Append(length, l) /\ length \in Seq(Lengths)
        BY <2>3, <3>1
      <4> QED
        BY <4>1, AppendProperties
    <3> QED
      BY <3>2, <3>3
  <2>6. CASE Refuse(l)
    <3>1. ~(Hdr + l <= Cap - (tail - head))
      BY <2>6 DEF Refuse, Room, Free
    <3>2. ASSUME NEW at \in {tail, tail + Contig(tail)} PROVE at + Hdr + l > head + Cap
      BY <2>2, <3>1
    <3> QED
      BY <3>2
  <2>7. CASE Place(l)
    BY <2>3, <2>7 DEF Place, WriterIdle
  <2>8. CASE Wrap(l)
    <3>1. /\ Contig(tail) < Hdr + l
          /\ writer' = [pc |-> "pad", at |-> tail, fits |-> RoomAfterPad(Hdr + l, Free, Contig(tail))]
      BY <2>8 DEF Wrap
    <3>2. ~RoomAfterPad(Hdr + l, Free, Contig(tail))
      BY <2>3, <3>1
    <3>3. ~(Hdr + l <= (Cap - (tail - head)) - Contig(tail))
      BY <3>2 DEF RoomAfterPad, Free
    <3>4. Offset(tail) + Hdr + l > Cap
      BY <2>2, <3>1 DEF Contig
    <3>5. (tail + Contig(tail)) + Hdr + l > head + Cap
      BY <2>2, <3>3
    <3> QED
      BY <3>4, <3>5
  <2>9. CASE Overrun(l)
    BY <2>3, <2>9 DEF Overrun, WriterIdle
  <2> QED
    BY <2>4, <2>5, <2>6, <2>7, <2>8, <2>9
<1>2. Inv /\ [Next]_vars => [Justified]_vars
  BY <1>1
<1> QED
  BY <1>2, RingInvariance, PTL DEF Spec, RefusedFitsNowhere

\* Every step of the ring is one of the FIFO queue, or none: an accepted frame
\* is delivered at most once, whole, in its turn.
THEOREM RingIsAQueue == Spec => Queue!Init /\ [][Queue!Next]_(Queue!vars)
<1>1. Init => Queue!Init
  BY DEF Init, Queue!Init
<1>2. ASSUME Inv, Inv', [Next]_vars PROVE [Queue!Next]_(Queue!vars)
  <2>1. CASE UNCHANGED <<accepted, delivered>>
    BY <2>1 DEF Queue!vars
  <2>2. CASE Publish
    <3>1. accepted' = Append(accepted, Frame) /\ delivered' = delivered
      BY <2>2 DEF Publish
    <3>2. Frame \in 1 .. MaxFrames
      <4>1. Frame \in 1 .. Len(length) /\ Len(length) <= MaxFrames
        BY <1>2, <2>2, WriterTypes DEF Inv, Publish
      <4>2. Len(length) \in Nat
        BY <1>2, RingSizes DEF Inv, Frame
      <4> QED
        BY <4>1, <4>2, SizesAssumption
    <3> QED
      BY <3>1, <3>2 DEF Queue!Next, Queue!Put
  <2>3. CASE ReturnBatch
    <3>1. accepted' = accepted /\ delivered' = delivered \o reader.out /\ reader.pc = "record"
      BY <2>3 DEF ReturnBatch
    <3>2. PICK B \in Seq(Node) : \E h, r, t \in 1 .. Len(B) : Layout(B, h, r, t)
      BY <1>2 DEF Inv, LayoutInv
    <3>3. PICK h \in 1 .. Len(B), r \in 1 .. Len(B), t \in 1 .. Len(B) : Layout(B, h, r, t)
      BY <3>2
    <3>4. /\ Chain(B, tail, accepted) /\ Released(B, h) /\ Reading(B, h, r, t)
      BY <3>3 DEF Layout
    <3>5. /\ B[r].idx = Len(delivered) + Len(reader.out) /\ Len(reader.out) <= MaxItems
          /\ \A i \in 1 .. Len(reader.out) : reader.out[i] = accepted[Len(delivered) + i]
          /\ \A i \in 1 .. Len(delivered) : delivered[i] = accepted[i]
      BY <3>1, <3>4 DEF Reading, Released
    <3>6. B[r].idx <= Len(accepted)
      BY <3>4, Ordered
    <3>7. /\ delivered \in Seq(-1 .. Len(length)) /\ reader.out \in Seq(-1 .. Len(length))
          /\ accepted \in Seq(1 .. Len(length))
      BY <1>2 DEF Inv, TypeOK
    <3>8. /\ Len(delivered) \in Nat /\ Len(reader.out) \in Nat /\ Len(accepted) \in Nat
          /\ Len(length) \in Nat
      <4>1. Len(length) \in Nat
        BY <1>2, RingSizes DEF Inv, Frame
      <4> QED
        BY <3>7, <4>1, LenProperties
    <3> DEFINE n == Len(delivered) + Len(reader.out)
    <3>9. n \in Nat /\ n <= Len(accepted)
      BY <3>5, <3>6, <3>8
    <3>10. delivered' = SubSeq(accepted, 1, n)
      <4>1. /\ delivered' \in Seq(-1 .. Len(length)) /\ Len(delivered') = n
            /\ \A i \in 1 .. n : delivered'[i] = IF i <= Len(delivered) THEN delivered[i]
                                                ELSE reader.out[i - Len(delivered)]
        BY <3>1, <3>7, ConcatProperties
      <4>2. \A i \in 1 .. n : accepted[i] \in 1 .. Len(length)
        BY <3>7, <3>8, <3>9, ElementOfSeq
      <4>3. /\ SubSeq(accepted, 1, n) \in Seq(1 .. Len(length))
            /\ Len(SubSeq(accepted, 1, n)) = n
            /\ \A i \in 1 .. n : SubSeq(accepted, 1, n)[i] = accepted[i]
        <5> HIDE DEF n
        <5>1. /\ SubSeq(accepted, 1, n) \in Seq(1 .. Len(length))
              /\ Len(SubSeq(accepted, 1, n)) = IF 1 <= n THEN (n - 1) + 1 ELSE 0
              /\ \A i \in 1 .. (n - 1) + 1 : SubSeq(accepted, 1, n)[i] = accepted[(1 + i) - 1]
          BY <3>9, <4>2, SubSeqProperties
        <5>2. (IF 1 <= n THEN (n - 1) + 1 ELSE 0) = n /\ (n - 1) + 1 = n
          BY <3>9
        <5> QED
          BY <5>1, <5>2, <3>9
      <4>4. SubSeq(accepted, 1, n) \in Seq(-1 .. Len(length))
        <5>1. 1 .. Len(length) \subseteq -1 .. Len(length)
          BY <3>8
        <5> HIDE DEF n
        <5> QED
          BY <4>3, <5>1, SeqMonotonic
      <4>5. ASSUME NEW i \in 1 .. n PROVE delivered'[i] = accepted[i]
        <5>1. CASE i <= Len(delivered)
          <6>1. i \in 1 .. Len(delivered)
            BY <3>8, <5>1
          <6> QED
            BY <3>5, <4>1, <5>1, <6>1
        <5>2. CASE ~(i <= Len(delivered))
          <6> DEFINE j == i - Len(delivered)
          <6>1. j \in 1 .. Len(reader.out) /\ Len(delivered) + j = i
            BY <3>8, <5>2
          <6> QED
            BY <3>5, <4>1, <5>2, <6>1
        <5> QED
          BY <5>1, <5>2
      <4> HIDE DEF n
      <4> QED
        BY <4>1, <4>3, <4>4, <4>5, SeqEqual
    <3>11. CASE reader.out = <<>>
      BY <3>1, <3>7, <3>11, ConcatEmptySeq DEF Queue!vars
    <3>12. CASE reader.out # <<>>
      <4>1. Len(reader.out) >= 1
        BY <3>7, <3>8, <3>12, EmptySeq
      <4>2. n \in Len(delivered) + 1 .. Len(accepted) /\ n <= Len(delivered) + MaxItems
        BY <3>5, <3>8, <3>9, <4>1, SizesAssumption
      <4> HIDE DEF n
      <4> QED
        BY <3>1, <3>10, <4>2 DEF Queue!Next, Queue!Take
    <3> QED
      BY <3>11, <3>12
  <2> QED
    BY <1>2, <2>1, <2>2, <2>3 DEF Next, Write, Read, vars, Refuse, Place, Wrap, Overrun, WritePad,
          WriteHeader, WritePayload, PublishPad, Reconnect, ReadCursors, ReadHeader, ReadPayload
<1> QED
  BY <1>1, <1>2, RingInvariance, PTL DEF Spec

-----------------------------------------------------------------------------
(* The wire format: what may be sent *)

AllOptions ==
    [ser : Serializers \cup {Default}, comp : DOMAIN CompressionCode \cup {"auto"},
     type : DataTypes \cup {Default}, crc : BOOLEAN, token : Int, msgType : {"DATA", "CONTROL"}]

AllValues == {Value(k, n, t) : k \in Kind, n \in Nat, t \in SUBSET STRING}

\* A call with these options that encode() does not refuse for its serializer.
Sendable(c) ==
    /\ c.topic \in Seq(STRING) /\ c.value \in AllValues /\ c.options \in AllOptions
    /\ Serializer(c.value, c.options) \in Serializers

RowsOf(c) ==
    IF Type(c.value, c.options) = "DATAFRAME" THEN AsRows(c.value, Serializer(c.value, c.options))
    ELSE c.value

PayloadCell(c) ==
    Cell("payload",
         <<Serializer(c.value, c.options), Compression(RowsOf(c), c.options), RowsOf(c)>>)

TokenCells(c) == IF c.options.token # NoAck THEN <<Cell("token", c.options.token)>> ELSE <<>>

TopicCells(c) == [i \in 1 .. Len(c.topic) |-> Cell("topic", c.topic[i])]

\* The frame of a call with number n, without its checksum and with it.
Body(c, n) ==
    [version |-> 3, msgType |-> c.options.msgType, type |-> Type(c.value, c.options),
     topicLen |-> Len(c.topic),
     flags |-> EncodeFlags(Serializer(c.value, c.options), Compression(RowsOf(c), c.options),
                           c.options.crc, c.options.token # NoAck),
     seq |-> n, records |-> RecordCount(RowsOf(c)),
     cells |-> TokenCells(c) \o TopicCells(c) \o <<PayloadCell(c)>>]

Numbered(c, n) == IF c.options.crc THEN WithCrc(Body(c, n)) ELSE Body(c, n)

LEMMA EncodeIs ==
    ASSUME NEW c
    PROVE  Encode(c.topic, c.value, c.options) = Numbered(c, 0)
BY DEF Encode, Numbered, Body, RowsOf, TokenCells, TopicCells, PayloadCell

-----------------------------------------------------------------------------
(* Flags *)

LEMMA Codes ==
    /\ \A s \in Serializers : SerializerCode[s] \in 0 .. 7
    /\ \A s \in Serializers : NameOf(SerializerCode, SerializerCode[s], "msgpack") = s
    /\ \A c \in DOMAIN CompressionCode : CompressionCode[c] \in 0 .. 3
    /\ \A c \in DOMAIN CompressionCode : NameOf(CompressionCode, CompressionCode[c], "none") = c
<1>1. /\ Serializers = {"msgpack", "bytes", "pyarrow", "str", "json"}
      /\ SerializerCode["msgpack"] = 0 /\ SerializerCode["bytes"] = 1
      /\ SerializerCode["pyarrow"] = 2 /\ SerializerCode["str"] = 4 /\ SerializerCode["json"] = 5
  BY DEF Serializers, SerializerCode
<1>2. /\ DOMAIN CompressionCode = {"none", "snappy", "lz4", "zstd"}
      /\ CompressionCode["none"] = 0 /\ CompressionCode["snappy"] = 1
      /\ CompressionCode["lz4"] = 2 /\ CompressionCode["zstd"] = 3
  BY DEF CompressionCode
<1>3. \A s, t \in Serializers : SerializerCode[s] = SerializerCode[t] => s = t
  BY <1>1
<1>4. \A s, t \in DOMAIN CompressionCode : CompressionCode[s] = CompressionCode[t] => s = t
  BY <1>2
<1>5. ASSUME NEW s \in Serializers PROVE NameOf(SerializerCode, SerializerCode[s], "msgpack") = s
  BY <1>3 DEF NameOf, Serializers
<1>6. ASSUME NEW c \in DOMAIN CompressionCode
      PROVE  NameOf(CompressionCode, CompressionCode[c], "none") = c
  BY <1>4 DEF NameOf
<1>7. \A s \in Serializers : SerializerCode[s] \in 0 .. 7
  BY <1>1
<1>8. \A c \in DOMAIN CompressionCode : CompressionCode[c] \in 0 .. 3
  BY <1>2
<1> QED
  BY <1>5, <1>6, <1>7, <1>8

\* Each of the four parts of the byte comes out as it went in.
LEMMA FlagBits ==
    ASSUME NEW s \in 0 .. 7, NEW c \in 0 .. 3, NEW a \in 0 .. 1, NEW k \in 0 .. 1
    PROVE  LET f == s + 8 * c + 64 * a + 128 * k
           IN f % 8 = s /\ (f \div 8) % 4 = c /\ (f \div 64) % 2 = a /\ f \div 128 = k
<1> DEFINE f == s + 8 * c + 64 * a + 128 * k
<1>1. f \in Nat /\ f = s + 8 * (c + 8 * a + 16 * k)
  OBVIOUS
<1>2. f % 8 = s /\ f \div 8 = c + 8 * a + 16 * k
  BY <1>1
<1>3. f \div 64 = a + 2 * k /\ f \div 128 = k
  BY <1>1
<1>4. (c + 8 * a + 16 * k) % 4 = c /\ (a + 2 * k) % 2 = a
  OBVIOUS
<1> QED
  BY <1>2, <1>3, <1>4

LEMMA FlagsRead ==
    ASSUME NEW ser \in Serializers, NEW comp \in DOMAIN CompressionCode, NEW crc \in BOOLEAN,
           NEW ack \in BOOLEAN
    PROVE  LET f == EncodeFlags(ser, comp, crc, ack)
           IN /\ DecodeFlags(f) = [ser |-> ser, comp |-> comp]
              /\ HasAck(f) <=> ack
              /\ HasCrc(f) <=> crc
<1> DEFINE f == EncodeFlags(ser, comp, crc, ack)
           s == SerializerCode[ser]
           c == CompressionCode[comp]
           a == Bit(ack)
           k == Bit(crc)
<1>1. s \in 0 .. 7 /\ c \in 0 .. 3
  BY Codes
<1>2. a \in 0 .. 1 /\ k \in 0 .. 1 /\ (a = 1 <=> ack) /\ (k = 1 <=> crc)
  BY DEF Bit
<1>3. f = s + 8 * c + 64 * a + 128 * k
  BY DEF EncodeFlags
<1> HIDE DEF f, s, c, a, k
<1>4. f % 8 = s /\ (f \div 8) % 4 = c /\ (f \div 64) % 2 = a /\ f \div 128 = k
  BY <1>1, <1>2, <1>3, FlagBits
<1>5. DecodeFlags(f) = [ser |-> ser, comp |-> comp]
  BY <1>4, Codes DEF DecodeFlags, s, c
<1>6. (HasAck(f) <=> ack) /\ (HasCrc(f) <=> crc)
  BY <1>2, <1>4 DEF HasAck, HasCrc
<1> QED
  BY <1>5, <1>6 DEF f

-----------------------------------------------------------------------------
(* Cells: what a frame of a call has where *)

LEMMA RowsAre ==
    ASSUME NEW c, Sendable(c)
    PROVE  /\ RowsOf(c).size \in Nat /\ RecordCount(RowsOf(c)) = RecordCount(c.value)
           /\ Compression(RowsOf(c), c.options) \in DOMAIN CompressionCode
<1>1. PICK k \in Kind, n \in Nat, t \in SUBSET STRING : c.value = Value(k, n, t)
  BY DEF Sendable, AllValues
<1>2. PICK few : few = Value("list", n, t \ {Index, ColumnTypes})
  OBVIOUS
<1>3. c.value.kind = k /\ c.value.size = n /\ c.value.traits = t /\ few.kind = "list" /\ few.size = n
  BY <1>1, <1>2 DEF Value
<1>4. RowsOf(c) = c.value \/ (k = "DataFrame" /\ RowsOf(c) = few)
  BY <1>2, <1>3 DEF RowsOf, AsRows
<1>5. RowsOf(c).size = n
  BY <1>3, <1>4
<1>6. RecordCount(RowsOf(c)) = RecordCount(c.value)
  BY <1>3, <1>4 DEF RecordCount
<1>7. /\ "none" \in DOMAIN CompressionCode /\ "lz4" \in DOMAIN CompressionCode
      /\ c.options.comp \in DOMAIN CompressionCode \cup {"auto"}
  BY DEF CompressionCode, Sendable, AllOptions
<1>8. Compression(RowsOf(c), c.options) \in DOMAIN CompressionCode
  BY <1>7 DEF Compression
<1> QED
  BY <1>5, <1>6, <1>8

LEMMA Joined ==
    ASSUME NEW T, NEW a \in Seq(T), NEW b \in Seq(T), NEW m, NEW n, Len(a) = m, Len(b) = n
    PROVE  /\ m \in Nat /\ n \in Nat
           /\ a \o b \in Seq(T) /\ Len(a \o b) = m + n
           /\ \A i \in 1 .. m : (a \o b)[i] = a[i]
           /\ \A i \in 1 .. n : (a \o b)[m + i] = b[i]
<1>1. m \in Nat /\ n \in Nat
  BY LenProperties
<1> DEFINE ab == a \o b
<1>2. /\ ab \in Seq(T) /\ Len(ab) = m + n
      /\ \A i \in 1 .. m + n : ab[i] = IF i <= m THEN a[i] ELSE b[i - m]
  BY ConcatProperties
<1> HIDE DEF ab
<1>3. \A i \in 1 .. m : ab[i] = a[i]
  BY <1>1, <1>2
<1>4. ASSUME NEW i \in 1 .. n PROVE ab[m + i] = b[i]
  <2>1. m + i \in 1 .. m + n /\ ~(m + i <= m) /\ m + i - m = i
    BY <1>1
  <2> QED
    BY <1>2, <2>1
<1> QED
  BY <1>1, <1>2, <1>3, <1>4 DEF ab

\* How many cells come before the topic.
Before(c) == IF c.options.token # NoAck THEN 1 ELSE 0

LEMMA BodyCells ==
    ASSUME NEW c, Sendable(c), NEW n
    PROVE  \E T : /\ Body(c, n).cells \in Seq(T)
                  /\ Len(Body(c, n).cells) = Before(c) + Len(c.topic) + 1
                  /\ c.options.token # NoAck => Body(c, n).cells[1] = Cell("token", c.options.token)
                  /\ \A i \in 1 .. Len(c.topic) :
                        Body(c, n).cells[Before(c) + i] = Cell("topic", c.topic[i])
                  /\ Body(c, n).cells[Before(c) + Len(c.topic) + 1] = PayloadCell(c)
                  /\ Crc(Body(c, n)) \in T
<1> DEFINE l == Len(c.topic)
           T == {Cell("token", c.options.token)} \cup {Cell("topic", c.topic[i]) : i \in 1 .. l}
                  \cup {PayloadCell(c), Crc(Body(c, n))}
           token == TokenCells(c)
           topic == TopicCells(c)
           payload == <<PayloadCell(c)>>
           cells == Body(c, n).cells
<1>1. l \in Nat
  BY LenProperties DEF Sendable
<1>2. /\ Cell("token", c.options.token) \in T /\ PayloadCell(c) \in T /\ Crc(Body(c, n)) \in T
      /\ \A i \in 1 .. l : Cell("topic", c.topic[i]) \in T
  OBVIOUS
<1>3. cells = (token \o topic) \o payload
  BY DEF Body
<1> HIDE DEF T, cells
<1>4. token \in Seq(T) /\ Len(token) = Before(c)
      /\ (c.options.token # NoAck => token[1] = Cell("token", c.options.token))
  <2>1. CASE c.options.token # NoAck
    <3>1. token = <<Cell("token", c.options.token)>>
      BY <2>1 DEF TokenCells
    <3> QED
      BY <1>2, <2>1, <3>1 DEF Before
  <2>2. CASE c.options.token = NoAck
    <3>1. token = <<>>
      BY <2>2 DEF TokenCells
    <3> QED
      BY <2>2, <3>1, EmptySeq DEF Before
  <2> QED
    BY <2>1, <2>2
<1>5. topic \in Seq(T) /\ Len(topic) = l /\ \A i \in 1 .. l : topic[i] = Cell("topic", c.topic[i])
  <2>1. topic = [i \in 1 .. l |-> Cell("topic", c.topic[i])]
    BY DEF TopicCells
  <2>2. topic \in [1 .. l -> T]
    BY <1>2, <2>1
  <2>3. topic \in Seq(T)
    BY <1>1, <2>2, SeqDef
  <2> QED
    BY <1>1, <2>1, <2>2, <2>3, LenProperties
<1>6. payload \in Seq(T) /\ Len(payload) = 1 /\ payload[1] = PayloadCell(c)
  BY <1>2
<1> HIDE DEF token, topic, payload, l
<1> DEFINE front == token \o topic
           m == Before(c)
<1>7. /\ m \in Nat /\ front \in Seq(T) /\ Len(front) = m + l
      /\ \A i \in 1 .. m : front[i] = token[i]
      /\ \A i \in 1 .. l : front[m + i] = topic[i]
  <2>1. token \in Seq(T) /\ topic \in Seq(T) /\ Len(token) = m /\ Len(topic) = l
    BY <1>4, <1>5
  <2> HIDE DEF m
  <2> QED
    BY <2>1, Joined
<1>8. cells = front \o payload
  BY <1>3
<1> HIDE DEF front, m
<1>9. /\ cells \in Seq(T) /\ Len(cells) = m + l + 1
      /\ \A i \in 1 .. m + l : cells[i] = front[i]
      /\ \A i \in 1 .. 1 : cells[m + l + i] = payload[i]
  <2> DEFINE k == m + l
             j == 1
  <2>1. Len(front) = k /\ front \in Seq(T) /\ payload \in Seq(T) /\ Len(payload) = j
    BY <1>6, <1>7
  <2> HIDE DEF k, j
  <2>2. /\ front \o payload \in Seq(T) /\ Len(front \o payload) = k + j
        /\ \A i \in 1 .. k : (front \o payload)[i] = front[i]
        /\ \A i \in 1 .. j : (front \o payload)[k + i] = payload[i]
    BY <2>1, Joined
  <2> QED
    BY <1>8, <2>2 DEF k, j
<1>10. c.options.token # NoAck => cells[1] = Cell("token", c.options.token)
  <2>1. c.options.token # NoAck => m = 1
    BY DEF Before, m
  <2> QED
    BY <1>1, <1>4, <1>7, <1>9, <2>1
<1>11. ASSUME NEW i \in 1 .. l PROVE cells[m + i] = Cell("topic", c.topic[i])
  <2>1. m + i \in 1 .. m + l
    BY <1>1, <1>7
  <2> QED
    BY <1>5, <1>7, <1>9, <2>1
<1>12. cells[m + l + 1] = PayloadCell(c)
  BY <1>6, <1>9
<1> QED
  BY <1>2, <1>9, <1>10, <1>11, <1>12 DEF cells, l, m

\* A checksum more, and less.
LEMMA CrcPutOn ==
    ASSUME NEW T, NEW q \in Seq(T), NEW e \in T
    PROVE  /\ Len(Append(q, e)) = Len(q) + 1 /\ Append(q, e)[Len(q) + 1] = e
           /\ \A i \in 1 .. Len(q) : Append(q, e)[i] = q[i]
           /\ Front(Append(q, e)) = q
<1> DEFINE r == Append(q, e)
<1>1. /\ Len(q) \in Nat /\ r \in Seq(T) /\ Len(r) = Len(q) + 1 /\ r[Len(q) + 1] = e
      /\ \A i \in 1 .. Len(q) : r[i] = q[i]
  BY AppendProperties, LenProperties
<1> HIDE DEF r
<1>2. Front(r) = SubSeq(r, 1, Len(q))
  BY <1>1 DEF Front
<1>3. \A i \in 1 .. Len(q) : r[i] \in T
  BY <1>1, ElementOfSeq
<1> DEFINE s == SubSeq(r, 1, Len(q))
<1>4. s \in Seq(T) /\ Len(s) = Len(q) /\ \A i \in 1 .. Len(q) : s[i] = r[i]
  <2>1. 1 \in Int /\ Len(q) \in Int
    BY <1>1
  <2>2. /\ s \in Seq(T) /\ Len(s) = (IF 1 <= Len(q) THEN Len(q) - 1 + 1 ELSE 0)
        /\ \A i \in 1 .. Len(q) - 1 + 1 : s[i] = r[1 + i - 1]
    BY <1>3, <2>1, SubSeqProperties
  <2> QED
    BY <1>1, <2>2
<1> HIDE DEF s
<1>5. s = q
  BY <1>1, <1>4, SeqEqual
<1> QED
  BY <1>1, <1>2, <1>5 DEF r, s

-----------------------------------------------------------------------------
(* What is read out of a frame *)

\* The cells of a frame of a call, as its readers look for them.
LEMMA NumberedCells ==
    ASSUME NEW c, Sendable(c), NEW n
    PROVE  LET f == Numbered(c, n)
           IN /\ f.version = 3 /\ f.msgType = c.options.msgType /\ f.seq = n
              /\ f.type = Type(c.value, c.options) /\ f.topicLen = Len(c.topic)
              /\ f.records = RecordCount(c.value)
              /\ f.flags = Body(c, n).flags
              /\ Len(f.cells) = Before(c) + Len(c.topic) + 1 + Bit(c.options.crc)
              /\ c.options.token # NoAck => f.cells[1] = Cell("token", c.options.token)
              /\ \A i \in 1 .. Len(c.topic) : f.cells[Before(c) + i] = Cell("topic", c.topic[i])
              /\ f.cells[Before(c) + Len(c.topic) + 1] = PayloadCell(c)
              /\ c.options.crc => /\ f.cells[Len(f.cells)] = Crc(Body(c, n))
                                  /\ [f EXCEPT !.cells = Front(@)] = Body(c, n)
<1> DEFINE b == Body(c, n)
           f == Numbered(c, n)
           l == Len(c.topic)
           m == Before(c)
<1>1. PICK T : /\ b.cells \in Seq(T) /\ Len(b.cells) = m + l + 1
               /\ c.options.token # NoAck => b.cells[1] = Cell("token", c.options.token)
               /\ \A i \in 1 .. l : b.cells[m + i] = Cell("topic", c.topic[i])
               /\ b.cells[m + l + 1] = PayloadCell(c)
               /\ Crc(b) \in T
  BY BodyCells
<1>2. l \in Nat /\ m \in Nat
  BY LenProperties DEF Sendable, Before
<1>3. /\ b.version = 3 /\ b.msgType = c.options.msgType /\ b.seq = n
      /\ b.type = Type(c.value, c.options) /\ b.topicLen = l
      /\ b.records = RecordCount(c.value)
  BY RowsAre DEF Body
<1>4. c.options.crc \in BOOLEAN
  BY DEF Sendable, AllOptions
<1>5. CASE ~c.options.crc
  <2>1. f = b
    BY <1>5 DEF Numbered
  <2>2. Bit(c.options.crc) = 0
    BY <1>5 DEF Bit
  <2> HIDE DEF b, f, l, m
  <2> QED
    BY <1>1, <1>2, <1>3, <1>5, <2>1, <2>2 DEF b, f, l, m
<1>6. CASE c.options.crc
  <2> DEFINE cells == Append(b.cells, Crc(b))
  <2>1. f = [b EXCEPT !.cells = cells]
    BY <1>6 DEF Numbered, WithCrc
  <2>2. /\ f.version = b.version /\ f.msgType = b.msgType /\ f.seq = b.seq /\ f.type = b.type
        /\ f.topicLen = b.topicLen /\ f.records = b.records /\ f.flags = b.flags
        /\ f.cells = cells
    BY <2>1 DEF Body
  <2>3. [f EXCEPT !.cells = b.cells] = b
    BY <2>1 DEF Body
  <2>4. Bit(c.options.crc) = 1
    BY <1>6 DEF Bit
  <2>5. /\ Len(cells) = Len(b.cells) + 1 /\ cells[Len(b.cells) + 1] = Crc(b)
        /\ \A i \in 1 .. Len(b.cells) : cells[i] = b.cells[i]
        /\ Front(cells) = b.cells
    <3> HIDE DEF b
    <3> QED
      BY <1>1, CrcPutOn
  <2> HIDE DEF b, f, l, m, cells
  <2>6. \A i \in 1 .. m + l + 1 : f.cells[i] = b.cells[i]
    BY <1>1, <2>2, <2>5
  <2>7. c.options.token # NoAck => f.cells[1] = Cell("token", c.options.token)
    <3>1. 1 \in 1 .. m + l + 1
      BY <1>2
    <3> QED
      BY <1>1, <2>6, <3>1
  <2>8. ASSUME NEW i \in 1 .. l PROVE f.cells[m + i] = Cell("topic", c.topic[i])
    <3>1. m + i \in 1 .. m + l + 1
      BY <1>2
    <3> QED
      BY <1>1, <2>6, <3>1
  <2>9. f.cells[m + l + 1] = PayloadCell(c)
    <3>1. m + l + 1 \in 1 .. m + l + 1
      BY <1>2
    <3> QED
      BY <1>1, <2>6, <3>1
  <2>10. Len(f.cells) = m + l + 1 + Bit(c.options.crc)
    BY <1>1, <1>2, <2>2, <2>4, <2>5
  <2>11. f.cells[Len(f.cells)] = Crc(b) /\ [f EXCEPT !.cells = Front(@)] = b
    BY <2>2, <2>3, <2>5
  <2> QED
    BY <1>3, <2>2, <2>7, <2>8, <2>9, <2>10, <2>11 DEF b, f, l, m
<1> QED
  BY <1>4, <1>5, <1>6

LEMMA FlagsOf ==
    ASSUME NEW c, Sendable(c), NEW n
    PROVE  LET flags == Body(c, n).flags
           IN /\ DecodeFlags(flags).ser = Serializer(c.value, c.options)
              /\ DecodeFlags(flags).comp = Compression(RowsOf(c), c.options)
              /\ HasAck(flags) <=> c.options.token # NoAck
              /\ HasCrc(flags) <=> c.options.crc
<1> DEFINE ser == Serializer(c.value, c.options)
           comp == Compression(RowsOf(c), c.options)
           ack == c.options.token # NoAck
           flags == EncodeFlags(ser, comp, c.options.crc, ack)
<1>1. /\ ser \in Serializers /\ comp \in DOMAIN CompressionCode /\ c.options.crc \in BOOLEAN
      /\ ack \in BOOLEAN
  BY RowsAre DEF Sendable, AllOptions
<1>2. Body(c, n).flags = flags
  BY DEF Body
<1> HIDE DEF ser, comp, ack
<1>3. /\ DecodeFlags(flags) = [ser |-> ser, comp |-> comp]
      /\ (HasAck(flags) <=> ack) /\ (HasCrc(flags) <=> c.options.crc)
  BY <1>1, FlagsRead
<1> QED
  BY <1>2, <1>3 DEF ser, comp, ack

\* Every reader finds in a frame what the call had.
LEMMA ReadBack ==
    ASSUME NEW c, Sendable(c), NEW n
    PROVE  LET f == Numbered(c, n)
           IN /\ HeaderReadable(f) /\ Unpackable(f)
              /\ TopicOf(f) = c.topic /\ PayloadOf(f) = <<PayloadCell(c)>>
              /\ DecodeHeader(f).token = c.options.token
              /\ DecodeFlags(f.flags).ser = Serializer(c.value, c.options)
<1> DEFINE f == Numbered(c, n)
           l == Len(c.topic)
           m == Before(c)
           b == Body(c, n)
           ack == c.options.token # NoAck
           crc == c.options.crc
           p == PayloadCell(c)
<1>1. /\ f.version = 3 /\ f.topicLen = l /\ f.flags = b.flags
      /\ Len(f.cells) = m + l + 1 + Bit(crc)
      /\ ack => f.cells[1] = Cell("token", c.options.token)
      /\ \A i \in 1 .. l : f.cells[m + i] = Cell("topic", c.topic[i])
      /\ f.cells[m + l + 1] = p
      /\ crc => f.cells[Len(f.cells)] = Crc(b) /\ [f EXCEPT !.cells = Front(@)] = b
  BY NumberedCells
<1>2. /\ DecodeFlags(b.flags).ser = Serializer(c.value, c.options)
      /\ DecodeFlags(b.flags).comp = Compression(RowsOf(c), c.options)
      /\ (HasAck(b.flags) <=> ack) /\ (HasCrc(b.flags) <=> crc)
  BY FlagsOf
<1>3. l \in Nat /\ m = Bit(ack) /\ m \in 0 .. 1 /\ Bit(crc) \in 0 .. 1
  BY LenProperties DEF Sendable, Before, Bit
<1>4. c.topic = [i \in 1 .. l |-> c.topic[i]]
  <2>1. c.topic \in [1 .. l -> STRING]
    BY LenProperties DEF Sendable
  <2> QED
    BY <2>1
<1> HIDE DEF f, l, m, b, ack, crc
<1>5. TopicAt(f) = m + 1 /\ PayloadAt(f) = m + l + 1
  BY <1>1, <1>2, <1>3 DEF TopicAt, PayloadAt, Bit
<1>6. HeaderReadable(f)
  BY <1>1, <1>3, <1>5 DEF HeaderReadable
<1>7. TopicOf(f) = c.topic
  <2>1. \A i \in 1 .. l : f.cells[m + i][2] = c.topic[i]
    BY <1>1 DEF Cell
  <2>2. \A i \in 1 .. l : m + 1 + i - 1 = m + i
    BY <1>3
  <2>3. TopicOf(f) = [i \in 1 .. l |-> c.topic[i]]
    BY <1>1, <1>5, <2>1, <2>2 DEF TopicOf
  <2> QED
    BY <1>4, <2>3
<1>8. PayloadOf(f) = <<p>>
  <2>1. Len(f.cells) - Bit(HasCrc(f.flags)) = m + l + 1
    BY <1>1, <1>2, <1>3 DEF Bit
  <2> DEFINE at == m + l + 1
             q == SubSeq(f.cells, at, at)
  <2>2. PayloadOf(f) = q
    BY <1>5, <2>1 DEF PayloadOf
  <2>3. at \in Int /\ \A i \in at .. at : f.cells[i] \in {p}
    BY <1>1, <1>3
  <2> HIDE DEF at, p
  <2>4. q \in Seq({p}) /\ Len(q) = 1 /\ \A i \in 1 .. 1 : q[i] = f.cells[at + i - 1]
    <3>1. /\ q \in Seq({p}) /\ Len(q) = (IF at <= at THEN at - at + 1 ELSE 0)
          /\ \A i \in 1 .. at - at + 1 : q[i] = f.cells[at + i - 1]
      BY <2>3, SubSeqProperties
    <3> QED
      BY <2>3, <3>1
  <2> HIDE DEF q
  <2>5. <<p>> \in Seq({p}) /\ Len(<<p>>) = 1 /\ <<p>>[1] = p
    OBVIOUS
  <2>6. \A i \in 1 .. Len(q) : q[i] = <<p>>[i]
    BY <2>4, <2>5, ElementOfSeq
  <2>7. q = <<p>>
    BY <2>4, <2>5, <2>6, SeqEqual
  <2> QED
    BY <2>2, <2>7
<1>9. DecodeHeader(f).token = c.options.token
  BY <1>1, <1>2 DEF DecodeHeader, Cell, ack, NoAck
<1>10. Unpackable(f)
  <2>1. Readable(f)
    BY <1>1, <1>2, <1>6 DEF Readable
  <2>2. /\ Len(<<p>>) = 1 /\ <<p>>[1] = p
        /\ p[2][1] = Serializer(c.value, c.options)
        /\ p[2][2] = Compression(RowsOf(c), c.options)
    BY DEF PayloadCell, Cell
  <2> HIDE DEF p
  <2> QED
    BY <1>1, <1>2, <1>8, <2>1, <2>2 DEF Unpackable
<1> QED
  BY <1>1, <1>2, <1>6, <1>7, <1>8, <1>9, <1>10 DEF f, b

\* The server's change of the number gives the frame that would have been made
\* with it.
LEMMA Renumbered ==
    ASSUME NEW c, Sendable(c), NEW n, NEW k
    PROVE  RewriteSeq(Numbered(c, n), k) = Numbered(c, k)
<1> DEFINE f == Numbered(c, n)
           g == [f EXCEPT !.seq = k]
           b == Body(c, n)
<1>1. f.flags = b.flags /\ (HasCrc(b.flags) <=> c.options.crc) /\ c.options.crc \in BOOLEAN
  BY NumberedCells, FlagsOf DEF Sendable, AllOptions
<1>2. [b EXCEPT !.seq = k] = Body(c, k)
  <2>1. ASSUME NEW kind, NEW type, NEW len, NEW flags, NEW records, NEW cells
        PROVE  [[version |-> 3, msgType |-> kind, type |-> type, topicLen |-> len, flags |-> flags,
                 seq |-> n, records |-> records, cells |-> cells] EXCEPT !.seq = k]
                = [version |-> 3, msgType |-> kind, type |-> type, topicLen |-> len,
                   flags |-> flags, seq |-> k, records |-> records, cells |-> cells]
    OBVIOUS
  <2> DEFINE kind == c.options.msgType
             type == Type(c.value, c.options)
             len == Len(c.topic)
             flags == EncodeFlags(Serializer(c.value, c.options),
                                  Compression(RowsOf(c), c.options), c.options.crc,
                                  c.options.token # NoAck)
             records == RecordCount(RowsOf(c))
             cells == TokenCells(c) \o TopicCells(c) \o <<PayloadCell(c)>>
  <2>2. /\ b = [version |-> 3, msgType |-> kind, type |-> type, topicLen |-> len,
                flags |-> flags, seq |-> n, records |-> records, cells |-> cells]
        /\ Body(c, k) = [version |-> 3, msgType |-> kind, type |-> type, topicLen |-> len,
                         flags |-> flags, seq |-> k, records |-> records, cells |-> cells]
    BY DEF Body
  <2> HIDE DEF b, kind, type, len, flags, records, cells
  <2> QED
    BY <2>1, <2>2
<1>3. CASE ~c.options.crc
  <2>1. f = b
    BY <1>3 DEF Numbered
  <2>2. RewriteSeq(f, k) = g
    BY <1>1, <1>3 DEF RewriteSeq
  <2>3. Numbered(c, k) = Body(c, k)
    BY <1>3 DEF Numbered
  <2> HIDE DEF b
  <2> QED
    BY <1>2, <2>1, <2>2, <2>3
<1>4. CASE c.options.crc
  <2>1. RewriteSeq(f, k) = WithCrc([g EXCEPT !.cells = Front(@)])
    BY <1>1, <1>4 DEF RewriteSeq
  <2>2. Numbered(c, k) = WithCrc(Body(c, k))
    BY <1>4 DEF Numbered
  <2>3. [f EXCEPT !.cells = Front(@)] = b
    BY <1>4, NumberedCells
  <2>4. f = [b EXCEPT !.cells = Append(@, Crc(b))]
    BY <1>4 DEF Numbered, WithCrc
  <2>5. Front(f.cells) = b.cells
    <3>1. DOMAIN f = DOMAIN b /\ "cells" \in DOMAIN b
      BY <2>4 DEF Body
    <3> HIDE DEF f, b
    <3> QED
      BY <2>3, <3>1
  <2>6. [g EXCEPT !.cells = Front(@)] = [b EXCEPT !.seq = k]
    <3> DEFINE front == Front(f.cells)
               more == Append(b.cells, Crc(b))
    <3>1. g = [[b EXCEPT !.cells = more] EXCEPT !.seq = k]
      BY <2>4
    <3>2. g.cells = f.cells
      BY <2>4 DEF Body
    <3> HIDE DEF f, front, more
    <3>3. [g EXCEPT !.cells = Front(@)] = [g EXCEPT !.cells = b.cells]
      BY <2>5, <3>2
    <3> QED
      BY <3>1, <3>3 DEF Body
  <2> QED
    BY <1>2, <2>1, <2>2, <2>6
<1> QED
  BY <1>1, <1>3, <1>4

-----------------------------------------------------------------------------
(* Values *)

LEMMA AllowedExist ==
    \A type : SerializerRules(type).allowed \subseteq Serializers
<1>1. Serializers = {"msgpack", "bytes", "pyarrow", "str", "json"}
  BY DEF Serializers, SerializerCode
<1> QED
  BY <1>1 DEF SerializerRules, Rule

\* A value with some of its fields changed, one after the other.
LEMMA ValueChanges ==
    ASSUME NEW k, NEW n, NEW b, NEW t, NEW kind, NEW columns, NEW traits
    PROVE  LET v == [kind |-> k, size |-> n, columns |-> b, traits |-> t]
           IN /\ [v EXCEPT !.kind = kind]
                      = [kind |-> kind, size |-> n, columns |-> b, traits |-> t]
              /\ [v EXCEPT !.columns = columns]
                      = [kind |-> k, size |-> n, columns |-> columns, traits |-> t]
              /\ [v EXCEPT !.traits = traits]
                      = [kind |-> k, size |-> n, columns |-> b, traits |-> traits]
OBVIOUS

LEMMA ManyChanges ==
    ASSUME NEW k, NEW n, NEW b, NEW t, NEW kind, NEW columns, NEW traits
    PROVE  LET v == [kind |-> k, size |-> n, columns |-> b, traits |-> t]
           IN /\ [v EXCEPT !.kind = kind, !.columns = columns]
                      = [kind |-> kind, size |-> n, columns |-> columns, traits |-> t]
              /\ [v EXCEPT !.kind = kind, !.columns = columns, !.traits = traits]
                      = [kind |-> kind, size |-> n, columns |-> columns, traits |-> traits]
<1> DEFINE v == [kind |-> k, size |-> n, columns |-> b, traits |-> t]
           w == [v EXCEPT !.kind = kind]
           x == [w EXCEPT !.columns = columns]
<1>1. w = [kind |-> kind, size |-> n, columns |-> b, traits |-> t]
  OBVIOUS
<1>2. x = [kind |-> kind, size |-> n, columns |-> columns, traits |-> t]
  <2> HIDE DEF w
  <2> QED
    BY <1>1, ValueChanges
<1>3. [v EXCEPT !.kind = kind, !.columns = columns] = x
  OBVIOUS
<1>4. [v EXCEPT !.kind = kind, !.columns = columns, !.traits = traits]
          = [x EXCEPT !.traits = traits]
  OBVIOUS
<1>5. [x EXCEPT !.traits = traits]
          = [kind |-> kind, size |-> n, columns |-> columns, traits |-> traits]
  <2> HIDE DEF x
  <2> QED
    BY <1>2, ValueChanges
<1> QED
  BY <1>2, <1>3, <1>4, <1>5

\* What is neither a data frame nor a table: only what its serializer alters goes.
LEMMA PlainBack ==
    ASSUME NEW k \in {"dict", "str", "bytes"}, NEW n, NEW t, NEW ser \in Serializers,
           k = "str" \/ ser # "str", ser # "pyarrow", NEW type,
           type = InferredType(Value(k, n, t))
    PROVE  /\ Restored(Deserialized(ser, Value(k, n, t)), type, ser) = Value(k, n, t \ Altered[ser])
           /\ Deserializable(ser, Value(k, n, t))
<1> DEFINE v == Value(k, n, t)
           kept == t \ Altered[ser]
           w == Deserialized(ser, v)
           table == k = "DataFrame"
<1>1. /\ v = [kind |-> k, size |-> n, columns |-> table, traits |-> t]
      /\ Value(k, n, kept) = [kind |-> k, size |-> n, columns |-> table, traits |-> kept]
  <2> HIDE DEF kept
  <2> QED
    BY DEF Value
<1>2. v.kind = k /\ v.traits = t
  BY <1>1
<1>3. w = Value(k, n, kept)
  <2>1. CASE ser = "str"
    <3>1. w = [v EXCEPT !.kind = "str", !.traits = kept]
      BY <1>2, <2>1 DEF Deserialized
    <3> HIDE DEF kept, v, w, table
    <3>2. k = "str"
      BY <2>1
    <3>3. [v EXCEPT !.kind = k] = v
      BY <1>1
    <3>4. [v EXCEPT !.kind = k, !.traits = kept] = [[v EXCEPT !.kind = k] EXCEPT !.traits = kept]
      OBVIOUS
    <3>5. [v EXCEPT !.traits = kept]
              = [kind |-> k, size |-> n, columns |-> table, traits |-> kept]
      BY <1>1, ValueChanges
    <3> QED
      BY <1>1, <3>1, <3>2, <3>3, <3>4, <3>5
  <2>2. CASE ser # "str"
    <3>1. w = [v EXCEPT !.traits = kept]
      BY <1>2, <2>2 DEF Deserialized
    <3> HIDE DEF kept, v, w, table
    <3>2. [v EXCEPT !.traits = kept]
              = [kind |-> k, size |-> n, columns |-> table, traits |-> kept]
      BY <1>1, ValueChanges
    <3> QED
      BY <1>1, <3>1, <3>2
  <2> QED
    BY <2>1, <2>2
<1>4. w.kind = k
  <2> HIDE DEF kept, w, table
  <2> QED
    BY <1>1, <1>3
<1>5. /\ k = "dict" => type = "DICT"
      /\ k = "str" => type = "STR"
      /\ k = "bytes" => type = "BYTES"
  BY <1>2 DEF InferredType
<1>6. Restored(w, type, ser) = w
  <2> HIDE DEF w
  <2> QED
    BY <1>4, <1>5 DEF Restored
<1>7. Deserializable(ser, v)
  BY <1>2 DEF Deserializable
<1> QED
  BY <1>3, <1>6, <1>7

\* A data frame, as a table and as rows.
LEMMA TableBack ==
    ASSUME NEW n, NEW t
    PROVE  /\ Restored(Deserialized("pyarrow", Value("DataFrame", n, t)), "DATAFRAME", "pyarrow")
                  = Value("DataFrame", n, (t \ Altered["pyarrow"]) \ {Index})
           /\ Deserializable("pyarrow", Value("DataFrame", n, t))
<1> DEFINE v == Value("DataFrame", n, t)
           kept == (t \ Altered["pyarrow"]) \ {Index}
           w == Deserialized("pyarrow", v)
<1>1. /\ v = [kind |-> "DataFrame", size |-> n, columns |-> TRUE, traits |-> t]
      /\ Value("DataFrame", n, kept)
             = [kind |-> "DataFrame", size |-> n, columns |-> TRUE, traits |-> kept]
  <2> HIDE DEF kept
  <2> QED
    BY DEF Value
<1>2. v.traits = t
  BY <1>1
<1>3. w = [v EXCEPT !.kind = "Table", !.columns = TRUE, !.traits = kept]
  BY <1>2 DEF Deserialized
<1> HIDE DEF kept, v, w
<1>4. w = [kind |-> "Table", size |-> n, columns |-> TRUE, traits |-> kept] /\ w.kind = "Table"
  <2>1. w = [kind |-> "Table", size |-> n, columns |-> TRUE, traits |-> kept]
    BY <1>1, <1>3, ManyChanges
  <2> QED
    BY <2>1
<1>5. Restored(w, "DATAFRAME", "pyarrow") = [w EXCEPT !.kind = "DataFrame"]
  BY <1>4 DEF Restored
<1>6. Restored(w, "DATAFRAME", "pyarrow") = Value("DataFrame", n, kept)
  BY <1>1, <1>4, <1>5, ValueChanges
<1>7. Deserializable("pyarrow", v)
  BY DEF Deserializable
<1> QED
  BY <1>6, <1>7 DEF v, w, kept

LEMMA RowsBack ==
    ASSUME NEW n \in Nat, NEW t, NEW ser \in {"msgpack", "json"}
    PROVE  LET rows == AsRows(Value("DataFrame", n, t), ser)
           IN /\ Restored(Deserialized(ser, rows), "DATAFRAME", ser)
                     = [kind |-> "DataFrame", size |-> n, columns |-> n > 0,
                        traits |-> (t \ {Index, ColumnTypes}) \ Altered[ser]]
              /\ Deserializable(ser, rows)
<1> DEFINE v == Value("DataFrame", n, t)
           few == t \ {Index, ColumnTypes}
           kept == few \ Altered[ser]
           rows == AsRows(v, ser)
           w == Deserialized(ser, rows)
           named == n > 0
<1>1. v.kind = "DataFrame" /\ v.size = n /\ v.traits = t
  BY DEF Value
<1>2. rows = Value("list", n, few)
  BY <1>1 DEF AsRows
<1> HIDE DEF few
<1>3. rows = [kind |-> "list", size |-> n, columns |-> FALSE, traits |-> few]
  BY <1>2 DEF Value
<1> HIDE DEF rows
<1>4. rows.traits = few /\ rows.kind = "list"
  BY <1>3
<1>5. w = [rows EXCEPT !.traits = kept]
  BY <1>4 DEF Deserialized
<1> HIDE DEF kept, w
<1>6. w = [kind |-> "list", size |-> n, columns |-> FALSE, traits |-> kept]
  BY <1>3, <1>5, ValueChanges
<1>7. w.kind = "list" /\ w.size = n
  BY <1>6
<1>8. Restored(w, "DATAFRAME", ser) = [w EXCEPT !.kind = "DataFrame", !.columns = w.size > 0]
  BY <1>7 DEF Restored
<1>9. Restored(w, "DATAFRAME", ser) = [w EXCEPT !.kind = "DataFrame", !.columns = named]
  BY <1>7, <1>8
<1> HIDE DEF named
<1>10. Restored(w, "DATAFRAME", ser)
          = [kind |-> "DataFrame", size |-> n, columns |-> named, traits |-> kept]
  BY <1>6, <1>9, ManyChanges
<1>11. Deserializable(ser, rows)
  BY <1>4 DEF Deserializable
<1> QED
  BY <1>10, <1>11 DEF w, rows, kept, few, named

\* A value of one of the four types, sent as what it is, comes back as one of that
\* type, and as it was if it holds nothing that is lost.
LEMMA ValueBack ==
    ASSUME NEW c, Sendable(c), c.options.type \in {Default, InferredType(c.value)},
           c.value.kind # "list",
           Serializer(c.value, c.options)
              \in SerializerRules(Type(c.value, c.options)).allowed
    PROVE  LET ser == Serializer(c.value, c.options)
               back == Restored(Deserialized(ser, RowsOf(c)), Type(c.value, c.options), ser)
           IN /\ Deserializable(ser, RowsOf(c)) /\ back.kind = c.value.kind
              /\ c.value.traits \cap Lost(c.value, ser) = {} => back = Preserved(c.value, ser)
<1> DEFINE v == c.value
           ser == Serializer(v, c.options)
           type == Type(v, c.options)
           back == Restored(Deserialized(ser, RowsOf(c)), type, ser)
<1>1. type = InferredType(v)
  BY DEF Type
<1> HIDE DEF v, ser, type, back
<1>2. PICK k \in Kind, n \in Nat, t \in SUBSET STRING : v = Value(k, n, t)
  <2>1. v \in AllValues
    BY DEF Sendable, v
  <2> QED
    BY <2>1 DEF AllValues
<1>3. /\ v = [kind |-> k, size |-> n, columns |-> k = "DataFrame", traits |-> t]
      /\ v.kind = k /\ v.size = n /\ v.traits = t
  BY <1>2 DEF Value
<1>4. RowsOf(c) = IF type = "DATAFRAME" THEN AsRows(v, ser) ELSE v
  BY DEF RowsOf, v, ser, type
<1>5. ser \in SerializerRules(type).allowed
  BY DEF v, ser, type
<1> USE DEF back
<1>6. CASE k # "DataFrame"
  <2>1. k \in {"dict", "str", "bytes"}
    BY <1>3, <1>6 DEF Kind, v
  <2>2. /\ type # "DATAFRAME" /\ ser \in Serializers /\ ser # "pyarrow"
        /\ k = "str" \/ ser # "str"
    <3>1. \/ k = "dict" /\ type = "DICT"
          \/ k = "str" /\ type = "STR"
          \/ k = "bytes" /\ type = "BYTES"
      BY <1>1, <1>3, <2>1 DEF InferredType
    <3> QED
      BY <1>5, <2>1, <3>1, AllowedExist DEF SerializerRules, Rule
  <2>3. /\ back = Value(k, n, t \ Altered[ser]) /\ Deserializable(ser, RowsOf(c))
    <3>1. RowsOf(c) = v
      BY <1>4, <2>2
    <3> QED
      BY <1>1, <1>2, <2>1, <2>2, <3>1, PlainBack
  <2>4. back.kind = k
    <3> DEFINE kept == t \ Altered[ser]
    <3> HIDE DEF kept
    <3>1. back = Value(k, n, kept)
      BY <2>3 DEF kept
    <3> HIDE DEF back
    <3> QED
      BY <3>1 DEF Value
  <2>5. ASSUME v.traits \cap Lost(v, ser) = {} PROVE back = Preserved(v, ser)
    <3>1. t \ Altered[ser] = t
      BY <1>3, <1>6, <2>5 DEF Lost
    <3> QED
      BY <1>2, <1>3, <1>6, <2>3, <3>1 DEF Preserved
  <2> QED
    BY <1>3, <2>3, <2>4, <2>5 DEF v, ser, type
<1>7. CASE k = "DataFrame" /\ ser = "pyarrow"
  <2>1. type = "DATAFRAME"
    BY <1>1, <1>3, <1>7 DEF InferredType
  <2>2. RowsOf(c) = v
    BY <1>4, <1>7, <2>1 DEF AsRows
  <2> DEFINE kept == (t \ Altered[ser]) \ {Index}
  <2>3. back = Value("DataFrame", n, kept) /\ Deserializable(ser, RowsOf(c))
    BY <1>2, <1>7, <2>1, <2>2, TableBack
  <2>4. back.kind = k
    <3> HIDE DEF kept, back
    <3> QED
      BY <1>7, <2>3 DEF Value
  <2>5. ASSUME v.traits \cap Lost(v, ser) = {} PROVE back = Preserved(v, ser)
    <3>1. kept = t
      BY <1>3, <1>7, <2>5 DEF Lost
    <3> HIDE DEF kept, back
    <3> QED
      BY <1>2, <1>7, <2>3, <3>1 DEF Preserved
  <2> QED
    BY <1>3, <2>3, <2>4, <2>5 DEF v, ser, type
<1>8. CASE k = "DataFrame" /\ ser # "pyarrow"
  <2>1. type = "DATAFRAME"
    BY <1>1, <1>3, <1>8 DEF InferredType
  <2>2. ser \in {"msgpack", "json"}
    BY <1>5, <1>8, <2>1 DEF SerializerRules, Rule
  <2>3. RowsOf(c) = AsRows(Value("DataFrame", n, t), ser)
    BY <1>2, <1>4, <1>8, <2>1
  <2> DEFINE kept == (t \ {Index, ColumnTypes}) \ Altered[ser]
             named == n > 0
  <2>4. /\ back = [kind |-> "DataFrame", size |-> n, columns |-> named, traits |-> kept]
        /\ Deserializable(ser, RowsOf(c))
    BY <2>1, <2>2, <2>3, RowsBack
  <2> HIDE DEF back
  <2>5. back.kind = k
    <3> HIDE DEF kept, named
    <3> QED
      BY <1>8, <2>4
  <2>6. ASSUME v.traits \cap Lost(v, ser) = {} PROVE back = Preserved(v, ser)
    <3>1. kept = t
      BY <1>3, <1>8, <2>6 DEF Lost
    <3> HIDE DEF kept
    <3>2. CASE n = 0
      <4>1. Preserved(v, ser) = [v EXCEPT !.columns = FALSE]
        BY <1>3, <1>8, <3>2 DEF Preserved
      <4>2. Preserved(v, ser) = [kind |-> k, size |-> n, columns |-> FALSE, traits |-> t]
        BY <1>3, <4>1, ValueChanges
      <4>3. named = FALSE
        BY <3>2
      <4> HIDE DEF named
      <4> QED
        BY <1>8, <2>4, <3>1, <4>2, <4>3
    <3>3. CASE n # 0
      <4>1. named = TRUE /\ (k = "DataFrame") = TRUE
        BY <1>8, <3>3
      <4>2. Preserved(v, ser) = v
        BY <1>3, <3>3 DEF Preserved
      <4> HIDE DEF named
      <4> QED
        BY <1>3, <1>8, <2>4, <3>1, <4>1, <4>2
    <3> QED
      BY <3>2, <3>3
  <2> QED
    BY <1>3, <2>4, <2>5, <2>6 DEF v, ser, type, back
<1> QED
  BY <1>6, <1>7, <1>8

-----------------------------------------------------------------------------
(* The invariant: where a frame is, whose it is, and what was read of it *)

IsData(c) == c.topic \in TopicNames /\ c.value \in Values /\ c.options \in Options

Accepted(c) == IsData(c) /\ Encodable(c.topic, c.value, c.options, c.packed)

IsControl(c) ==
    /\ c.topic \in TopicNames /\ c.options = ControlOptions
    /\ \E n \in Sizes : c.value = Value("dict", n, {})

WireInv ==
    /\ place \in {"idle", "refused", "server", "consumer", "worker", "done", "answered", "lost"}
    /\ place = "idle" => seq = 0
    /\ place = "refused" =>
          IsData(call) /\ ~Encodable(call.topic, call.value, call.options, call.packed)
    /\ place = "lost" => ~Labelled
    /\ place = "server" =>
          Accepted(call) /\ seq = 0 /\ frame = Numbered(call, 0)
    /\ place = "consumer" =>
          /\ Accepted(call) \/ IsControl(call)
          /\ frame = Numbered(call, seq)
          /\ seq # 0 => Accepted(call) /\ read = DecodeHeader(Numbered(call, 0))
    /\ place = "worker" =>
          Accepted(call) /\ frame = Numbered(call, seq) /\ read = PeekTopicSeq(frame)
    /\ place = "done" =>
          /\ Accepted(call) /\ frame = Numbered(call, seq)
          /\ read = [header |-> DecodeHeader(frame), message |-> Decode(frame)]
    /\ place = "answered" =>
          IsControl(call) /\ frame = Numbered(call, seq) /\ read = DecodeControl(frame)

LEMMA ValuesAre == Values \subseteq AllValues
<1>1. ASSUME NEW k \in Kind, NEW n \in Sizes, NEW t \in Contents[k]
      PROVE  Value(k, n, IF n = 0 THEN {} ELSE t) \in AllValues
  <2>1. n \in Nat /\ t \in SUBSET STRING
    BY <1>1, WireAssumption
  <2>2. PICK u \in SUBSET STRING : u = IF n = 0 THEN {} ELSE t
    BY <2>1
  <2> QED
    BY <2>1, <2>2 DEF AllValues
<1> QED
  BY <1>1 DEF Values

LEMMA AcceptedIsSendable ==
    ASSUME NEW c, Accepted(c)
    PROVE  Sendable(c) /\ c.options.msgType = "DATA"
<1>1. c.options \in AllOptions /\ c.options.msgType = "DATA"
  <2>1. {NoAck, 0, TokenLimit - 1} \subseteq Int
    BY WireAssumption DEF NoAck
  <2>2. c.options \in [ser : Serializers \cup {Default},
                       comp : DOMAIN CompressionCode \cup {"auto"},
                       type : DataTypes \cup {Default}, crc : BOOLEAN,
                       token : {NoAck, 0, TokenLimit - 1}, msgType : {"DATA"}]
    BY DEF Accepted, IsData, Options
  <2> QED
    BY <2>1, <2>2 DEF AllOptions
<1>2. c.topic \in Seq(STRING)
  BY WireAssumption DEF Accepted, IsData
<1>3. Serializer(c.value, c.options) \in Serializers
  BY AllowedExist DEF Accepted, Encodable
<1> QED
  BY <1>1, <1>2, <1>3, ValuesAre DEF Sendable, Accepted, IsData

LEMMA ControlIsSendable ==
    ASSUME NEW c, IsControl(c)
    PROVE  Sendable(c) /\ c.options.msgType = "CONTROL"
<1>1. c.options = ControlOptions
  BY DEF IsControl
<1>2. ControlOptions \in AllOptions /\ ControlOptions.msgType = "CONTROL"
  BY DEF ControlOptions, AllOptions, Serializers, SerializerCode, CompressionCode, DataTypes, NoAck
<1>3. Serializer(c.value, c.options) = "msgpack"
  BY <1>1 DEF Serializer, ControlOptions, Default
<1>4. "msgpack" \in Serializers
  BY DEF Serializers, SerializerCode
<1>5. c.topic \in Seq(STRING)
  BY WireAssumption DEF IsControl
<1>6. c.value \in AllValues
  <2>1. PICK n \in Sizes : c.value = Value("dict", n, {})
    BY DEF IsControl
  <2>2. n \in Nat /\ {} \in SUBSET STRING /\ "dict" \in Kind
    BY WireAssumption DEF Kind
  <2>3. Value("dict", n, {}) \in AllValues
    BY <2>2 DEF AllValues
  <2> QED
    BY <2>1, <2>3
<1> QED
  BY <1>1, <1>2, <1>3, <1>4, <1>5, <1>6 DEF Sendable

-----------------------------------------------------------------------------
(* What is read of a frame is what was to be sent *)

LEMMA DoneIsDelivered ==
    ASSUME NEW c, Accepted(c), NEW n
    PROVE  LET f == Numbered(c, n)
               header == DecodeHeader(f)
               message == Decode(f)
           IN /\ header = [topic |-> c.topic, records |-> RecordCount(c.value), msgType |-> "DATA",
                           seq |-> n, token |-> c.options.token, payload |-> PayloadOf(f)]
              /\ Len(PayloadOf(f)) = 1
              /\ message.topic = c.topic /\ message.seq = n
              /\ c.options.type \in {Default, InferredType(c.value)} => Decodable(f)
              /\ c.options.type \in {Default, InferredType(c.value)} /\ c.value.kind # "list" =>
                    /\ message.value.kind = c.value.kind
                    /\ c.value.traits \cap Lost(c.value, Serializer(c.value, c.options)) = {} =>
                          message.value = Preserved(c.value, Serializer(c.value, c.options))
                    /\ (KeyExtractable(f) <=> c.value.kind \in {"dict", "str"})
<1> DEFINE f == Numbered(c, n)
           ser == Serializer(c.value, c.options)
           type == Type(c.value, c.options)
           p == PayloadCell(c)
<1>1. Sendable(c) /\ c.options.msgType = "DATA" /\ ser \in SerializerRules(type).allowed
  BY AcceptedIsSendable DEF Accepted, Encodable
<1>2. /\ f.records = RecordCount(c.value) /\ f.msgType = "DATA" /\ f.seq = n /\ f.type = type
      /\ TopicOf(f) = c.topic /\ PayloadOf(f) = <<p>> /\ DecodeHeader(f).token = c.options.token
      /\ DecodeFlags(f.flags).ser = ser /\ Unpackable(f)
  BY <1>1, NumberedCells, ReadBack
<1>3. p[2][3] = RowsOf(c)
  BY DEF PayloadCell, Cell
<1> HIDE DEF f, p
<1>4. DecodeHeader(f) = [topic |-> c.topic, records |-> RecordCount(c.value), msgType |-> "DATA",
                         seq |-> n, token |-> c.options.token, payload |-> PayloadOf(f)]
  <2>1. DecodeHeader(f) = [topic |-> TopicOf(f), records |-> f.records, msgType |-> f.msgType,
                           seq |-> f.seq, token |-> DecodeHeader(f).token, payload |-> PayloadOf(f)]
    BY DEF DecodeHeader
  <2> QED
    BY <1>2, <2>1
<1>5. Len(PayloadOf(f)) = 1 /\ PayloadOf(f)[1] = p
  BY <1>2
<1>6. /\ Decode(f).topic = c.topic /\ Decode(f).seq = n
      /\ Decode(f).value = Restored(Deserialized(ser, RowsOf(c)), type, ser)
  BY <1>2, <1>3, <1>5 DEF Decode
<1>7. Decodable(f) <=> Deserializable(ser, RowsOf(c))
  BY <1>2, <1>3, <1>5 DEF Decodable
<1>8. ASSUME c.options.type \in {Default, InferredType(c.value)}, c.value.kind # "list"
      PROVE  /\ Decodable(f) /\ Decode(f).value.kind = c.value.kind
             /\ c.value.traits \cap Lost(c.value, ser) = {} =>
                   Decode(f).value = Preserved(c.value, ser)
             /\ (KeyExtractable(f) <=> c.value.kind \in {"dict", "str"})
  <2>1. /\ Deserializable(ser, RowsOf(c)) /\ Decode(f).value.kind = c.value.kind
        /\ c.value.traits \cap Lost(c.value, ser) = {} => Decode(f).value = Preserved(c.value, ser)
    BY <1>1, <1>6, <1>8, ValueBack
  <2> QED
    BY <1>7, <2>1 DEF KeyExtractable
<1>9. ASSUME c.options.type \in {Default, InferredType(c.value)}, c.value.kind = "list"
      PROVE  Decodable(f)
  <2>1. type = "UNKNOWN"
    BY <1>9 DEF Type, InferredType
  <2>2. RowsOf(c) = c.value
    BY <2>1 DEF RowsOf
  <2> QED
    BY <1>7, <1>9, <2>2 DEF Deserializable
<1> QED
  BY <1>4, <1>5, <1>6, <1>8, <1>9 DEF f

\* encode() refuses a value of the four types in its default form only for its
\* topic, its size or what it holds.
LEMMA DefaultsAccepted ==
    ASSUME NEW c, IsData(c), c.value.kind # "list", c.options.ser = Default,
           c.options.type \in {Default, InferredType(c.value)},
           Len(c.topic) <= MaxTopicLen, RecordCount(c.value) <= MaxRecords,
           FrameFits(c.topic, c.options, c.packed),
           c.value.traits \cap Refused[Serializer(c.value, c.options)] = {}
    PROVE  Encodable(c.topic, c.value, c.options, c.packed)
<1> DEFINE v == c.value
           o == c.options
           type == Type(v, o)
           ser == Serializer(v, o)
<1>1. PICK k \in Kind, n \in Nat, t \in SUBSET STRING : v = Value(k, n, t)
  <2> HIDE DEF v
  <2>1. v \in AllValues
    BY ValuesAre DEF IsData, v
  <2> QED
    BY <2>1 DEF AllValues
<1>2. v.kind = k /\ v.size = n /\ k \in {"dict", "DataFrame", "str", "bytes"}
  BY <1>1 DEF Value, Kind
<1>3. type = InferredType(v) /\ ser = SerializerRules(type).default
  BY DEF Type, Serializer
<1>4. type # "UNKNOWN"
  BY <1>2, <1>3 DEF InferredType
<1>5. /\ ser \in SerializerRules(type).allowed
      /\ Serializable(ser, IF type = "DATAFRAME" THEN AsRows(v, ser) ELSE v)
  <2>0. v.traits \cap Refused[ser] = {}
    OBVIOUS
  <2> HIDE DEF v, type, ser
  <2>1. CASE k = "dict"
    <3>1. type = "DICT" /\ ser = "msgpack" /\ ser \in SerializerRules(type).allowed
      BY <1>2, <1>3, <2>1 DEF InferredType, SerializerRules, Rule
    <3> QED
      BY <1>2, <2>0, <2>1, <3>1 DEF Serializable, Takes
  <2>2. CASE k = "str"
    <3>1. type = "STR" /\ ser = "str" /\ ser \in SerializerRules(type).allowed
      BY <1>2, <1>3, <2>2 DEF InferredType, SerializerRules, Rule
    <3> QED
      BY <1>2, <2>0, <2>2, <3>1 DEF Serializable, Takes
  <2>3. CASE k = "bytes"
    <3>1. type = "BYTES" /\ ser = "bytes" /\ ser \in SerializerRules(type).allowed
      BY <1>2, <1>3, <2>3 DEF InferredType, SerializerRules, Rule
    <3> QED
      BY <1>2, <2>0, <2>3, <3>1 DEF Serializable, Takes
  <2>4. CASE k = "DataFrame"
    <3>1. type = "DATAFRAME" /\ ser = "pyarrow" /\ ser \in SerializerRules(type).allowed
      BY <1>2, <1>3, <2>4 DEF InferredType, SerializerRules, Rule
    <3>2. AsRows(v, ser) = v
      BY <3>1 DEF AsRows
    <3> QED
      BY <1>2, <2>0, <2>4, <3>1, <3>2 DEF Serializable, Takes
  <2> QED
    BY <1>2, <2>1, <2>2, <2>3, <2>4
<1>6. o.token \in {NoAck} \cup 0 .. TokenLimit - 1
  BY WireAssumption DEF IsData, Options
<1> QED
  BY <1>4, <1>5, <1>6 DEF Encodable

LEMMA AnswerIsDelivered ==
    ASSUME NEW c, IsControl(c), NEW n
    PROVE  /\ Decodable(Numbered(c, n))
           /\ DecodeControl(Numbered(c, n)) = [cmd |-> c.topic, payload |-> c.value]
<1> DEFINE f == Numbered(c, n)
           p == PayloadCell(c)
<1>1. Sendable(c)
  BY ControlIsSendable
<1>2. PICK k \in Sizes : c.value = Value("dict", k, {})
  BY DEF IsControl
<1>3. /\ c.value = [kind |-> "dict", size |-> k, columns |-> FALSE, traits |-> {}]
      /\ c.value.kind = "dict" /\ c.value.traits = {}
  <2>1. Value("dict", k, {}) = [kind |-> "dict", size |-> k, columns |-> FALSE, traits |-> {}]
    BY DEF Value
  <2> QED
    BY <1>2, <2>1
<1>4. /\ Type(c.value, c.options) = "UNKNOWN" /\ Serializer(c.value, c.options) = "msgpack"
  BY DEF IsControl, ControlOptions, Type, Serializer, Default
<1>5. RowsOf(c) = c.value
  BY <1>4 DEF RowsOf
<1>6. /\ f.type = "UNKNOWN" /\ TopicOf(f) = c.topic /\ PayloadOf(f) = <<p>>
      /\ DecodeFlags(f.flags).ser = "msgpack" /\ Unpackable(f)
  BY <1>1, <1>4, NumberedCells, ReadBack
<1>7. p[2][3] = c.value
  BY <1>5 DEF PayloadCell, Cell
<1> HIDE DEF f, p
<1>8. PayloadOf(f)[1] = p
  BY <1>6
<1>9. Decode(f).value = Restored(Deserialized("msgpack", c.value), "UNKNOWN", "msgpack")
  BY <1>6, <1>7, <1>8 DEF Decode
<1>10. Deserialized("msgpack", c.value) = c.value
  <2>1. c.value.traits \ Altered["msgpack"] = {}
    BY <1>3
  <2>2. Deserialized("msgpack", c.value) = [c.value EXCEPT !.traits = {}]
    BY <2>1 DEF Deserialized
  <2>3. [c.value EXCEPT !.traits = {}] = c.value
    BY <1>3
  <2> QED
    BY <2>2, <2>3
<1>11. Decode(f).value = c.value
  BY <1>9, <1>10 DEF Restored
<1>12. Decodable(f)
  BY <1>3, <1>6, <1>7, <1>8 DEF Decodable, Deserializable
<1> QED
  BY <1>3, <1>6, <1>11, <1>12 DEF DecodeControl, f

-----------------------------------------------------------------------------
(* Every step keeps the invariant *)

LEMMA SendsKeeps ==
    ASSUME WireInv, place = "idle", NEW topic \in TopicNames, NEW v \in Values, NEW o \in Options,
           NEW packed, NEW next \in {"server", "consumer"}, Sends(topic, v, o, packed, next)
    PROVE  WireInv'
<1> DEFINE c == [topic |-> topic, value |-> v, options |-> o, packed |-> packed]
<1>1. c.topic = topic /\ c.value = v /\ c.options = o /\ c.packed = packed /\ IsData(c)
  BY DEF IsData
<1>2. call' = c /\ seq' = 0
  BY DEF Sends, WireInv
<1> HIDE DEF c
<1>3. CASE Encodable(topic, v, o, packed)
  <2>1. place' = next /\ frame' = Encode(topic, v, o)
    BY <1>3 DEF Sends
  <2>2. Accepted(c) /\ frame' = Numbered(c, 0)
    BY <1>1, <1>3, <2>1, EncodeIs DEF Accepted
  <2> QED
    BY <1>2, <2>1, <2>2 DEF WireInv
<1>4. CASE ~Encodable(topic, v, o, packed)
  <2>1. place' = "refused"
    BY <1>4 DEF Sends
  <2> QED
    BY <1>1, <1>2, <1>4, <2>1 DEF WireInv
<1> QED
  BY <1>3, <1>4

LEMMA CommandKeeps ==
    ASSUME WireInv, place = "idle", NEW cmd \in TopicNames, NEW n \in Sizes, NEW packed,
           Command(cmd, n, packed)
    PROVE  WireInv'
<1> DEFINE c == [topic |-> cmd, value |-> Value("dict", n, {}), options |-> ControlOptions,
                 packed |-> packed]
<1>1. /\ c.topic = cmd /\ c.value = Value("dict", n, {}) /\ c.options = ControlOptions
      /\ IsControl(c)
  BY DEF IsControl
<1>2. /\ call' = c /\ seq' = 0 /\ place' = "consumer"
      /\ frame' = Encode(cmd, Value("dict", n, {}), ControlOptions)
  BY DEF Command, EncodeControl, WireInv
<1> HIDE DEF c
<1>3. frame' = Numbered(c, 0)
  BY <1>1, <1>2, EncodeIs
<1> QED
  BY <1>1, <1>2, <1>3 DEF WireInv

LEMMA AcceptKeeps ==
    ASSUME WireInv, Accept
    PROVE  WireInv'
<1> DEFINE c == call
<1>1. Accepted(c) /\ frame = Numbered(c, 0)
  BY DEF Accept, WireInv
<1>2. Sendable(c)
  BY <1>1, AcceptedIsSendable
<1>3. HeaderReadable(frame)
  BY <1>1, <1>2, ReadBack
<1>4. place' = "consumer" /\ read' = DecodeHeader(frame) /\ call' = c
  BY <1>3 DEF Accept, Reads
<1>5. PICK n \in Numbers : seq' = n /\ frame' = RewriteSeq(frame, n)
  BY DEF Accept
<1>6. frame' = Numbered(c, n)
  BY <1>1, <1>2, <1>5, Renumbered
<1> QED
  BY <1>1, <1>4, <1>5, <1>6 DEF WireInv

LEMMA ReceiveKeeps ==
    ASSUME WireInv, Receive
    PROVE  WireInv'
<1>1. /\ Accepted(call) \/ IsControl(call)
      /\ frame = Numbered(call, seq) /\ UNCHANGED <<frame, call, seq>>
  BY DEF Receive, WireInv
<1>2. Sendable(call) /\ (Accepted(call) => call.options.msgType = "DATA")
      /\ (IsControl(call) => call.options.msgType = "CONTROL")
  BY <1>1, AcceptedIsSendable, ControlIsSendable
<1>3. HeaderReadable(frame) /\ frame.msgType = call.options.msgType
  BY <1>1, <1>2, ReadBack, NumberedCells
<1>4. CASE Accepted(call)
  <2>1. place' = "worker" /\ read' = PeekTopicSeq(frame)
    BY <1>2, <1>3, <1>4 DEF Receive, Reads
  <2> QED
    BY <1>1, <1>4, <2>1 DEF WireInv
<1>5. CASE IsControl(call)
  <2>1. place' = "answered" /\ read' = DecodeControl(frame)
    BY <1>1, <1>2, <1>3, <1>5, AnswerIsDelivered DEF Receive, Reads
  <2> QED
    BY <1>1, <1>5, <2>1 DEF WireInv
<1> QED
  BY <1>1, <1>4, <1>5

LEMMA WorkKeeps ==
    ASSUME WireInv, Work
    PROVE  WireInv'
<1>1. Accepted(call) /\ frame = Numbered(call, seq) /\ UNCHANGED <<frame, call, seq>>
  BY DEF Work, WireInv
<1>2. CASE Decodable(frame)
  <2>1. /\ place' = "done"
        /\ read' = [header |-> DecodeHeader(frame), message |-> Decode(frame)]
    BY <1>2 DEF Work, Reads
  <2> QED
    BY <1>1, <2>1 DEF WireInv
<1>3. CASE ~Decodable(frame)
  <2>1. place' = "lost"
    BY <1>3 DEF Work, Reads
  <2>2. ~Labelled
    BY <1>1, <1>3, DoneIsDelivered DEF Labelled
  <2>3. ~Labelled'
    BY <1>1, <2>2 DEF Labelled
  <2> QED
    BY <2>1, <2>3 DEF WireInv
<1> QED
  BY <1>2, <1>3

LEMMA WireStep ==
    ASSUME WireInv, [WireNext]_wireVars
    PROVE  WireInv'
<1>1. ASSUME place = "idle", NEW t \in TopicNames, NEW v \in Values, NEW o \in Options,
             NEW packed, PublishFrame(t, v, o, packed) \/ ProduceFrame(t, v, o, packed)
      PROVE  WireInv'
  <2>1. CASE Sends(t, v, o, packed, "server")
    BY <1>1, <2>1, SendsKeeps
  <2>2. CASE Sends(t, v, o, packed, "consumer")
    BY <1>1, <2>2, SendsKeeps
  <2> QED
    BY <1>1, <2>1, <2>2 DEF PublishFrame, ProduceFrame
<1>2. ASSUME place = "idle", NEW t \in TopicNames, NEW n \in Sizes, NEW packed,
             Command(t, n, packed)
      PROVE  WireInv'
  BY <1>2, CommandKeeps
<1>3. CASE Again
  BY <1>3 DEF Again, WireInv
<1>4. CASE UNCHANGED wireVars
  BY <1>4 DEF wireVars, WireInv, Labelled
<1> QED
  BY <1>1, <1>2, <1>3, <1>4, AcceptKeeps, ReceiveKeeps, WorkKeeps DEF WireNext

LEMMA InvDelivers ==
    ASSUME WireInv
    PROVE  Delivered
<1>1. place = "lost" => ~Labelled
  BY DEF WireInv
<1>2. ASSUME place = "refused"
      PROVE  ~(/\ call.value.kind # "list" /\ call.options.ser = Default /\ Labelled /\ Within
               /\ call.value.traits \cap Refused[CallSerializer] = {})
  BY <1>2, DefaultsAccepted DEF WireInv, Labelled, Within, CallSerializer
<1>3. ASSUME place = "consumer", seq # 0
      PROVE  read = [topic |-> call.topic, records |-> RecordCount(call.value), msgType |-> "DATA",
                     seq |-> 0, token |-> call.options.token, payload |-> read.payload]
  <2>1. Accepted(call) /\ read = DecodeHeader(Numbered(call, 0))
    BY <1>3 DEF WireInv
  <2>2. read = [topic |-> call.topic, records |-> RecordCount(call.value), msgType |-> "DATA",
                seq |-> 0, token |-> call.options.token, payload |-> PayloadOf(Numbered(call, 0))]
    BY <2>1, DoneIsDelivered
  <2>3. read.payload = PayloadOf(Numbered(call, 0))
    BY <2>2
  <2> QED
    BY <2>2, <2>3
<1>4. ASSUME place = "worker" PROVE read = <<call.topic, seq, "DATA">>
  <2>1. Accepted(call) /\ read = PeekTopicSeq(Numbered(call, seq))
    BY <1>4 DEF WireInv
  <2>2. Sendable(call) /\ call.options.msgType = "DATA"
    BY <2>1, AcceptedIsSendable
  <2> QED
    BY <2>1, <2>2, ReadBack, NumberedCells DEF PeekTopicSeq
<1>5. ASSUME place = "answered" PROVE read = [cmd |-> call.topic, payload |-> call.value]
  BY <1>5, AnswerIsDelivered DEF WireInv
<1>6. ASSUME place = "done"
      PROVE  /\ read.header.topic = call.topic /\ read.header.seq = seq
             /\ read.header.records = RecordCount(call.value)
             /\ read.message.topic = call.topic /\ read.message.seq = seq
             /\ Len(read.header.payload) = 1
             /\ Labelled /\ call.value.kind # "list" =>
                   /\ read.message.value.kind = call.value.kind
                   /\ call.value.traits \cap Lost(call.value, CallSerializer) = {} =>
                         read.message.value = Preserved(call.value, CallSerializer)
                   /\ KeyExtractable(frame) <=> call.value.kind \in {"dict", "str"}
  <2> DEFINE f == Numbered(call, seq)
             header == DecodeHeader(f)
             message == Decode(f)
  <2>1. /\ Accepted(call) /\ frame = f /\ read = [header |-> header, message |-> message]
    BY <1>6 DEF WireInv
  <2>2. /\ header = [topic |-> call.topic, records |-> RecordCount(call.value), msgType |-> "DATA",
                     seq |-> seq, token |-> call.options.token, payload |-> PayloadOf(f)]
        /\ Len(PayloadOf(f)) = 1
        /\ message.topic = call.topic /\ message.seq = seq
        /\ call.options.type \in {Default, InferredType(call.value)} /\ call.value.kind # "list" =>
              /\ message.value.kind = call.value.kind
              /\ call.value.traits \cap Lost(call.value, CallSerializer) = {} =>
                    message.value = Preserved(call.value, CallSerializer)
              /\ (KeyExtractable(f) <=> call.value.kind \in {"dict", "str"})
    BY <2>1, DoneIsDelivered DEF CallSerializer
  <2> HIDE DEF header, message
  <2>3. /\ header.topic = call.topic /\ header.seq = seq
        /\ header.records = RecordCount(call.value) /\ header.payload = PayloadOf(f)
    BY <2>2
  <2>4. read.header = header /\ read.message = message
    BY <2>1
  <2> HIDE DEF f
  <2> QED
    BY <2>1, <2>2, <2>3, <2>4 DEF Labelled
<1> QED
  BY <1>1, <1>2, <1>3, <1>4, <1>5, <1>6 DEF Delivered

\* Whatever encode() accepts is read as it was sent, by the server, the receiving
\* thread and the worker, for topics, values, tokens and numbers of any size and
\* whatever the libraries refuse and alter: a value of the type that was published,
\* and the same value unless it holds what is lost on the way.  In its default form
\* a value of the four types is refused for its size, or what it holds, only.
THEOREM DeliveredAlways ==
    WireSpec => []Delivered
<1>1. WireInit => WireInv
  BY DEF WireInit, WireInv
<1>2. WireInv /\ [WireNext]_wireVars => WireInv'
  BY WireStep
<1>3. WireInv => Delivered
  BY InvDelivers
<1> QED
  BY <1>1, <1>2, <1>3, PTL DEF WireSpec
=============================================================================
