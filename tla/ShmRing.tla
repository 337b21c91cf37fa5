------------------------------ MODULE ShmRing ------------------------------
(***************************************************************************)
(* ShmRing (worker_pool.py): the ring of variable-length records in shared *)
(* memory between the consumer's receive loop, which writes, and a worker  *)
(* process, which reads.                                                   *)
(*                                                                         *)
(* tail and head count bytes and never decrease; each is stored by one     *)
(* side only, as one aligned word.  The stores of a side become visible in *)
(* the order they are made (x86), so each is a step: pad, header, payload, *)
(* tail for the writer; the reader reads the cursors, then header and      *)
(* payload of each record, and stores head when the batch is complete.     *)
(* A byte is known by the frame it was written for and its position in the *)
(* frame's record, so that a read tells whether it got that record whole.  *)
(***************************************************************************)
EXTENDS Integers, Sequences

CONSTANTS
    Cap,       \* bytes of the data area
    Hdr,       \* bytes of a length (4)
    Lengths,   \* lengths of payloads
    MaxItems,  \* max_items of read_batch()
    MaxFrames  \* bound on the frames written (TLC only)

ASSUME SizesAssumption ==
    /\ Cap \in Nat \ {0} /\ Hdr \in Nat \ {0} /\ MaxItems \in Nat \ {0}
    /\ Lengths \subseteq Nat
    /\ MaxFrames \in Nat

VARIABLES
    mem,        \* the data area
    tail, head, \* the cursors in shared memory
    writer,     \* pc and locals of write()
    reader,     \* pc and locals of read_batch()
    length,     \* history: payload lengths of the frames write() was called with
    accepted,   \* history: frames for which write() returned True
    delivered   \* history: frames that read_batch() returned

vars == <<mem, tail, head, writer, reader, length, accepted, delivered>>

-----------------------------------------------------------------------------
Offsets == 0 .. Cap - 1

Byte(f, i) == [frame |-> f, pos |-> i]

Pad == 0       \* the frame number of a pad marker
Torn == -1     \* a record that is not what was written

Blank == Byte(Pad, Hdr)

\* The bytes of f from the i-th to the j-th, its record beginning at off.
Stored(m, off, f, i, j) ==
    [o \in Offsets |-> IF o - off \in i .. j THEN Byte(f, o - off) ELSE m[o]]

Holds(m, off, f, i, j) ==
    \A k \in i .. j : off + k \in Offsets /\ m[off + k] = Byte(f, k)

Need(f) == Hdr + length[f]

\* Where the byte of a cursor lies, and the bytes from there to the end.
Offset(cursor) == cursor % Cap

Contig(cursor) == Cap - Offset(cursor)

Frame == Len(length)

-----------------------------------------------------------------------------
WriterIdle == [pc |-> "idle", at |-> 0, fits |-> FALSE]
ReaderIdle == [pc |-> "idle", head |-> 0, tail |-> 0, frame |-> 0, out |-> <<>>]

Init ==
    /\ mem = [o \in Offsets |-> Blank]
    /\ tail = 0 /\ head = 0
    /\ writer = WriterIdle
    /\ reader = ReaderIdle
    /\ length = <<>>
    /\ accepted = <<>>
    /\ delivered = <<>>

-----------------------------------------------------------------------------
(* write() *)

Free == Cap - (tail - head)

\* MUTANT: the bytes of the length are forgotten.
RoomForPayload(need, free) == need - Hdr <= free

Room(need, free) == need <= free

\* MUTANT: the bytes lost to the pad are not subtracted.
RoomAnyway(need, free, pad) == need <= free

\* MUTANT: the pad marker is subtracted once more.
RoomBeforePad(need, free, pad) == need <= free - pad - Hdr

RoomAfterPad(need, free, pad) == need <= free - pad

Called(l) ==
    /\ writer.pc = "idle"
    /\ Len(length) < MaxFrames
    /\ l \in Lengths
    /\ length' = Append(length, l)

Refuse(l) ==
    /\ Called(l)
    /\ ~Room(Hdr + l, Free)
    /\ UNCHANGED <<mem, tail, head, writer, reader, accepted, delivered>>

Place(l) ==
    /\ Called(l)
    /\ Room(Hdr + l, Free)
    /\ Contig(tail) >= Hdr + l
    /\ writer' = [WriterIdle EXCEPT !.pc = "header", !.at = tail]
    /\ UNCHANGED <<mem, tail, head, reader, accepted, delivered>>

\* The head read above decides as well whether there is room after the pad.
Wrap(l) ==
    /\ Called(l)
    /\ Room(Hdr + l, Free)
    /\ Contig(tail) < Hdr + l
    /\ Contig(tail) >= Hdr
    /\ writer' = [pc |-> "pad", at |-> tail,
                  fits |-> RoomAfterPad(Hdr + l, Free, Contig(tail))]
    /\ UNCHANGED <<mem, tail, head, reader, accepted, delivered>>

\* The pad marker does not fit before the end of the shared memory:
\* struct.error, which ends the receive loop.
Overrun(l) ==
    /\ Called(l)
    /\ Room(Hdr + l, Free)
    /\ Contig(tail) < Hdr
    /\ writer' = [WriterIdle EXCEPT !.pc = "ended"]
    /\ UNCHANGED <<mem, tail, head, reader, accepted, delivered>>

\* The next reconnect starts a receive loop on the same ring.
Reconnect ==
    /\ writer.pc = "ended"
    /\ writer' = WriterIdle
    /\ UNCHANGED <<mem, tail, head, reader, length, accepted, delivered>>

WritePad ==
    /\ writer.pc = "pad"
    /\ mem' = Stored(mem, Offset(writer.at), Pad, 0, Hdr - 1)
    /\ writer' = [writer EXCEPT !.pc = IF writer.fits THEN "header" ELSE "skip",
                                !.at = @ + Contig(@)]
    /\ UNCHANGED <<tail, head, reader, length, accepted, delivered>>

\* No room after the pad: the tail moves past it, the frame is refused.
PublishPad ==
    /\ writer.pc = "skip"
    /\ tail' = writer.at
    /\ writer' = WriterIdle
    /\ UNCHANGED <<mem, head, reader, length, accepted, delivered>>

WriteHeader ==
    /\ writer.pc = "header"
    /\ mem' = Stored(mem, Offset(writer.at), Frame, 0, Hdr - 1)
    /\ writer' = [writer EXCEPT !.pc = "payload"]
    /\ UNCHANGED <<tail, head, reader, length, accepted, delivered>>

WritePayload ==
    /\ writer.pc = "payload"
    /\ mem' = Stored(mem, Offset(writer.at), Frame, Hdr, Need(Frame) - 1)
    /\ writer' = [writer EXCEPT !.pc = "publish"]
    /\ UNCHANGED <<tail, head, reader, length, accepted, delivered>>

NextTail == writer.at + Need(Frame)

Publish ==
    /\ writer.pc = "publish"
    /\ tail' = NextTail
    /\ accepted' = Append(accepted, Frame)
    /\ writer' = WriterIdle
    /\ UNCHANGED <<mem, head, reader, length, delivered>>

-----------------------------------------------------------------------------
(* read_batch() *)

ReadCursors ==
    /\ reader.pc = "idle"
    /\ reader' = IF head < tail
                 THEN [ReaderIdle EXCEPT !.pc = "record", !.head = head, !.tail = tail]
                 ELSE reader
    /\ UNCHANGED <<mem, tail, head, writer, length, accepted, delivered>>

More == reader.head < reader.tail /\ Len(reader.out) < MaxItems

\* The frame whose header lies at off, Torn if there is none.
FrameAt(off) ==
    LET found == {f \in 0 .. Len(length) : Holds(mem, off, f, 0, Hdr - 1)}
    IN IF found = {} THEN Torn ELSE CHOOSE f \in found : TRUE

\* MUTANT: a pad is taken for an empty record.
SkipHeader(cursor) == cursor + Hdr

SkipPad(cursor) == cursor + Contig(cursor)

ReadHeader ==
    /\ reader.pc = "record"
    /\ More
    /\ LET f == FrameAt(Offset(reader.head))
       IN reader' = IF f = Pad THEN [reader EXCEPT !.head = SkipPad(@)]
                    ELSE [reader EXCEPT !.pc = "payload", !.frame = f]
    /\ UNCHANGED <<mem, tail, head, writer, length, accepted, delivered>>

ReadPayload ==
    /\ reader.pc = "payload"
    /\ LET f == reader.frame
           len == IF f = Torn THEN 0 ELSE length[f]
           whole == Holds(mem, Offset(reader.head), f, Hdr, Hdr + len - 1)
       IN reader' = [reader EXCEPT !.pc = "record", !.head = @ + Hdr + len, !.frame = 0,
                                   !.out = Append(@, IF whole THEN f ELSE Torn)]
    /\ UNCHANGED <<mem, tail, head, writer, length, accepted, delivered>>

ReturnBatch ==
    /\ reader.pc = "record"
    /\ ~More
    /\ head' = reader.head
    /\ delivered' = delivered \o reader.out
    /\ reader' = ReaderIdle
    /\ UNCHANGED <<mem, tail, writer, length, accepted>>

-----------------------------------------------------------------------------
Write ==
    \/ \E l \in Lengths : Refuse(l) \/ Place(l) \/ Wrap(l) \/ Overrun(l)
    \/ WritePad \/ PublishPad \/ WriteHeader \/ WritePayload \/ Publish
    \/ Reconnect

Read == ReadCursors \/ ReadHeader \/ ReadPayload \/ ReturnBatch

Next == Write \/ Read

\* The worker process polls its ring for ever; nothing is assumed of the writer.
Spec == Init /\ [][Next]_vars /\ WF_vars(Read)

-----------------------------------------------------------------------------
(* Properties *)

\* The values the variables range over.
TypeOK ==
    /\ mem \in [Offsets -> [frame : 0 .. Len(length), pos : Nat]]
    /\ tail \in Nat /\ head \in 0 .. tail /\ tail - head <= Cap
    /\ writer \in [pc : {"idle", "pad", "skip", "header", "payload", "publish", "ended"},
                   at : Nat, fits : BOOLEAN]
    /\ reader \in [pc : {"idle", "record", "payload"}, head : Nat, tail : Nat,
                   frame : -1 .. Len(length), out : Seq(-1 .. Len(length))]
    /\ length \in Seq(Lengths)
    /\ accepted \in Seq(1 .. Len(length))
    /\ delivered \in Seq(-1 .. Len(length))

\* No store of the writer touches a byte that is published and not released:
\* the reader may copy it at any time.
Untouched ==
    [][\A c \in head .. tail - 1 : mem'[Offset(c)] = mem[Offset(c)]]_vars

\* The ring implements a FIFO queue of whole frames: no order of the steps of
\* the two processes, no wrap and no refused frame loses, repeats, reorders or
\* tears an accepted one, and each is delivered in the end.
Queue == INSTANCE FrameQueue WITH Frames <- 1 .. MaxFrames

QueueSpec == Queue!Spec

\* write() decides to return False for a payload of length l.
Refuses(l) ==
    /\ Called(l)
    /\ \/ writer'.pc = "idle"
       \/ writer'.pc = "pad" /\ ~writer'.fits

\* "只丢装不下的新帧" (tests/test_worker_pool.py): a frame is refused only if its
\* record can be placed nowhere, neither at the tail nor at the start of the
\* data area, without crossing the end or meeting bytes not yet released.
RefusedFitsNowhere ==
    [][\A l \in Lengths : Refuses(l) =>
         \A at \in {tail, tail + Contig(tail)} :
            Offset(at) + Hdr + l > Cap \/ at + Hdr + l > head + Cap]_vars

-----------------------------------------------------------------------------
(* What the repository says and the code does not do *)

\* "环满返回 False（drop-new，调用方计数）" (write): a frame is written or
\* refused; write() does not fail otherwise.
NeverRaises == writer.pc # "ended"
=============================================================================
