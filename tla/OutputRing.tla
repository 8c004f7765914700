------------------------------ MODULE OutputRing ------------------------------
(***************************************************************************)
(* The buffers of output_capture.rs, as operators: the side buffer that    *)
(* keeps incomplete UTF-8 characters back (OutputUtf8Tails), the bounded   *)
(* ring of text chunks and events (OutputRing) and the rendering of a      *)
(* range of it (resolved_output.rs).                                       *)
(*                                                                         *)
(* A byte is [id, key, cls]: key is the stream and source it came from,    *)
(* and cls is "a" (a whole character), "n" (a newline), "L" and "C" (the   *)
(* first and second byte of a character) or "E" (a byte shown as an        *)
(* escape, counted as one).  line_ends is kept by the code and never read. *)
(***************************************************************************)
EXTENDS Integers, Sequences, SequencesExt

CONSTANTS Capacity,    \* capacity_bytes
          ChunkLen,    \* output_ring_append_chunk_len(capacity_bytes)
          ImageSize, EchoSize, NoticeSize   \* event_size_bytes

ASSUME RingAssumption ==
    /\ {Capacity, ChunkLen, ImageSize, EchoSize, NoticeSize} \subseteq Nat \ {0}
    /\ NoticeSize + ImageSize <= Capacity

Smaller(a, b) == IF a < b THEN a ELSE b
Larger(a, b) == IF a > b THEN a ELSE b
Sat(n) == Larger(n, 0)     \* saturating_sub

Markers == {"input_wait", "request_boundary", "session_end"}
EventSize(kind) == CASE kind = "image" -> ImageSize
                     [] kind = "echo" -> EchoSize
                     [] kind = "notice" -> NoticeSize
                     [] OTHER -> 0

\* How many of the first elements of seq satisfy Test.
Leading(seq, Test(_)) ==
    LET i == SelectInSeq(seq, LAMBDA x : ~Test(x)) IN IF i = 0 THEN Len(seq) ELSE i - 1

-----------------------------------------------------------------------------
(* OutputUtf8Tails: entries not yet in the ring, in order.                 *)

\* Mutant: a character that is not complete counts as complete.
FlushablePrefixLen_all(bytes) == Len(bytes)

\* flushable_prefix_len: all but an incomplete last character.
FlushablePrefixLen(bytes) ==
    IF bytes # <<>> /\ Last(bytes).cls = "L" THEN Len(bytes) - 1 ELSE Len(bytes)

TextEntry(bytes) == [type |-> "text", bytes |-> bytes, sealed |-> FALSE]
EventEntry(kind, id) == [type |-> "event", kind |-> kind, id |-> id]
IsMarker(e) == e.type = "event" /\ e.kind \in Markers
Incomplete(e) ==
    e.type = "text" /\ ~e.sealed /\ FlushablePrefixLen(e.bytes) < Len(e.bytes)

\* materialize: the incomplete end of a sealed entry is escaped.
Materialize(e) ==
    IF e.type = "text" /\ e.sealed /\ FlushablePrefixLen(e.bytes) < Len(e.bytes)
    THEN [e EXCEPT !.bytes[Len(e.bytes)].cls = "E"] ELSE e

\* OutputUtf8Tails::push, before it drains.
PushText(t, bytes, continue) ==
    LET i == SelectInSeq(t, LAMBDA e : Incomplete(e) /\ e.bytes[1].key = bytes[1].key)
    IN IF i # 0 /\ continue THEN [t EXCEPT ![i].bytes = @ \o bytes]
       ELSE Append(IF i = 0 THEN t ELSE [t EXCEPT ![i].sealed = TRUE], TextEntry(bytes))

\* The entries that may leave from the front.  drain_ready stops at an
\* incomplete character; drain_ready_after_visible_gaps (gaps) escapes it
\* when something visible waits behind it.
DrainReady(t, gaps) ==
    FoldLeftDomain(LAMBDA st, i :
        LET e == t[i]
            n == FlushablePrefixLen(e.bytes)
            whole == IF n = 0 THEN <<>> ELSE <<[e EXCEPT !.bytes = SubSeq(@, 1, n)]>>
            rest == [e EXCEPT !.bytes = SubSeq(@, n + 1, Len(@))]
            later == \E j \in i + 1 .. Len(t) : ~IsMarker(t[j])
        IN IF st.stop THEN [st EXCEPT !.rest = Append(@, e)]
           ELSE IF ~Incomplete(e) THEN [st EXCEPT !.ready = Append(@, Materialize(e))]
           ELSE IF gaps /\ later
           THEN [st EXCEPT !.ready = @ \o whole \o
                                     <<Materialize([rest EXCEPT !.sealed = TRUE])>>]
           ELSE [ready |-> st.ready \o whole, rest |-> <<rest>>, stop |-> TRUE],
        [ready |-> <<>>, rest |-> <<>>, stop |-> FALSE], t)

\* OutputUtf8Tails::drain.
DrainAll(t) ==
    DrainReady([i \in DOMAIN t |-> IF t[i].type = "text" THEN [t[i] EXCEPT !.sealed = TRUE]
                                   ELSE t[i]], FALSE)

EntrySize(e) == IF e.type = "text" THEN Len(e.bytes) ELSE EventSize(e.kind)
BlockedSideBufferBytes(t) ==
    IF t = <<>> \/ ~Incomplete(t[1]) THEN 0
    ELSE FoldLeft(LAMBDA n, e : n + EntrySize(e), 0, Tail(t))

Unblock(d) ==
    IF BlockedSideBufferBytes(d.rest) <= Capacity THEN d
    ELSE LET g == DrainReady(d.rest, TRUE)
         IN [ready |-> d.ready \o g.ready, rest |-> g.rest, stop |-> FALSE]
DrainReadyBounded(t) == Unblock(DrainReady(t, FALSE))

-----------------------------------------------------------------------------
(* OutputRing: chunks of bytes at growing offsets, and events between      *)
(* them.  bytes and evs are buffered_bytes and buffered_event_bytes.       *)

EmptyRing == [chunks |-> <<>>, events |-> <<>>, start |-> 0, end |-> 0,
              bytes |-> 0, evs |-> 0]

ChunkEnd(c) == c.start + Len(c.bytes)
Buffered(r) == r.bytes + r.evs
Fits(r, need) == Buffered(r) + need <= Capacity

\* r without the events at the positions S.
Without(r, S) ==
    [r EXCEPT !.events = FoldLeftDomain(LAMBDA seq, i :
                             IF i \in S THEN seq ELSE Append(seq, r.events[i]), <<>>, r.events),
              !.evs = Sat(@ - FoldLeftDomain(LAMBDA n, i :
                             IF i \in S THEN n + EventSize(r.events[i].kind) ELSE n,
                             0, r.events))]

PushEvent(r, offset, kind, id) ==
    [r EXCEPT !.events = Append(@, [offset |-> offset, kind |-> kind, id |-> id]),
              !.evs = @ + EventSize(kind)]
AtEnd(r) == Larger(r.end, r.start)

AppendChunk(r, bytes) ==
    [r EXCEPT !.chunks = Append(@, [start |-> r.end, bytes |-> bytes]),
              !.end = @ + Len(bytes), !.bytes = @ + Len(bytes)]

\* The chunks from an offset on; the one that holds it is cut.
ChunksFrom(r, offset) ==
    LET Cut(c) == IF c.start >= offset THEN c
                  ELSE [start |-> Smaller(offset, ChunkEnd(c)),
                        bytes |-> SubSeq(c.bytes, offset - c.start + 1, Len(c.bytes))]
        cut == SelectSeq([i \in DOMAIN r.chunks |-> Cut(r.chunks[i])],
                         LAMBDA c : c.bytes # <<>>)
        left == FoldLeft(LAMBDA n, c : n + Len(c.bytes), 0, cut)
        had == FoldLeft(LAMBDA n, c : n + Len(c.bytes), 0, r.chunks)
    IN [r EXCEPT !.chunks = cut, !.start = offset, !.bytes = Sat(@ - (had - left))]

\* cleanup_front: events up to the start go too.
CleanupFront(r) == Without(r, 1 .. Leading(r.events, LAMBDA e : e.offset <= r.start))

\* trim_to_offset.
TrimToOffset(r, offset) ==
    LET to == Smaller(offset, r.end)
    IN IF to <= r.start THEN r ELSE CleanupFront(ChunksFrom(r, to))

\* Mutant: every event at the boundary goes with it.
CleanupConsumed_boundary(r, count) ==
    Without(r, 1 .. Leading(r.events, LAMBDA e : e.offset <= r.start))

\* Of the events at the boundary only the count that was read.
CleanupConsumed(r, count) ==
    LET before == Leading(r.events, LAMBDA e : e.offset < r.start)
        upto == Leading(SubSeq(r.events, before + 1, Len(r.events)),
                        LAMBDA e : e.offset = r.start)
    IN Without(r, 1 .. before + Smaller(count, upto))

\* trim_to_offset_consuming_boundary_events.
TrimConsuming(r, offset, count) ==
    LET to == Smaller(offset, r.end)
    IN IF to < r.start THEN r
       ELSE CleanupConsumed(IF to > r.start THEN ChunksFrom(r, to) ELSE r, count)

\* drop_input_echoes_for_room: the oldest echoes, as many as needed.
DropEchoes(r, need, capacity) ==
    LET echoes == {i \in DOMAIN r.events : r.events[i].kind = "echo"}
        Rank(i) == Len(SelectSeq(SubSeq(r.events, 1, i - 1), LAMBDA e : e.kind = "echo"))
        gone == {i \in echoes : Buffered(r) - Rank(i) * EchoSize + need > capacity}
    IN [r |-> Without(r, gone), dropped |-> gone # {}]

\* The loop of make_room_for: chunks with the events before them, then events.
RECURSIVE DropOldest(_, _, _)
DropOldest(r, need, dropped) ==
    IF Fits(r, need) \/ (r.chunks = <<>> /\ r.events = <<>>)
    THEN [r |-> r, dropped |-> dropped]
    ELSE DropOldest(IF r.chunks = <<>> THEN Without(r, {1})
                    ELSE TrimToOffset(r, Larger(ChunkEnd(r.chunks[1]), r.start + 1)),
                    need, TRUE)

\* make_room_for: echoes go first.  dropped is DropStats::dropped_visible.
MakeRoomFor(r, need) ==
    IF need >= Capacity
    THEN [r |-> [EmptyRing EXCEPT !.start = r.end, !.end = r.end],
          dropped |-> r.end > r.start \/ \E i \in DOMAIN r.events : r.events[i].kind # "echo"]
    ELSE DropOldest(DropEchoes(r, need, Capacity).r, need, FALSE)

\* append_truncation_notice_locked.
NoticeAt(r, offset) == PushEvent(r, Larger(offset, r.start), "notice", 0)
TruncationNotice(r, offset, extra) ==
    IF NoticeSize + extra > Capacity THEN r
    ELSE NoticeAt(MakeRoomFor(r, NoticeSize + extra).r, offset)

HasNotice(r) == \E i \in DOMAIN r.events : r.events[i].kind = "notice"
RetainedEnd(r) ==
    IF r.chunks = <<>> THEN r.start ELSE Larger(ChunkEnd(Last(r.chunks)), r.start)

\* The last chunk without its last n bytes, and the events after what is left.
CutEvents(r) ==
    Without(r, {k \in DOMAIN r.events : \A j \in k .. Len(r.events) :
                   r.events[j].offset > RetainedEnd(r)})
CutLastChunk(r, n) ==
    LET left == Front(r.chunks)
        bytes == SubSeq(Last(r.chunks).bytes, 1, Len(Last(r.chunks).bytes) - n)
    IN CutEvents([r EXCEPT !.bytes = @ - n,
                           !.chunks = IF bytes = <<>> THEN left
                                      ELSE Append(left, [Last(@) EXCEPT !.bytes = bytes])])

\* trim_tail_for_room: from the end, events at or after the last chunk and
\* then bytes of it; end_offset stays.
RECURSIVE TrimTail(_, _)
TrimTail(r, need) ==
    LET lastEnd == IF r.chunks = <<>> THEN 0 ELSE ChunkEnd(Last(r.chunks))
        n == Len(r.events)
        excess == Buffered(r) + need - Capacity
    IN IF excess <= 0 \/ (n = 0 /\ r.chunks = <<>>) THEN r
       ELSE IF n > 0 /\ r.events[n].offset >= lastEnd THEN TrimTail(Without(r, {n}), need)
       ELSE TrimTail(CutLastChunk(r, Smaller(excess, Len(Last(r.chunks).bytes))), need)

\* append_omission_notice_locked: at most one, at the end of what is kept.
NoticeAtEnd(r) ==
    IF Fits(r, NoticeSize) THEN PushEvent(r, RetainedEnd(r), "notice", 0) ELSE r
OmissionNotice(r) ==
    IF HasNotice(r) \/ NoticeSize > Capacity THEN r ELSE NoticeAtEnd(TrimTail(r, NoticeSize))

NoticeIf(cond, r) == IF cond THEN OmissionNotice(r) ELSE r
OmissionReserve(r) == IF HasNotice(r) \/ NoticeSize > Capacity THEN 0 ELSE NoticeSize

\* The two passes of making room in head retention: with the whole capacity,
\* then keeping room for the notice.
NotedDrop(d) == NoticeIf(d.dropped, d.r)
Available(r, effective) == [r |-> r, available |-> Sat(effective - Buffered(r))]
SecondPass(r, need) ==
    LET effective == Sat(Capacity - OmissionReserve(r))
    IN IF Fits(r, need) THEN [r |-> r, available |-> need]
       ELSE Available(NotedDrop(DropEchoes(r, need, effective)), effective)
HeadRoom(r, need) == SecondPass(NotedDrop(DropEchoes(r, need, Capacity)), need)

\* An append takes the ring's lock anew for every chunk: what is left of an
\* entry stays at the front of the work.
FirstChunk(bytes) == SubSeq(bytes, 1, Smaller(ChunkLen, Len(bytes)))
AfterChunk(bytes) == SubSeq(bytes, ChunkLen + 1, Len(bytes))
NoticeEntry == [type |-> "notice"]
Turn(r, work, dropped) == [ring |-> r, work |-> work, dropped |-> dropped]

\* A chunk of append_bytes_retaining_tail; after the last one the notice of
\* what was dropped takes the lock once more.
AppendBytesTail(room, e, later, dropped) ==
    LET rest == AfterChunk(e.bytes)
        any == dropped \/ room.dropped
    IN Turn(AppendChunk(room.r, FirstChunk(e.bytes)),
            IF rest # <<>> THEN <<[e EXCEPT !.bytes = rest]>> \o later
            ELSE IF any THEN <<NoticeEntry>> \o later ELSE later,
            any /\ rest # <<>>)

\* A chunk of append_bytes_retaining_head: as much of it as there is room
\* for; the rest of the entry is omitted.
AppendBytesHead(room, e, later) ==
    LET c == FirstChunk(e.bytes)
        n == Smaller(Len(c), room.available)
        rest == IF n < Len(c) THEN <<>> ELSE AfterChunk(e.bytes)
    IN Turn(NoticeIf(n < Len(c), IF n = 0 THEN room.r ELSE AppendChunk(room.r, SubSeq(c, 1, n))),
            IF rest = <<>> THEN later ELSE <<[e EXCEPT !.bytes = rest]>> \o later, FALSE)

\* append_visible_event, append_input_echo_event, append_marker_event.
PushIfFits(r, kind, id) ==
    IF Fits(r, EventSize(kind)) THEN PushEvent(r, AtEnd(r), kind, id) ELSE r
PushVisible(r, at, kind, id) == PushEvent(r, Larger(at, r.start), kind, id)
NotedRoom(room, at, size) == IF room.dropped THEN TruncationNotice(room.r, at, size) ELSE room.r
PushInRoom(space, at, kind, id) ==
    IF space.available >= EventSize(kind) THEN PushEvent(space.r, at, kind, id)
    ELSE OmissionNotice(space.r)
AppendEvent(r, head, kind, id) ==
    LET size == EventSize(kind)
    IN CASE kind \in Markers -> PushEvent(r, AtEnd(r), kind, id)
         [] kind = "echo" /\ ~head ->
              IF size >= Capacity THEN r ELSE PushIfFits(DropEchoes(r, size, Capacity).r, kind, id)
         [] kind = "echo" /\ head ->
              IF size <= Capacity /\ HasNotice(r) THEN r
              ELSE IF Fits(r, size) THEN PushEvent(r, AtEnd(r), kind, id) ELSE OmissionNotice(r)
         [] kind = "image" /\ size > Capacity -> NoticeIf(head, r)
         [] kind = "image" /\ size <= Capacity /\ ~head ->
              PushVisible(NotedRoom(MakeRoomFor(r, size), AtEnd(r), size), AtEnd(r), kind, id)
         [] OTHER -> PushInRoom(HeadRoom(r, size), AtEnd(r), kind, id)

\* append_pending_locked: what is done to the ring under one lock of it.
AppendPending(r, head, job) ==
    LET e == Head(job.work)
        later == Tail(job.work)
    IN CASE e.type = "notice" -> Turn(TruncationNotice(r, r.end, 0), later, FALSE)
         [] e.type = "event" -> Turn(AppendEvent(r, head, e.kind, e.id), later, FALSE)
         [] e.type = "text" /\ head -> AppendBytesHead(HeadRoom(r, Len(e.bytes)), e, later)
         [] e.type = "text" /\ ~head ->
              AppendBytesTail(MakeRoomFor(r, Len(FirstChunk(e.bytes))), e, later, job.dropped)

-----------------------------------------------------------------------------
(* Reading and rendering.                                                  *)

\* collect_range with read_range.
ReadRange(r, from, to) ==
    LET end == Smaller(to, r.end)
        start == Larger(from, r.start)
        Slice(c) == SubSeq(c.bytes, Sat(start - c.start) + 1,
                           Smaller(Sat(end - c.start), Len(c.bytes)))
        within == SelectSeq(r.events, LAMBDA e : e.offset >= start)
    IN [start |-> start, end |-> end,
        bytes |-> IF start < end THEN FlattenSeq([i \in DOMAIN r.chunks |-> Slice(r.chunks[i])])
                  ELSE <<>>,
        events |-> IF start <= end THEN SubSeq(within, 1, Leading(within, LAMBDA e : e.offset <= end))
                   ELSE <<>>]

\* trim_range_to_complete_utf8.
TrimRange(g) ==
    LET n == FlushablePrefixLen(g.bytes)
    IN IF n = Len(g.bytes) THEN g
       ELSE [g EXCEPT !.bytes = SubSeq(@, 1, n), !.end = g.start + n,
                      !.events = SelectSeq(@, LAMBDA e : e.offset <= g.start + n)]

\* last_text_ends_with_newline: of the last chunk, unless a notice (which
\* ends with one) lies at or after its end; an echo is no text.
LastTextEndsWithNewline(r) ==
    r.chunks # <<>> =>
        \/ Last(Last(r.chunks).bytes).cls = "n"
        \/ \E i \in DOMAIN r.events : /\ r.events[i].kind = "notice"
                                      /\ r.events[i].offset >= ChunkEnd(Last(r.chunks))

BoundaryEvents(g) == Len(SelectSeq(g.events, LAMBDA e : e.offset = g.end))

\* What a reply shows: a byte or an event, with a label before stderr text.
Item(id, src, label, cls) == [id |-> id, src |-> src, label |-> label, cls |-> cls]

\* The RenderedTextState after an event.
AfterEvent(kind, echoed, last) ==
    IF kind \in {"image", "notice", "request_boundary", "session_end"}
       \/ (kind = "echo" /\ echoed /\ last = "stderr")
    THEN "none" ELSE last

\* contents_from_output_range_with_state: the bytes between events, each run
\* of stderr labelled unless it continues an unterminated one.  last is the
\* RenderedTextState: "none", "text" or "stderr" (an unterminated stderr).
Render(g, echoed, last) ==
    LET Emit(st, upto) ==
            FoldLeft(LAMBDA s, i :
                LET b == g.bytes[i]
                    starts == i = st.cursor + 1 \/ g.bytes[i - 1].key # b.key
                    label == b.key = "err" /\ starts /\ s.last # "stderr"
                IN [s EXCEPT !.out = Append(@, Item(b.id, b.key, label, b.cls)),
                             !.last = IF b.key = "err" /\ b.cls # "n" THEN "stderr" ELSE "text"],
                st, [k \in 1 .. Sat(Smaller(upto, Len(g.bytes)) - st.cursor) |-> st.cursor + k])
        Show(st, e) ==
            LET at == e.offset - g.start
                s == Emit(st, at)
            IN IF st.stop \/ at > Len(g.bytes) THEN [st EXCEPT !.stop = TRUE]
               ELSE [s EXCEPT !.cursor = at, !.last = AfterEvent(e.kind, echoed, @),
                              !.out = IF e.kind \in {"image", "notice"} \/ (e.kind = "echo" /\ echoed)
                                      THEN Append(@, Item(e.id, e.kind, FALSE, "n")) ELSE @]
        shown == FoldLeft(Show, [out |-> <<>>, cursor |-> 0, last |-> last, stop |-> FALSE],
                          g.events)
    IN Emit(shown, Len(g.bytes))
=============================================================================
