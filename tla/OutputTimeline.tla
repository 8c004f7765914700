---------------------------- MODULE OutputTimeline ----------------------------
(***************************************************************************)
(* One OutputTimeline with its OutputBuffer cursor: the worker's raw and   *)
(* IPC readers append while a reply drains.  An append holds the state     *)
(* mutex to its end, but takes the ring's for one chunk at a time; a drain *)
(* takes the mutexes of state, cursor and ring one after the other, so     *)
(* that it may find an append half done.  Drains and status lines belong   *)
(* to the one thread of the server.                                        *)
(***************************************************************************)
EXTENDS OutputRing

CONSTANTS Texts,       \* the texts (sequences of byte classes) a reader delivers
          Events,      \* the events it delivers
          Keys,        \* the sources of text
          MaxAppends,  \* bound on appends
          MaxDrains,   \* bound on drains
          DropsDuringDrain, \* may retention drop between a drain's read and consume?
          TrimsOverGaps     \* may a drain keep a character back in a range with a gap?

ASSUME TimelineAssumption ==
    MaxAppends \in Nat /\ MaxDrains \in Nat /\ {DropsDuringDrain, TrimsOverGaps} \subseteq BOOLEAN

VARIABLES head,     \* OutputRetention::Head (files mode), else Tail (pager mode)
          tails,    \* OutputUtf8Tails
          ring,     \* OutputRingInner
          cursor,   \* OutputCursor
          job,      \* the append that holds the state mutex: its entries still to come
          drain,    \* the drain or status line in progress
          shown,    \* what drains returned, in order
          written,  \* the source of every byte and image appended
          inside,   \* history: the bytes at which a drain ended inside an append
          bounds    \* appends and drains so far

vars == <<head, tails, ring, cursor, job, drain, shown, written, inside, bounds>>

NoRange == [start |-> 0, end |-> 0, bytes |-> <<>>, events |-> <<>>]
NoDrain == [phase |-> "idle", final |-> FALSE, start |-> 0, end |-> 0, range |-> NoRange,
            half |-> FALSE,   \* its end was read while an append was half done
            owed |-> {}]      \* the output it has to show
NoJob == [work |-> <<>>, dropped |-> FALSE, server |-> FALSE]

Init ==
    /\ head \in BOOLEAN
    /\ tails = <<>> /\ ring = EmptyRing /\ job = NoJob /\ drain = NoDrain
    /\ cursor = [offset |-> 0, last |-> "none"]
    /\ shown = <<>> /\ written = <<>> /\ inside = {}
    /\ bounds = [appends |-> 0, drains |-> 0]

\* The bytes and images that are not shown yet, and the first bytes of
\* characters whose rest has not come.
BytesOf(bytes) == {bytes[i].id : i \in DOMAIN bytes}
EventsOf(events) == {events[i].id : i \in DOMAIN events} \ {0}
EntriesOf(t) ==
    UNION {CASE t[i].type = "text" -> BytesOf(t[i].bytes)
             [] t[i].type = "event" -> {t[i].id} \ {0}
             [] t[i].type = "notice" -> {} : i \in DOMAIN t}
WaitingIn(t, r) ==
    EntriesOf(t)
    \cup UNION {BytesOf(r.chunks[i].bytes) : i \in DOMAIN r.chunks}
    \cup EventsOf(r.events)
Unfinished(t) ==
    {t[i].bytes[Len(t[i].bytes)].id : i \in {j \in DOMAIN t : Incomplete(t[j])}}

\* What the drain has read of the ring and will show.
Held == IF drain.phase = "read" THEN drain.range ELSE NoRange

\* Outside the scope of the run without drops: see DropsDuringDrain.
InScope ==
    \/ DropsDuringDrain \/ drain.phase # "read"
    \/ IsPrefix(ring.events, ring'.events) /\ IsPrefix(ring.chunks, ring'.chunks)

\* append_pending_locked, one lock of the ring at a time.
Advance(j) ==
    /\ IF j.work = <<>> THEN job' = NoJob /\ UNCHANGED ring
       ELSE \E turn \in {AppendPending(ring, head, j)} :
               /\ ring' = turn.ring
               /\ job' = IF turn.work = <<>> THEN NoJob
                         ELSE [j EXCEPT !.work = turn.work, !.dropped = turn.dropped]
    /\ InScope

\* Whoever gets the state mutex appends what the side buffer lets go.
Pass(d, server) ==
    /\ job = NoJob
    /\ tails' = d.rest
    /\ Advance([work |-> d.ready, dropped |-> FALSE, server |-> server])
AppendMore ==
    /\ job # NoJob /\ Advance(job)
    /\ UNCHANGED <<head, tails, cursor, drain, shown, written, inside, bounds>>

Appending ==
    /\ bounds.appends < MaxAppends
    /\ bounds' = [bounds EXCEPT !.appends = @ + 1]
    /\ UNCHANGED <<head, cursor, shown, inside>>

\* append_text: raw output continues an incomplete character of its source;
\* append_ipc_text_with_continuation: the sender says so.
AppendText(key, text, continue) ==
    LET bytes == [i \in DOMAIN text |-> [id |-> Len(written) + i, key |-> key, cls |-> text[i]]]
    IN /\ key = "out" => continue
       /\ Pass(DrainReadyBounded(PushText(tails, bytes, continue)), FALSE)
       /\ written' = written \o [i \in DOMAIN text |-> key]
       /\ Appending /\ UNCHANGED drain

\* append_image, append_input_echo and the markers: push_event.
AppendEventEntry(kind) ==
    LET visible == kind = "image"
    IN /\ Pass(DrainReadyBounded(Append(tails, EventEntry(kind, IF visible THEN Len(written) + 1 ELSE 0))), FALSE)
       /\ written' = IF visible THEN Append(written, kind) ELSE written
       /\ Appending /\ UNCHANGED drain

\* PendingOutputTape::append_stdout_status_line: the tails are sealed, then
\* the end of the text is looked at, and the line starts on one of its own.
\* Readers may append in between.
ServerFree == ~job.server      \* the server's own append is done
AppendStatusLine ==
    /\ "status" \in Events
    /\ drain.phase = "idle"
    /\ Pass(DrainAll(tails), TRUE)
    /\ drain' = [drain EXCEPT !.phase = "sealed line"]
    /\ Appending /\ UNCHANGED written
LookAtText ==
    /\ drain.phase = "sealed line" /\ ServerFree
    /\ drain' = [drain EXCEPT !.phase = IF LastTextEndsWithNewline(ring) THEN "line" ELSE "broken line"]
    /\ UNCHANGED <<head, tails, ring, cursor, job, shown, written, inside, bounds>>
AppendStatusText ==
    LET text == IF drain.phase = "line" THEN <<"n">> ELSE <<"n", "n">>
        bytes == [i \in DOMAIN text |-> [id |-> Len(written) + i, key |-> "srv", cls |-> text[i]]]
    IN /\ drain.phase \in {"line", "broken line"}
       /\ Pass(DrainReadyBounded(PushText(tails, bytes, TRUE)), TRUE)
       /\ written' = written \o [i \in DOMAIN text |-> "srv"]
       /\ drain' = [drain EXCEPT !.phase = "appended"]
       /\ UNCHANGED <<head, cursor, shown, inside, bounds>>
StatusLineEnds ==
    /\ drain.phase = "appended" /\ ServerFree
    /\ drain' = NoDrain
    /\ UNCHANGED <<head, tails, ring, cursor, job, shown, written, inside, bounds>>

\* Mutant: a drain that is not final seals nothing.
DrainStart_unsealed(final) ==
    /\ drain.phase = "idle" /\ bounds.drains < MaxDrains
    /\ Pass(IF final THEN DrainAll(tails) ELSE DrainReady(tails, FALSE), TRUE)
    /\ drain' = [NoDrain EXCEPT !.phase = "sealed", !.final = final,
                                !.owed = WaitingIn(tails, ring) \ Unfinished(tails')]
    /\ bounds' = [bounds EXCEPT !.drains = @ + 1]
    /\ UNCHANGED <<head, cursor, shown, written, inside>>

\* A drain seals the tails, all of them when final, else those that hold
\* visible output back.
DrainStart(final) ==
    /\ drain.phase = "idle" /\ bounds.drains < MaxDrains
    /\ Pass(IF final THEN DrainAll(tails) ELSE DrainReady(tails, TRUE), TRUE)
    /\ drain' = [NoDrain EXCEPT !.phase = "sealed", !.final = final,
                                !.owed = WaitingIn(tails, ring) \ Unfinished(tails')]
    /\ bounds' = [bounds EXCEPT !.drains = @ + 1]
    /\ UNCHANGED <<head, cursor, shown, written, inside>>

\* It reads the cursor and the end of the ring, where another append may
\* have begun since.
DrainEnd ==
    /\ drain.phase = "sealed" /\ ServerFree
    /\ drain' = [drain EXCEPT !.phase = "started", !.start = cursor.offset, !.end = ring.end,
                              !.half = job # NoJob]
    /\ UNCHANGED <<head, tails, ring, cursor, job, shown, written, inside, bounds>>

\* read_range; files mode keeps an incomplete last character back.  Head
\* retention leaves gaps in the offsets (trim_tail_for_room), which
\* trim_range_to_complete_utf8 does not count: see TrimsOverGaps.
KeepsBack == head /\ ~drain.final
CutInGap(g) ==
    /\ KeepsBack /\ g.end - g.start > Len(g.bytes)
    /\ FlushablePrefixLen(g.bytes) < Len(g.bytes)
DrainRead ==
    LET range == ReadRange(ring, drain.start, drain.end)
    IN /\ drain.phase = "started"
       /\ TrimsOverGaps \/ ~CutInGap(range)
       /\ drain' = [drain EXCEPT !.phase = "read",
                                 !.range = IF KeepsBack THEN TrimRange(range) ELSE range]
       /\ UNCHANGED <<head, tails, ring, cursor, job, shown, written, inside, bounds>>

\* contents_from_output_range_with_state, then
\* advance_offset_to_with_rendered_text_and_boundary_events.
DrainConsume ==
    LET range == drain.range
    IN /\ drain.phase = "read"
       /\ \E rendered \in {Render(range, head, cursor.last)} :
             /\ shown' = shown \o rendered.out
             /\ cursor' = [offset |-> range.end, last |-> rendered.last]
       /\ ring' = TrimConsuming(ring, range.end, BoundaryEvents(range))
       /\ inside' = IF drain.half /\ ~KeepsBack /\ range.bytes # <<>>
                    THEN inside \cup {Last(range.bytes).id} ELSE inside
       /\ drain' = NoDrain
       /\ UNCHANGED <<head, tails, job, written, bounds>>

\* PendingOutputTape::clear, when a worker is replaced.
Clear ==
    /\ job = NoJob /\ drain.phase = "idle" /\ bounds.drains < MaxDrains
    /\ tails' = <<>> /\ ring' = EmptyRing
    /\ cursor' = [offset |-> 0, last |-> "none"]
    /\ bounds' = [bounds EXCEPT !.drains = @ + 1]
    /\ UNCHANGED <<head, job, drain, shown, written, inside>>

Next ==
    \/ \E key \in Keys, text \in Texts, continue \in BOOLEAN : AppendText(key, text, continue)
    \/ \E kind \in Events \ {"status"} : AppendEventEntry(kind)
    \/ AppendMore
    \/ AppendStatusLine \/ LookAtText \/ AppendStatusText \/ StatusLineEnds
    \/ \E final \in BOOLEAN : DrainStart(final)
    \/ DrainEnd \/ DrainRead \/ DrainConsume \/ Clear

Spec == Init /\ [][Next]_vars

-----------------------------------------------------------------------------
Waiting == WaitingIn(tails, ring) \cup EntriesOf(job.work) \cup BytesOf(Held.bytes) \cup EventsOf(Held.events)
Noticed(events) == \E i \in DOMAIN events : events[i].kind = "notice"
LogShown == SelectSeq([i \in DOMAIN shown |-> IF shown[i].src = "echo" THEN -1 ELSE shown[i].id],
                      LAMBDA id : id >= 0)

Log == INSTANCE OutputLog WITH pending <- Waiting, shown <- LogShown,
                               due <- \/ Noticed(ring.events) \/ Noticed(Held.events)
                                      \/ job.dropped \/ NoticeEntry \in Range(job.work)

\* Every drain, with writers running during it, shows what the readers of
\* OutputLog were promised: nothing twice, every source in its order, and
\* nothing lost without a notice, across chunk limits, the retention policy
\* and characters split over reads.
ImplementsLog == Log!Spec

\* What a source wrote after a byte was dropped by retention.
RestDropped(src, id) ==
    \E k \in id + 1 .. Len(written) :
        /\ written[k] = src /\ \A m \in id + 1 .. k - 1 : written[m] # src
        /\ k \notin Waiting \cup {shown[i].id : i \in DOMAIN shown}

\* The first byte of a character is never shown apart from what its source
\* wrote next, though they arrive in two reads with others and drains in
\* between, unless retention dropped that; one whose rest does not come is
\* escaped.  Only a drain that is final, or one of pager mode, may end
\* between the two bytes, and only where it read the end of the ring between
\* two chunks of one append.
CharactersWhole ==
    \A i \in DOMAIN shown : shown[i].cls = "L" =>
        \/ i < Len(shown) /\ shown[i + 1].src = shown[i].src
        \/ RestDropped(shown[i].src, shown[i].id)
        \/ shown[i].id \in inside

\* A drain leaves nothing behind of what was there when it started, a
\* character apart whose rest has not come: nothing waits behind that one.
\* Only where head retention cut a character in two does a drain that is not
\* final stop before it.
DrainExposes ==
    [][drain.phase = "read" /\ drain'.phase = "idle" =>
          Waiting' \cap drain.owed = {} \/ (head /\ drain.range.end < drain.end)]_vars
=============================================================================
