----------------------------- MODULE OutputStore -----------------------------
(***************************************************************************)
(* The store of output bundles of server/response.rs, as operators on a    *)
(* store record.  A bundle is a directory with a transcript, image files   *)
(* and, once it mixes text and images, an index of both (events.log); the  *)
(* store keeps their number and bytes within quotas by pruning old ones.   *)
(*                                                                         *)
(* Lengths in characters and in bytes coincide, every index row has length *)
(* Row, and base64 does not lengthen an image.                             *)
(*                                                                         *)
(* io holds the file operations that fail in the current call: creating or *)
(* removing a directory, or the operations io.ops of the append of item    *)
(* io.at, of whose bytes io.cut reach the file.                            *)
(***************************************************************************)
EXTENDS Naturals, Sequences, FiniteSets

CONSTANTS ImageThreshold,  \* IMAGE_OUTPUT_BUNDLE_THRESHOLD
          RowOverhead,     \* TEXT_ROW_OVERHEAD_BYTES
          Row,             \* length of one T or I row
          Header,          \* length of OUTPUT_BUNDLE_HEADER
          OmissionLine,    \* omission_event_line_len()
          MaxBundleCount, MaxBundleBytes, MaxTotalBytes

ASSUME QuotaAssumption ==
    /\ {RowOverhead, Row, Header, OmissionLine, MaxBundleBytes, MaxTotalBytes,
        MaxBundleCount, ImageThreshold} \subseteq Nat
    /\ MaxBundleCount > 0
    /\ 0 < Row /\ Row <= RowOverhead

Minus(a, b) == IF a > b THEN a - b ELSE 0      \* saturating_sub
Lesser(a, b) == IF a < b THEN a ELSE b

\* The sum of a sequence of numbers.
SumOf(seq) ==
    LET sum[k \in 0 .. Len(seq)] == IF k = 0 THEN 0 ELSE sum[k - 1] + seq[k]
    IN sum[Len(seq)]

NoFault == [ops |-> {}, at |-> 0, cut |-> 0]
Fails(io, op, item) == op \in io.ops /\ io.at = item.id
CutOf(io, n) == Lesser(io.cut, Minus(n, 1))    \* never all that was written

CountImages(items) == Cardinality({i \in DOMAIN items : items[i].kind = "image"})
TextChars(items) ==
    SumOf([i \in DOMAIN items |-> IF items[i].kind = "text" THEN items[i].n ELSE 0])

-----------------------------------------------------------------------------
(* OutputStore: an accounting entry per stored bundle, and the files.      *)

\* A directory is torn once a write in it failed, and gone once its removal
\* failed: remove_dir_all may have removed any part of it.
EmptyDir == [text |-> <<>>, history |-> <<>>, alias |-> <<>>,
             hasLog |-> FALSE, log |-> <<>>, logBytes |-> 0,
             torn |-> FALSE, gone |-> FALSE]
EmptyStore == [bundles |-> <<>>, total |-> 0, next |-> 0, disk |-> <<>>]

AccountedBytes(e) == e.bytes + e.reserved
Stored(s, id) == \E i \in DOMAIN s.bundles : s.bundles[i].id = id
Position(s, id) == CHOOSE i \in DOMAIN s.bundles : s.bundles[i].id = id

RemoveBundle(s, id) ==
    LET i == Position(s, id)
    IN IF ~Stored(s, id) THEN s
       ELSE [s EXCEPT !.bundles = SubSeq(@, 1, i - 1) \o SubSeq(@, i + 1, Len(@)),
                      !.total = Minus(@, AccountedBytes(s.bundles[i])),
                      !.disk = [k \in DOMAIN @ \ {id} |-> @[k]]]

\* A removal that fails leaves the entry and what is left of the files.
PartGone(d, removed) == [d EXCEPT !.gone = @ \/ removed]
HalfRemoved(s, ids) == [s EXCEPT !.disk = [k \in DOMAIN @ |-> PartGone(@[k], k \in ids)]]
RemoveUnlessFails(s, id, io) ==
    IF "remove" \in io.ops THEN HalfRemoved(s, {id}) ELSE RemoveBundle(s, id)

\* prune_oldest_inactive_bundle, with the bundle `id` in its turn: oldest
\* first, all but the one kept, as long as the store is over a limit.
PruneForTotal(s, id, keep, need) ==
    IF id # keep /\ s.total + need > MaxTotalBytes THEN RemoveBundle(s, id) ELSE s
PruneForCount(s, id, keep) ==
    IF id # keep /\ Len(s.bundles) >= MaxBundleCount THEN RemoveBundle(s, id) ELSE s

PruneUntilTotalCapacity(s, keep, need) ==
    LET prune[k \in 0 .. Len(s.bundles)] ==
            IF k = 0 THEN s ELSE PruneForTotal(prune[k - 1], s.bundles[k].id, keep, need)
    IN prune[Len(s.bundles)]

PruneUntilCount(s, keep) ==
    LET prune[k \in 0 .. Len(s.bundles)] ==
            IF k = 0 THEN s ELSE PruneForCount(prune[k - 1], s.bundles[k].id, keep)
    IN prune[Len(s.bundles)]

\* Pruning s to `pruned` stops at the oldest bundle it would remove when that
\* fails.
HalfPruned(s, pruned) ==
    HalfRemoved(s, {k \in DOMAIN s.disk : /\ ~Stored(pruned, k)
                                          /\ \A j \in DOMAIN s.disk : j < k => Stored(pruned, j)})

FreshBundle(id) ==
    [id |-> id, images |-> 0, current |-> 0, text |-> 0, preIndex |-> 0,
     omitted |-> FALSE, omittedVisible |-> FALSE, recorded |-> FALSE,
     disclosed |-> FALSE]

\* new_bundle_preserving with prune_for_new_bundle: first to the count, then
\* to the bytes.
AddBundle(s, counted, pruned, io) ==
    LET id == s.next + 1
        Error(st) == [s |-> st, b |-> FreshBundle(0), err |-> TRUE]
    IN IF pruned # s /\ "remove" \in io.ops THEN Error(HalfPruned(s, pruned))
       ELSE IF Len(counted.bundles) >= MaxBundleCount THEN Error(counted)
       ELSE IF pruned.total > MaxTotalBytes THEN Error(pruned)
       ELSE IF "create" \in io.ops THEN Error([pruned EXCEPT !.next = id])
       ELSE [s |-> [pruned EXCEPT
                      !.next = id,
                      !.bundles = Append(@, [id |-> id, bytes |-> 0, reserved |-> 0]),
                      !.disk = [k \in DOMAIN @ \cup {id} |->
                                   IF k = id THEN EmptyDir ELSE @[k]]],
             b |-> FreshBundle(id), err |-> FALSE]
NewBundle(s, protected, io) ==
    LET counted == PruneUntilCount(s, protected)
    IN AddBundle(s, counted, PruneUntilTotalCapacity(counted, protected, 0), io)

\* prepare_append_capacity: the bytes granted after pruning other bundles.
Grant(s, pruned, target, io) ==
    IF pruned # s /\ "remove" \in io.ops
    THEN [s |-> HalfPruned(s, pruned), granted |-> 0, err |-> TRUE]
    ELSE [s |-> pruned, err |-> FALSE,
          granted |-> Lesser(target, Minus(MaxTotalBytes, pruned.total))]
PrepareAppendCapacity(s, id, want, io) ==
    LET room == Minus(MaxBundleBytes, AccountedBytes(s.bundles[Position(s, id)]))
        target == Lesser(want, room)
    IN Grant(s, PruneUntilTotalCapacity(s, id, target), target, io)

\* record_append, record_file_replace, record_file_removal.
RecordBytes(s, id, plus, less) ==
    [s EXCEPT !.bundles[Position(s, id)].bytes = Minus(@ + plus, less),
              !.total = Minus(@ + plus, less)]

ReserveEventsLogBytes(s, id, n) ==
    [s EXCEPT !.bundles[Position(s, id)].reserved = @ + n, !.total = @ + n]

\* The files of a bundle after a write, of n bytes, to one of them.
WithFiles(s, id, d) == [s EXCEPT !.disk[id] = d]
TextFile(d, item, n) == [d EXCEPT !.text = Append(@, [item |-> item.id, n |-> n])]
HistoryFile(d, item, n) == [d EXCEPT !.history = Append(@, [item |-> item.id, n |-> n])]
AliasFile(d, number, n) ==
    [d EXCEPT !.alias = IF number \in DOMAIN @ THEN [@ EXCEPT ![number] = n] ELSE Append(@, n)]
LogFile(d, rows, n) == [d EXCEPT !.hasLog = TRUE, !.log = @ \o rows, !.logBytes = @ + n]

\* Mutant: the index is charged again for the bytes reserved for it.
AppendEventsLog_recharged(s, id, rows, n) ==
    LET i == Position(s, id)
    IN [s EXCEPT !.bundles[i].bytes = @ + n,
                 !.total = @ + n,
                 !.disk[id] = LogFile(@, rows, n)]

\* append_events_log_bytes: reserved bytes are used up first.
AppendEventsLog(s, id, rows, n) ==
    LET i == Position(s, id)
        consumed == Lesser(n, s.bundles[i].reserved)
    IN [s EXCEPT !.bundles[i].reserved = @ - consumed,
                 !.bundles[i].bytes = @ + n,
                 !.total = @ + (n - consumed),
                 !.disk[id] = LogFile(@, rows, n)]

-----------------------------------------------------------------------------
(* ActiveOutputBundle.  An append threads a record: the store s, the       *)
(* bundle b, the items kept so far, whether this reply omitted something,  *)
(* and err once an operation returned an error, after which nothing runs.  *)

HasLog(a) == a.s.disk[a.b.id].hasLog
HasText(b) == b.text > 0

\* A file operation of an append failed, and the append with it: s accounts
\* for the operations before it, d also holds what it wrote itself.
Torn(a, s, d) ==
    [a EXCEPT !.s = WithFiles(s, a.b.id, [d EXCEPT !.torn = TRUE]), !.err = TRUE]

\* Mutant: the first image's row is lost when the index is written late.
HeldRows_skipsfirst(b) ==
    IF HasText(b) THEN <<[row |-> "T", from |-> 0, to |-> b.text]>>
    ELSE [k \in 1 .. Minus(b.preIndex, 1) |-> [row |-> "I", image |-> k + 1]]

\* What a bundle without an index holds: one run of text, or images only.
HeldRows(b) ==
    IF HasText(b) THEN <<[row |-> "T", from |-> 0, to |-> b.text]>>
    ELSE [k \in 1 .. b.preIndex |-> [row |-> "I", image |-> k]]

\* The rows of a late index that its first n bytes hold whole.
WholeRows(rows, n) == SubSeq(rows, 1, Lesser(Len(rows), Minus(n, Header) \div Row))

\* materialize_events_log: rows for what the bundle already holds, written to
\* the index after it was created empty.
WriteEventsLog(a, b, cap, held, n, need, item, io) ==
    IF cap.err \/ cap.granted < need \/ Fails(io, "index file", item)
    THEN [a EXCEPT !.s = cap.s, !.b = b, !.err = TRUE]
    ELSE IF Fails(io, "index", item)
    THEN Torn(a, cap.s, LogFile(cap.s.disk[b.id], WholeRows(held, CutOf(io, n)), CutOf(io, n)))
    ELSE [a EXCEPT !.b = [b EXCEPT !.preIndex = 0],
                   !.s = AppendEventsLog(cap.s, b.id,
                             held \o (IF b.omitted THEN <<[row |-> "S"]>> ELSE <<>>), n)]
MaterializeEventsLog(a, item, io) ==
    LET held == HeldRows(a.b)
        n == Header + Row * Len(held) + (IF a.b.omitted THEN OmissionLine ELSE 0)
        need == Minus(n, a.s.bundles[Position(a.s, a.b.id)].reserved)
    IN IF a.err \/ HasLog(a) THEN a
       ELSE WriteEventsLog(a, [a.b EXCEPT !.recorded = @ \/ a.b.omitted],
                           PrepareAppendCapacity(a.s, a.b.id, need, io),
                           held, n, need, item, io)

\* apply_omission with append_events_log_text.
RecordOmission(a, cap, item, io) ==
    IF cap.err THEN [a EXCEPT !.s = cap.s, !.err = TRUE]
    ELSE IF cap.granted < OmissionLine THEN [a EXCEPT !.s = cap.s]
    ELSE IF Fails(io, "notice", item)
    THEN Torn(a, cap.s, LogFile(cap.s.disk[a.b.id], <<>>, CutOf(io, OmissionLine)))
    ELSE [a EXCEPT !.b.recorded = TRUE,
                   !.s = AppendEventsLog(cap.s, a.b.id, <<[row |-> "S"]>>, OmissionLine)]
ApplyOmission(a, visible, item, io) ==
    LET omitted == [a EXCEPT !.b.omitted = TRUE, !.b.omittedVisible = @ \/ visible]
    IN IF a.err THEN a
       ELSE IF a.b.recorded \/ ~HasLog(a) THEN omitted
       ELSE RecordOmission(omitted, PrepareAppendCapacity(a.s, a.b.id, OmissionLine, io),
                           item, io)

\* What reply-visible content after a text is kept room for.
ReplyVisibleReserve(i) ==
    CASE i.kind = "text" /\ i.visible -> i.n + RowOverhead
      [] i.kind = "image" -> 2 * i.n + RowOverhead + Header + OmissionLine
      [] OTHER -> 0
ReplyVisibleBundleReserve(items) == SumOf([i \in DOMAIN items |-> ReplyVisibleReserve(items[i])])

\* The result of the shrinking loop of append_worker_text_with_visibility:
\* all of n when it fits, else what the row and the reserve leave, or nothing.
RetainedText(n, granted, reserve, omission) ==
    IF n + Row + Minus(reserve, omission) <= granted THEN n
    ELSE Minus(granted, Row + reserve)

Keep(a, item, n) ==
    [a EXCEPT !.kept = Append(@, [item EXCEPT !.n = n]),
              !.order = Append(@, item.id)]

\* append_worker_text_with_visibility, with the capacity it was granted: the
\* transcript and, where there is an index, its row.
StoreText(a, item, cap, n, io) ==
    LET id == a.b.id
        d == cap.s.disk[id]
        row == [row |-> "T", from |-> a.b.text, to |-> a.b.text + n]
        charged == RecordBytes(cap.s, id, n, 0)
        written == WithFiles(charged, id, TextFile(d, item, n))
        Done(s) == Keep([a EXCEPT !.s = s, !.b.text = @ + n, !.dropped = @ \/ n < item.n],
                        item, n)
    IN IF Fails(io, "content", item) THEN Torn(a, cap.s, TextFile(d, item, CutOf(io, n)))
       ELSE IF ~HasLog(a) THEN Done(written)
       ELSE IF Fails(io, "row", item)
       THEN Torn(a, charged, LogFile(TextFile(d, item, n), <<>>, CutOf(io, Row)))
       ELSE Done(AppendEventsLog(written, id, <<row>>, Row))
FitText(a, item, cap, n, io) ==
    IF cap.err THEN [a EXCEPT !.s = cap.s, !.err = TRUE]
    ELSE IF n = 0
    THEN ApplyOmission([a EXCEPT !.s = cap.s, !.dropped = TRUE], item.visible, item, io)
    ELSE IF n < item.n
    THEN ApplyOmission(StoreText(a, item, cap, n, io), item.visible, item, io)
    ELSE StoreText(a, item, cap, n, io)
GrantText(a, item, cap, after, omission, io) ==
    FitText(a, item, cap, RetainedText(item.n, cap.granted, after + omission, omission), io)
AppendWorkerTextWithVisibility(a, item, after, io) ==
    LET omission == IF ~a.b.recorded /\ HasLog(a) THEN OmissionLine ELSE 0
    IN IF a.err THEN a
       ELSE GrantText(a, item,
                      PrepareAppendCapacity(a.s, a.b.id,
                                            item.n + RowOverhead + after + omission, io),
                      after, omission, io)

\* append_worker_text_item: an index first, where text and images mix.
AppendWorkerText(a, item, after, io) ==
    LET indexFirst == /\ ~HasLog(a)
                      /\ \/ a.b.images > 0
                         \/ a.b.omitted /\ ~a.b.recorded /\ item.visible
    IN AppendWorkerTextWithVisibility(IF indexFirst
                                      THEN MaterializeEventsLog(a, item, io) ELSE a,
                                      item, after, io)

\* append_image: a history file, the alias of the latest version, and a row
\* or, before there is an index, a reservation for one.  TRUE in `fits` when
\* the quota had room.
\* The image files are written one by one; the old alias is removed first when
\* the new version has another type, and truncated when it has not.
AppendImageFiles(a, item, cap, number, old, index, io) ==
    LET id == a.b.id
        d == cap.s.disk[id]
        history == HistoryFile(d, item, item.n)
        charged == RecordBytes(cap.s, id, 2 * item.n, old)
        written == WithFiles(charged, id, AliasFile(history, number, item.n))
        row == [row |-> "I", image |-> Len(a.s.disk[id].history) + 1]
        Done(s, held) == Keep([a EXCEPT !.s = s,
                                        !.b = [a.b EXCEPT !.images = number, !.current = item.img,
                                                          !.preIndex = held]], item, item.n)
    IN IF Fails(io, "content", item) THEN Torn(a, cap.s, HistoryFile(d, item, CutOf(io, item.n)))
       ELSE IF Fails(io, "old alias", item) THEN Torn(a, RecordBytes(cap.s, id, item.n, 0), history)
       ELSE IF Fails(io, "alias", item)
       THEN Torn(a, RecordBytes(cap.s, id, item.n, 0),
                 AliasFile(history, number, CutOf(io, item.n)))
       ELSE IF Fails(io, "new alias", item)
       THEN Torn(a, RecordBytes(cap.s, id, item.n, old),
                 AliasFile(history, number, CutOf(io, item.n)))
       ELSE IF ~HasLog(a) THEN Done(ReserveEventsLogBytes(written, id, index), a.b.preIndex + 1)
       ELSE IF Fails(io, "row", item)
       THEN Torn(a, charged, LogFile(AliasFile(history, number, item.n), <<>>, CutOf(io, Row)))
       ELSE Done(AppendEventsLog(written, id, <<row>>, Row), a.b.preIndex)
StoreImage(a, item, cap, number, old, index, need, io) ==
    IF cap.err THEN [fits |-> TRUE, a |-> [a EXCEPT !.s = cap.s, !.err = TRUE]]
    ELSE IF cap.granted < need THEN [fits |-> FALSE, a |-> [a EXCEPT !.s = cap.s]]
    ELSE [fits |-> TRUE, a |-> AppendImageFiles(a, item, cap, number, old, index, io)]
FitImage(a, item, io) ==
    LET number == IF a.b.current = item.img THEN a.b.images ELSE a.b.images + 1
        alias == a.s.disk[a.b.id].alias
        old == IF number \in DOMAIN alias THEN alias[number] ELSE 0
        index == Row + (IF ~HasLog(a) /\ a.b.preIndex = 0 THEN Header ELSE 0)
        need == item.n + Minus(item.n, old) + index
    IN IF a.err THEN [fits |-> TRUE, a |-> a]
       ELSE StoreImage(a, item, PrepareAppendCapacity(a.s, a.b.id, need, io),
                       number, old, index, need, io)
AppendImage(a, item, io) ==
    FitImage(IF HasText(a.b) /\ ~HasLog(a) THEN MaterializeEventsLog(a, item, io) ELSE a, item, io)

\* What append_items does with an image that fits and with one that does not.
AppendedImage(a, item, image, io) ==
    IF image.fits THEN image.a
    ELSE IF a.b.omitted
    THEN ApplyOmission([image.a EXCEPT !.kept = Append(@, item), !.dropped = TRUE], FALSE,
                       item, io)
    ELSE ApplyOmission([image.a EXCEPT !.dropped = TRUE], TRUE, item, io)

\* append_items for the first of the items left.
AppendItem(a, item, rest, io) ==
    CASE a.err -> a
      [] ~a.err /\ item.kind = "server" -> [a EXCEPT !.kept = Append(@, item)]
      [] ~a.err /\ item.kind = "text" ->
           IF a.b.omitted /\ (~item.visible \/ a.b.omittedVisible) THEN a
           ELSE AppendWorkerText(a, item,
                                 IF item.visible /\ ~a.b.omitted THEN 0
                                 ELSE ReplyVisibleBundleReserve(rest), io)
      [] ~a.err /\ item.kind = "image" ->
           IF a.b.omitted /\ a.b.omittedVisible THEN a
           ELSE AppendedImage(a, item, AppendImage(a, item, io), io)

AppendAll(a, items, io) ==
    LET done[k \in 0 .. Len(items)] ==
            IF k = 0 THEN a
            ELSE AppendItem(done[k - 1], items[k], SubSeq(items, k + 1, Len(items)), io)
    IN done[Len(items)]

AppendItems(s, b, items, io) ==
    AppendAll([s |-> s, b |-> b, kept |-> <<>>, order |-> <<>>,
               dropped |-> FALSE, err |-> FALSE], items, io)
=============================================================================
