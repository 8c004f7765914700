---------------------------- MODULE OutputBundles ----------------------------
(***************************************************************************)
(* The response finalizer of server/response.rs (ResponseState), driven by *)
(* the tool calls of server.rs.  A reply that is too large is written to   *)
(* an output bundle.  A request that timed out keeps its output together   *)
(* across polls: first as staged items and, once it grows too large, in    *)
(* one bundle that later polls append to.                                  *)
(*                                                                         *)
(* A reply is finalized under the server's state lock, so one action is    *)
(* one whole call.  What a reply shows is the set of items it shows whole, *)
(* and its notices: the bundle each names (0: "output bundle unavailable") *)
(* and whether it says that later content was omitted.                     *)
(***************************************************************************)
EXTENDS OutputStore, SequencesExt

CONSTANTS SpillChars,  \* INLINE_TEXT_HARD_SPILL_THRESHOLD
          Segments,    \* the item sequences a reply may hold
          Detached,    \* and those a detached prefix may hold
          IoFaults,    \* the faults a call may meet, `at` a place in a reply
          MaxCalls, MaxFaults

\* An item, with the identity of its image: 0 stands for none.
Shapes == {i \in [kind : {"text", "image", "server"}, n : Nat \ {0}, visible : BOOLEAN,
                  img : Nat] : i.kind = "image" => i.img # 0}
ASSUME SegmentAssumption ==
    /\ Segments \cup Detached \subseteq Seq(Shapes)
    /\ \A io \in IoFaults : io.cut \in Nat
    /\ {SpillChars, MaxCalls, MaxFaults} \subseteq Nat

VARIABLES store,    \* ResponseState.output_store
          active,   \* ResponseState.active_timeout_bundle
          staged,   \* ResponseState.staged_timeout_output
          pending,  \* whether a timed-out request is pending in the worker
          reply,    \* the last reply and the items it had to account for
          request,  \* history: worker items of the pending request
          order,    \* history: per bundle, the items it retained, in order
          disclosed,\* history: the bundles some reply named
          stuck,    \* history: a directory could not be removed
          calls, faults

vars == <<store, active, staged, pending, reply, request, order, disclosed,
          stuck, calls, faults>>

NoBundle == FreshBundle(0)
NoReply == [items |-> <<>>, shown |-> {}, notices |-> {}]

TextShouldSpill(chars) == chars > SpillChars
ShouldUseOutputBundle(images, chars) == images >= ImageThreshold \/ TextShouldSpill(chars)
NeedsBundle(images, chars) == (images > 0 /\ ShouldUseOutputBundle(images, chars))
                              \/ TextShouldSpill(chars)

IsWorker(i) == i.kind # "server"
RetainedItems(items) ==
    LET retained[k \in 0 .. Len(items)] ==
            IF k = 0 THEN <<>>
            ELSE IF IsWorker(items[k]) THEN Append(retained[k - 1], items[k]) ELSE retained[k - 1]
    IN retained[Len(items)]
Ids(items) == {items[i].id : i \in DOMAIN items}

-----------------------------------------------------------------------------
(* Rendering.                                                              *)

\* collapse_image_updates: of consecutive versions of an image, the last.
CollapseImageUpdates(items) ==
    LET Superseded(i) == \E j \in DOMAIN items :
            /\ j > i /\ items[j].kind = "image" /\ items[j].img = items[i].img
            /\ \A k \in i + 1 .. j : items[k].kind = "image" => items[k].img = items[i].img
    IN SelectSeq([i \in DOMAIN items |->
                    IF items[i].kind = "image" /\ Superseded(i)
                    THEN [items[i] EXCEPT !.kind = "none"] ELSE items[i]],
                 LAMBDA x : x.kind # "none")

Contents(shown, notices) == [shown |-> shown, notices |-> notices]
Join(c, d) == Contents(c.shown \cup d.shown, c.notices \cup d.notices)
Notice(b) == [bundle |-> b.id, omitted |-> b.omitted]
Unavailable == [bundle |-> 0, omitted |-> FALSE]
ImageIds(items) == {items[i].id : i \in {j \in DOMAIN items : items[j].kind = "image"}}
FirstLast(S) == {x \in S : (\A y \in S : x <= y) \/ (\A y \in S : x >= y)}

\* materialize_items: everything reply-visible, merged by stream.
MaterializeItems(items) == Contents(Ids(SelectSeq(items, LAMBDA i : i.visible)), {})

\* compact_text_bundle_items, compact_text_without_bundle_items: a preview of
\* the text with the path, images and notices inline.
CompactText(items, notice) == Contents(ImageIds(items), {notice})

\* compact_output_bundle_items, compact_output_without_bundle_items: pieces of
\* text around the first and the last image.
CompactOutputBundle(s, b) ==
    Contents(FirstLast({s.disk[b.id].history[i].item :
                           i \in DOMAIN s.disk[b.id].history}), {Notice(b)})
CompactOutputWithoutBundle(items) == Contents(FirstLast(ImageIds(items)), {Unavailable})

\* Mutant: a reply whose content was cut only shows what was kept.
CompactOmittedBundle_silent(s, b, kept) == MaterializeItems(kept)

CompactOmittedBundle(s, b, kept) ==
    IF b.images > 0 THEN CompactOutputBundle(s, b)
    ELSE IF CountImages(kept) >= ImageThreshold
         THEN Join(CompactOutputWithoutBundle(kept), Contents({}, {Notice(b)}))
         ELSE CompactText(kept, Notice(b))

CompactItemsWithoutOutputBundle(items) ==
    LET inline == CollapseImageUpdates(items)
    IN IF CountImages(items) > 0 /\ ShouldUseOutputBundle(CountImages(items), TextChars(items))
       THEN CompactOutputWithoutBundle(items)
       ELSE IF TextShouldSpill(TextChars(items)) THEN CompactText(inline, Unavailable)
       ELSE MaterializeItems(inline)

\* render_active_bundle_contents: append, then choose what to show.
RenderAppended(a, items, chars) ==
    LET images == CountImages(a.kept)
        stillNeeded == /\ a.b.images > 0
                       /\ ShouldUseOutputBundle(Len(a.s.disk[a.b.id].history), chars)
        workerKept == \E i \in DOMAIN a.kept : IsWorker(a.kept[i])
        inline == MaterializeItems(CollapseImageUpdates(items))
        Shown(named, c) == [s |-> a.s, b |-> [a.b EXCEPT !.disclosed = @ \/ named],
                            err |-> a.err, order |-> a.order, contents |-> c]
    IN IF a.err THEN Shown(FALSE, Contents({}, {}))
       ELSE IF a.dropped THEN Shown(TRUE, CompactOmittedBundle(a.s, a.b, a.kept))
       ELSE IF a.b.omitted /\ a.b.images = 0 /\ images >= ImageThreshold
            THEN Shown(FALSE, CompactOutputWithoutBundle(a.kept))
       ELSE IF images > 0 /\ stillNeeded THEN Shown(TRUE, CompactOutputBundle(a.s, a.b))
       ELSE IF TextShouldSpill(chars) THEN Shown(TRUE, CompactText(a.kept, Notice(a.b)))
       ELSE IF a.b.disclosed /\ stillNeeded /\ a.kept # <<>>
            THEN Shown(TRUE, IF workerKept THEN Join(inline, Contents({}, {Notice(a.b)}))
                             ELSE CompactOutputBundle(a.s, a.b))
       ELSE Shown(FALSE, inline)
RenderActiveBundle(s, b, items, chars, io) ==
    RenderAppended(AppendItems(s, b, items, io), items, chars)

-----------------------------------------------------------------------------
(* ResponseState.  A finalization threads r: the store, the retained       *)
(* active bundle and staged items, the contents, and the retained order.   *)

\* Mutant: a bundle the client was told of goes as well.
FinishBundle_named(s, b, io) ==
    IF b.id = 0 THEN s ELSE RemoveUnlessFails(s, b.id, io)

FinishBundle(s, b, io) ==
    IF b.id = 0 \/ b.disclosed THEN s ELSE RemoveUnlessFails(s, b.id, io)

AddOrder(r, id, ids) ==
    [k \in DOMAIN r \cup {id} |-> (IF k \in DOMAIN r THEN r[k] ELSE <<>>) \o
                                   (IF k = id THEN ids ELSE <<>>)]

Result(s, act, stg, contents, ord, protected) ==
    [s |-> s, active |-> act, staged |-> stg, contents |-> contents, order |-> ord,
     protected |-> protected, prefixOnly |-> FALSE]

\* The bundle b after a successful render: retained or finished.
Retain(x, keep, ord, io) ==
    IF keep THEN Result(x.s, x.b, <<>>, x.contents, AddOrder(ord, x.b.id, x.order), 0)
    ELSE Result(FinishBundle(x.s, x.b, io), NoBundle, <<>>, x.contents,
                AddOrder(ord, x.b.id, x.order), 0)

\* Mutant: a new bundle is started without the staged items.
MaterializeStaged_empty(s, stg, protected, io) ==
    LET new == NewBundle(s, protected, io)
    IN [s |-> new.s, b |-> new.b, kept |-> <<>>, order |-> <<>>, err |-> new.err]

\* materialize_staged_timeout_output.
NotStaged(s) == [s |-> s, b |-> NoBundle, kept |-> <<>>, order |-> <<>>, err |-> TRUE]
StagedWritten(a, io) ==
    IF a.err THEN NotStaged(FinishBundle(a.s, a.b, io))
    ELSE [s |-> a.s, b |-> a.b, kept |-> a.kept, order |-> a.order, err |-> FALSE]
StageInto(new, stg, io) ==
    IF new.err THEN NotStaged(new.s)
    ELSE StagedWritten(AppendItems(new.s, new.b, stg, io), io)
MaterializeStaged(s, stg, protected, io) == StageInto(NewBundle(s, protected, io), stg, io)

\* compact_reply_items_with_new_bundle: a bundle for this reply only.
CompactWithoutNew(s, items, textOnly, ord) ==
    Result(s, NoBundle, <<>>,
           IF textOnly THEN CompactText(CollapseImageUpdates(items), Unavailable)
           ELSE CompactOutputWithoutBundle(CollapseImageUpdates(items)), ord, 0)
CompactWritten(a, items, textOnly, ord, io) ==
    IF a.err
    THEN CompactWithoutNew(RemoveUnlessFails(a.s, a.b.id, io), items, textOnly, ord)
    ELSE Result(a.s, NoBundle, <<>>,
                IF textOnly THEN CompactText(a.kept, Notice(a.b))
                ELSE IF a.dropped THEN CompactOmittedBundle(a.s, a.b, a.kept)
                ELSE CompactOutputBundle(a.s, a.b), AddOrder(ord, a.b.id, a.order), 0)
CompactInto(new, items, textOnly, ord, io) ==
    IF new.err THEN CompactWithoutNew(new.s, items, textOnly, ord)
    ELSE CompactWritten(AppendItems(new.s, new.b, items, io), items, textOnly, ord, io)
CompactWithNewBundle(s, items, textOnly, protected, ord, io) ==
    CompactInto(NewBundle(s, protected, io), items, textOnly, ord, io)

RenderReplyItems(s, items, protected, ord, io) ==
    LET images == CountImages(items)
        mixed == images > 0 /\ ShouldUseOutputBundle(images, TextChars(items))
    IN IF mixed \/ TextShouldSpill(TextChars(items))
       THEN CompactWithNewBundle(s, items, ~mixed, protected, ord, io)
       ELSE Result(s, NoBundle, <<>>, MaterializeItems(CollapseImageUpdates(items)), ord, 0)

\* After a render in a bundle: it is kept or finished, or all is compacted.
Rendered(x, all, keep, ord, io) ==
    IF x.err THEN Result(FinishBundle(x.s, x.b, io), NoBundle, <<>>,
                         CompactItemsWithoutOutputBundle(all), ord, 0)
    ELSE Retain(x, keep, ord, io)

\* The items go to the bundle m that was just made for earlier ones, or for
\* them.
RenderInto(m, items, all, chars, keep, ord, io) ==
    IF m.err THEN Result(m.s, NoBundle, <<>>, CompactItemsWithoutOutputBundle(all), ord, 0)
    ELSE Rendered(RenderActiveBundle(m.s, m.b, items, chars, io), all, keep,
                  AddOrder(ord, m.b.id, m.order), io)

\* render_timeout_reply_segment.
RenderTimeoutReplySegment(s, items, timeout, protected, keep, act, stg, ord, io) ==
    LET chars == TextChars(stg) + TextChars(items)
        spills == NeedsBundle(CountImages(stg) + CountImages(items), chars)
    IN IF act.id # 0
       THEN Rendered(RenderActiveBundle(s, act, items, TextChars(items), io), items, keep, ord, io)
       ELSE IF stg = <<>> /\ ~timeout THEN RenderReplyItems(s, items, protected, ord, io)
       ELSE IF ~spills
       THEN Result(s, NoBundle, IF keep THEN stg \o RetainedItems(items) ELSE <<>>,
                   MaterializeItems(CollapseImageUpdates(items)), ord, 0)
       ELSE RenderInto(MaterializeStaged(s, stg, protected, io), items, stg \o items, chars,
                       keep, ord, io)

\* render_follow_up_detached_prefix_with_active_bundle.
PrefixRendered(x, prefix, ord, io) ==
    LET protected == IF x.b.disclosed THEN x.b.id ELSE 0
    IN IF x.err
       THEN Result(FinishBundle(x.s, x.b, io), NoBundle, <<>>,
                   CompactItemsWithoutOutputBundle(prefix), ord, protected)
       ELSE Result(x.s, x.b, <<>>, x.contents, AddOrder(ord, x.b.id, x.order), protected)
RenderPrefixWithActive(s, act, prefix, chars, ord, io) ==
    PrefixRendered(RenderActiveBundle(s, act, prefix, chars, io), prefix, ord, io)

\* render_follow_up_detached_prefix.
PrefixInStaged(m, prefix, stg, chars, ord, io) ==
    IF m.err THEN Result(m.s, NoBundle, <<>>,
                         CompactItemsWithoutOutputBundle(stg \o prefix), ord, 0)
    ELSE RenderPrefixWithActive(m.s, m.b, prefix, chars, AddOrder(ord, m.b.id, m.order), io)
PrefixOnly(m, prefix, mixed, ord) ==
    LET b == [m.b EXCEPT !.disclosed = TRUE]
    IN IF m.err THEN Result(m.s, NoBundle, <<>>, CompactItemsWithoutOutputBundle(prefix), ord, 0)
       ELSE [Result(m.s, b, <<>>,
                    IF mixed THEN CompactOutputBundle(m.s, b) ELSE CompactText(m.kept, Notice(b)),
                    AddOrder(ord, b.id, m.order), b.id) EXCEPT !.prefixOnly = TRUE]
RenderDetachedPrefix(s, act, stg, prefix, items, ord, io) ==
    LET counted == IF prefix = <<>> THEN <<>> ELSE items
        images == CountImages(stg) + CountImages(prefix) + CountImages(counted)
        chars == TextChars(stg) + TextChars(prefix) + TextChars(counted)
        mixed == images > 0 /\ ShouldUseOutputBundle(images, chars)
    IN IF act.id # 0
       THEN RenderPrefixWithActive(s, act, prefix, TextChars(prefix), ord, io)
       ELSE IF ~mixed /\ ~TextShouldSpill(chars)
       THEN Result(s, NoBundle, IF stg = <<>> THEN <<>> ELSE stg \o RetainedItems(prefix),
                   MaterializeItems(CollapseImageUpdates(prefix)), ord, 0)
       ELSE IF stg # <<>>
       THEN PrefixInStaged(MaterializeStaged(s, stg, 0, io), prefix, stg, chars, ord, io)
       ELSE PrefixOnly(MaterializeStaged(s, prefix, 0, io), prefix, mixed, ord)

ServerOnly(items) == \A i \in DOMAIN items : ~IsWorker(items[i])

\* finalize_follow_up_reply: the prefix (p) goes to the earlier request's
\* bundle, the reply proper (q) gets its own.
FollowUpReply(p, q, items, timeout, keep, io) ==
    LET drop == keep /\ ServerOnly(items)
        s == IF drop THEN FinishBundle(q.s, q.active, io) ELSE q.s
        act == IF drop THEN NoBundle ELSE q.active
        stg == IF drop THEN <<>> ELSE q.staged
        takeBundle == /\ act.id = 0 /\ stg = <<>> /\ keep
                      /\ ServerOnly(items) \/ (~p.prefixOnly /\ ~timeout)
    IN Result(IF takeBundle THEN s ELSE FinishBundle(s, p.active, io),
              IF takeBundle THEN p.active ELSE act,
              IF takeBundle /\ ~p.prefixOnly THEN p.staged ELSE stg,
              Join(p.contents, q.contents), q.order, 0)

\* finalize_reply_with_spilled_detached_prefix.
SpilledPrefixReply(p, q, io) ==
    Result(FinishBundle(q.s, p.active, io), q.active, q.staged,
           Join(p.contents, q.contents), q.order, 0)

\* Both render the reply proper after the prefix, keeping its bundle.
JoinPrefix(p, q, spilled, items, timeout, keep, io) ==
    IF spilled THEN SpilledPrefixReply(p, q, io)
    ELSE FollowUpReply(p, q, items, timeout, keep, io)
AfterPrefix(p, spilled, items, timeout, keep, io) ==
    JoinPrefix(p, RenderTimeoutReplySegment(p.s, items, timeout, p.protected, keep, NoBundle,
                                            <<>>, p.order, io),
               spilled, items, timeout, keep, io)

ShouldSpillDetachedPrefixOnly(prefix, items) ==
    /\ prefix # <<>> /\ CountImages(prefix) = 0 /\ TextShouldSpill(TextChars(prefix))
    /\ ~ShouldUseOutputBundle(CountImages(items), TextChars(items))

\* finalize_reply.
FinalizeReply(reuse, prefix, items, timeout, keep, io) ==
    LET fresh == reuse = "none"
        s == IF fresh THEN FinishBundle(store, active, io) ELSE store
        act == IF fresh THEN NoBundle ELSE active
        stg == IF fresh THEN <<>> ELSE staged
        spilled == /\ reuse # "follow_up" /\ act.id = 0 /\ stg = <<>>
                   /\ ShouldSpillDetachedPrefixOnly(prefix, items)
    IN IF reuse = "follow_up" \/ spilled
       THEN AfterPrefix(RenderDetachedPrefix(s, act, stg, prefix, items, order, io), spilled,
                        items, timeout, keep, io)
       ELSE RenderTimeoutReplySegment(s, prefix \o items, timeout, 0, keep, act, stg,
                                      order, io)

-----------------------------------------------------------------------------
(* The calls of server.rs.                                                 *)

Init ==
    /\ store = EmptyStore
    /\ active = NoBundle
    /\ staged = <<>>
    /\ pending = FALSE
    /\ reply = NoReply
    /\ request = <<>>
    /\ order = <<>>
    /\ disclosed = {}
    /\ stuck = FALSE
    /\ calls = 0
    /\ faults = 0

\* Items of this call get fresh identities, in order.
Number(seg, from) ==
    [i \in DOMAIN seg |-> [kind |-> seg[i].kind, n |-> seg[i].n, img |-> seg[i].img,
                           visible |-> seg[i].visible, id |-> 10 * calls + from + i]]
At(io) == {id \in Ids(staged) \cup {10 * calls + io.at} : id % 10 = io.at}
Faults ==
    {NoFault} \cup (IF faults = MaxFaults THEN {}
                    ELSE UNION {[ops : {io.ops}, at : At(io), cut : {io.cut}] : io \in IoFaults})
CountFault(io) == faults' = IF io = NoFault THEN faults ELSE faults + 1
Status == <<[kind |-> "server", n |-> 1, visible |-> TRUE, img |-> 0]>>

\* finalize_visible_reply in files mode; when the worker was respawned during
\* the call, the bundle disclosed before it is retired afterwards.
Finalize(reuse, prefix, items, timeout, after, respawned, io) ==
    /\ calls < MaxCalls
    /\ calls' = calls + 1
    /\ \E r \in {FinalizeReply(reuse, prefix, items, timeout, after, io)} :
          /\ store' = r.s
          /\ active' = IF respawned /\ active.disclosed /\ r.active.id = active.id
                       THEN NoBundle ELSE r.active
          /\ staged' = r.staged
          /\ reply' = [items |-> prefix \o items, shown |-> r.contents.shown,
                       notices |-> r.contents.notices]
          /\ order' = r.order
          /\ disclosed' = disclosed \cup ({n.bundle : n \in r.contents.notices} \ {0})
    /\ pending' = after
    /\ CountFault(io)
    /\ stuck' = (stuck \/ "remove" \in io.ops)

Kept(items) == IF active'.id = 0 /\ staged' = <<>> THEN <<>> ELSE RetainedItems(items)

\* An empty call, or a lone Ctrl-C, while a request is pending.
Poll == \E seg \in Segments, done \in BOOLEAN, io \in Faults,
           respawned \in BOOLEAN :
    LET items == Number(IF done THEN seg ELSE seg \o Status, 0)
    IN /\ pending
       /\ respawned => done /\ active.disclosed
       /\ Finalize("full", <<>>, items, ~done, ~done, respawned, io)
       /\ request' = Kept(request \o items)

\* An empty call while nothing is pending: idle output, or the idle status.
IdlePoll == \E seg \in Segments, io \in Faults :
    /\ ~pending
    /\ Finalize("full", <<>>, Number(IF seg = <<>> THEN Status ELSE seg, 0), FALSE, FALSE,
                FALSE, io)
    /\ request' = <<>>

\* Input that is refused because the pending request is still running; what
\* it drained is the detached prefix.  The request may settle meanwhile.
BusyFollowUp == \E seg \in Segments, done \in BOOLEAN, io \in Faults :
    LET prefix == Number(IF done THEN seg ELSE seg \o Status, 0)
    IN /\ pending
       /\ Finalize("follow_up", prefix, Number(Status, 5), ~done, ~done, FALSE, io)
       /\ request' = Kept(request \o prefix)

\* Input that is accepted: fresh, or a Ctrl-C followed by input.
Input == \E seg \in Segments, prefix \in Detached, done \in BOOLEAN, io \in Faults,
            respawned \in BOOLEAN :
    LET items == Number(IF done THEN seg ELSE seg \o Status, 5)
    IN /\ respawned => active.disclosed
       /\ Finalize("follow_up", Number(prefix, 0), items, ~done, ~done, respawned, io)
       /\ request' = Kept(items)

\* Ctrl-D, alone or followed by input.
Restart == \E seg \in Segments, done \in BOOLEAN, io \in Faults :
    LET items == Number(seg \o Status, 0)
    IN /\ Finalize("none", <<>>, items, ~done, ~done, TRUE, io)
       /\ request' = Kept(items)

\* A worker respawned for the policy of a call, before its input is written
\* (retire_disclosed_timeout_bundle).
RetireDisclosedTimeoutBundle ==
    /\ active.disclosed
    /\ active' = NoBundle
    /\ pending' = FALSE
    /\ request' = <<>>
    /\ UNCHANGED <<store, staged, reply, order, disclosed, stuck, calls, faults>>

\* finalize_worker_result for an error (clear_active_timeout_bundle).
WorkerErrorResult == \E io \in Faults :
    /\ calls < MaxCalls
    /\ calls' = calls + 1
    /\ store' = FinishBundle(store, active, io)
    /\ CountFault(io)
    /\ stuck' = (stuck \/ "remove" \in io.ops)
    /\ active' = NoBundle
    /\ staged' = IF active.id # 0 /\ ~active.disclosed /\ "remove" \in io.ops THEN staged ELSE <<>>
    /\ pending' = FALSE
    /\ request' = <<>>
    /\ reply' = NoReply
    /\ UNCHANGED <<order, disclosed>>

Shutdown ==
    /\ calls < MaxCalls
    /\ calls' = MaxCalls
    /\ active' = NoBundle
    /\ staged' = <<>>
    /\ store' = [EmptyStore EXCEPT !.next = store.next]
    /\ pending' = FALSE
    /\ request' = <<>>
    /\ reply' = NoReply
    /\ UNCHANGED <<order, disclosed, stuck, faults>>

Next == \/ Poll \/ IdlePoll \/ BusyFollowUp \/ Input \/ Restart
        \/ RetireDisclosedTimeoutBundle \/ WorkerErrorResult \/ Shutdown

Spec == Init /\ [][Next]_vars

-----------------------------------------------------------------------------
(* Properties.                                                             *)

Entries == {store.bundles[i] : i \in DOMAIN store.bundles}
Total(seq) == SumOf([i \in DOMAIN seq |-> seq[i].n])
FilesOf(d) == Total(d.text) + Total(d.history) + SumOf(d.alias) + d.logBytes

\* What the store accounts for is what the files of a bundle hold, unless a
\* write in it failed; even then the bundle that stays is within its quota.
\* Neither what is accounted for a bundle, nor for all of them, nor their
\* number ever exceeds its limit, whatever was reserved for an index that was
\* or was not written.
QuotaKept ==
    /\ \A e \in Entries : LET d == store.disk[e.id] IN
          /\ d.gone \/ FilesOf(d) <= MaxBundleBytes
          /\ d.gone \/ d.torn \/ e.bytes = FilesOf(d)
          /\ AccountedBytes(e) <= MaxBundleBytes
    /\ store.total = SumOf([i \in DOMAIN store.bundles |-> AccountedBytes(store.bundles[i])])
    /\ store.total <= MaxTotalBytes
    /\ Len(store.bundles) <= MaxBundleCount

\* Every bundle a reply names is there, whole, when the reply is returned, and
\* so is the one that later polls append to (append_items expects its
\* metadata): neither pruning for another bundle nor the end of a request
\* takes it, and nothing is appended after a write or a removal failed.
Whole(s, id) == Stored(s, id) /\ ~s.disk[id].torn /\ ~s.disk[id].gone
NamedBundleExists ==
    /\ \A n \in reply.notices : n.bundle # 0 => Whole(store, n.bundle)
    /\ active.id # 0 => Whole(store, active.id)

\* The place of the last row of a kind among the first n, or 0.
LastRow(log, kind, n) ==
    LET places == {j \in 1 .. n : log[j].row = kind}
    IN IF places = {} THEN 0 ELSE CHOOSE j \in places : \A k \in places : k <= j
TextBefore(log, n) == IF LastRow(log, "T", n) = 0 THEN 0 ELSE log[LastRow(log, "T", n)].to
ImagesBefore(log, n) == IF LastRow(log, "I", n) = 0 THEN 0 ELSE log[LastRow(log, "I", n)].image

\* events.log is the ordered index of the bundle: its T rows tile the
\* transcript and its I rows list the image history, although the first ones
\* are written only once text and images mix.  It covers all of both, unless a
\* write failed: then it lists nothing that is not there.
Tiles(log) ==
    \A i \in DOMAIN log :
        /\ log[i].row = "T" => log[i].from = TextBefore(log, i - 1)
        /\ log[i].row = "I" => log[i].image = ImagesBefore(log, i - 1) + 1
Indexed(d) ==
    /\ Tiles(d.log)
    /\ TextBefore(d.log, Len(d.log)) = Total(d.text)
    /\ ImagesBefore(d.log, Len(d.log)) = Len(d.history)
PartlyIndexed(d) ==
    /\ Tiles(d.log)
    /\ TextBefore(d.log, Len(d.log)) <= Total(d.text)
    /\ ImagesBefore(d.log, Len(d.log)) <= Len(d.history)
IndexComplete ==
    \A e \in Entries : LET d == store.disk[e.id] IN
        d.hasLog /\ ~d.gone => IF d.torn THEN PartlyIndexed(d) ELSE Indexed(d)

\* The output of a pending request stays together, in order: what the polls
\* have received is the end of what is staged, or of what its bundle holds
\* unless that says that content was omitted.
RequestKeptTogether ==
    pending /\ request # <<>> =>
        \/ staged # <<>> /\ IsSuffix(request, staged)
        \/ active.omitted
        \/ /\ active.id # 0
           /\ IsSuffix([i \in DOMAIN request |-> request[i].id], order[active.id])

\* No reply-visible worker output disappears: an item of the reply is shown
\* whole, or is a superseded version of an image shown, or is retained by a
\* bundle the reply names, or the reply says that something was cut.
NothingLostSilently ==
    \A i \in DOMAIN reply.items :
        LET item == reply.items[i]
            Held(n) == /\ n.bundle \in DOMAIN order
                       /\ \E k \in DOMAIN order[n.bundle] : order[n.bundle][k] = item.id
        IN IsWorker(item) /\ item.visible =>
             \/ item.id \in reply.shown
             \/ \E n \in reply.notices : n.bundle = 0 \/ n.omitted \/ Held(n)
             \/ \E j \in DOMAIN reply.items :
                    /\ j > i /\ item.kind = "image" /\ reply.items[j].kind = "image"
                    /\ reply.items[j].img = item.img
=============================================================================
