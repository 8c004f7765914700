-------------------------------- MODULE Pager --------------------------------
(***************************************************************************)
(* The pager of one session: output that does not fit a page activates it, *)
(* and the client then pages, searches and seeks in its buffer while the   *)
(* worker may go on writing.  A reply is what one call shows: the offsets  *)
(* of the buffer whose text it holds, the offsets it says were shown       *)
(* before, and the hit of its search card.                                 *)
(***************************************************************************)
EXTENDS PagerSearch

CONSTANTS Outputs,       \* what the worker may write: [text, images]
          Inputs,        \* what the client may type: [head, n, unit]
          MatchLimit,    \* DEFAULT_MATCH_LIMIT
          MatchLimitMax, \* MAX_MATCH_LIMIT
          ContextMax,    \* MAX_MATCH_CONTEXT
          MaxOutputs,    \* bound on the worker's writes
          MaxCalls       \* bound on the client's calls

\* An image stands at its place in the text, and images come in order; only
\* the limit of a list may be left out.
ASSUME OutputAssumption ==
    \A out \in Outputs :
        /\ out.text \in Seq(STRING)
        /\ out.images \in Seq(0..Len(out.text))
        /\ \A i, j \in DOMAIN out.images : i <= j => out.images[i] <= out.images[j]
ASSUME InputAssumption ==
    /\ \A i \in Inputs : /\ i.n \in Int /\ (i.n >= 0 \/ i.head = "matches")
                         /\ i.head = "seek" => i.unit \in {"chars", "percent", "line"}
    /\ {MatchLimit, MatchLimitMax, ContextMax} \subseteq Nat

VARIABLES ring,   \* what the reply cursor has not consumed, and where it starts
          pager,  \* PagerState, or NoPager
          reply,  \* the last reply
          shown,  \* history: the offsets of the buffer whose text a reply has held
          cut,    \* history: the rest of the long lines that :hits has listed
          bounds  \* writes and calls so far

vars == <<ring, pager, reply, shown, cut, bounds>>

Text(t, i) == [text |-> t, images |-> i]
NoPager ==
    [active |-> FALSE, buffer |-> Text(<<>>, <<>>), sourceEnd |-> 0, cursor |-> 0,
     seen |-> {}, images |-> {}, emitted |-> NoSpan, session |-> NoSession,
     reseed |-> FALSE, viewed |-> {}]
NoReply ==
    [op |-> "none", n |-> 1, shown |-> {}, claimed |-> {}, card |-> NotFound,
     early |-> {}, span |-> <<0, 0>>, from |-> 0, between |-> FALSE, searched |-> FALSE]

Init ==
    /\ ring = [start |-> 0, text |-> <<>>, images |-> <<>>]
    /\ pager = NoPager /\ reply = NoReply /\ shown = {} /\ cut = {}
    /\ bounds = [outputs |-> 0, calls |-> 0]

Append2(b, text, images) ==
    Text(b.text \o text, b.images \o [k \in DOMAIN images |-> images[k] + Len(b.text)])

-----------------------------------------------------------------------------
(* What a command does: what it takes of the buffer, the session after it, *)
(* the offsets it adds to the view history, whether it may close the       *)
(* pager, whether it moves last_emitted, the card, the listed text and     *)
(* what of the listed lines does not fit the list.                         *)

Outcome(p, t, s) ==
    [take |-> t, session |-> s, views |-> t.shown, closes |-> PagesLeft(p.buffer, t.cursor) = 0,
     emits |-> TRUE, card |-> NotFound, listed |-> {}, cut |-> {}]
Keep(o) == [o EXCEPT !.closes = FALSE]
NoTake(p) == Taken(p.cursor, p.seen)

\* :next, :skip, :a and :tail.
NextPages(p, n) == Outcome(p, TakePages(p.buffer, p.cursor, p.seen, n), p.session)
Skip(p, n) ==
    LET o == Outcome(p, SkipPages(p.buffer, p.cursor, p.seen, n), p.session)
    IN [o EXCEPT !.closes = @ \/ p.cursor >= Length(p.buffer)]
ShowAll(p) == Outcome(p, TakeAll(p.buffer, p.cursor, p.seen), p.session)
TakeTail(p, n, unit) ==
    LET start == IF unit = "lines" THEN TailStartOfLines(p.buffer, n)
                 ELSE TailStart(p.buffer, p.cursor, Larger(1, n))
        o == Outcome(p, TakeTailFrom(p.buffer, p.cursor, p.seen, start), p.session)
    IN [o EXCEPT !.closes = TRUE]

\* render_search_card: the cursor goes to the line of the hit, unless the
\* client is on that line and before the hit.
Card(p, s) ==
    LET b == p.buffer
        hit == s.hits[s.current + 1]
        line == <<LineStartOf(b, hit), LineEndOf(b, hit)>>
        here == p.cursor \in Span(line)
        moves == ~here \/ hit < p.cursor
        range == IF here THEN NoSpan ELSE <<hit, hit + 1>>
        t == [NoTake(p) EXCEPT !.cursor = IF moves THEN line[1] ELSE @,
                            !.first = range, !.last = range]
    IN IF s.current >= Len(s.hits) THEN Keep(Outcome(p, NoTake(p), s))
       ELSE [Outcome(p, t, s) EXCEPT
                !.views = IF here THEN {} ELSE {hit}, !.closes = FALSE, !.emits = FALSE,
                !.card = hit, !.listed = SnippetWindow(b, hit)]

\* :/PATTERN: forward from the cursor, else the nearest hit before it.
Found(p, forward, full) ==
    CASE forward # NoSession -> Card(p, forward)
      [] forward = NoSession /\ full # NoSession -> Card(p, Move(full, 1, FALSE))
      [] OTHER -> Keep(Outcome(p, NoTake(p), NoSession))
Search(p) == Found(p, BuildForward(p.buffer, p.cursor), BuildIndexed(p.buffer, p.cursor, 0))

\* move_search_session, and the card of the hit; at an edge it stays.
MoveTo(p, s, moved) == IF moved = s THEN Keep(Outcome(p, NoTake(p), s)) ELSE Card(p, moved)
MoveBy(p, s, n, forward) == MoveTo(p, s, Move(s, n, forward))

\* :n, which turns a page when no search is active.
NextHit(p, s, n) ==
    IF s = NoSession THEN Keep([NextPages(p, n) EXCEPT !.session = NoSession])
    ELSE MoveBy(p, Extend(p.buffer, s, s.current + n + 1), n, TRUE)
SearchNext(p, n) == NextHit(p, Fresh(p.buffer, p.session, p.reseed, p.cursor), n)

Navigable(p) ==
    Completed(p.buffer, Fresh(p.buffer, p.session, p.reseed, p.cursor))

\* :p and :goto.
PrevHit(p, s, n) ==
    IF s = NoSession THEN Keep(Outcome(p, NoTake(p), s)) ELSE MoveBy(p, s, n, FALSE)
SearchPrev(p, n) == PrevHit(p, Navigable(p), n)
HitAt(p, s, n) ==
    IF n \in DOMAIN s.hits THEN Card(p, Goto(s, n)) ELSE Keep(Outcome(p, NoTake(p), s))
GotoHit(p, n) == HitAt(p, Navigable(p), n)

\* take_matches: the text a list of hits shows, and its span.
ListMatches(p, s, limit) ==
    LET b == p.buffer
        listed == {s.hits[k] : k \in 1..Smaller(limit, Len(s.hits))}
        Start(h) == LineStartOf(b, h)
        visible == UNION {VisiblePrefix(b, Start(h)) :
                             h \in {g \in listed : g \in VisiblePrefix(b, Start(g))}}
        first == LeastOf(listed)
        last == GreatestOf(listed)
        t == [NoTake(p) EXCEPT !.first = <<Start(first), LineEndOf(b, first)>>,
                            !.last = <<Start(last), LineEndOf(b, last)>>]
    IN [Outcome(p, t, s) EXCEPT !.closes = FALSE, !.emits = FALSE, !.views = visible,
                             !.listed = UNION {ListedText(b, Start(h)) : h \in listed}]

\* :matches PATTERN, which starts a bounded session, and :matches.
MatchesOf(p, s, limit) ==
    IF s = NoSession THEN Keep(Outcome(p, NoTake(p), NoSession)) ELSE ListMatches(p, s, limit)
FromFirst(s) == IF s = NoSession THEN s ELSE Goto(s, 1)
MatchPattern(p, limit) == MatchesOf(p, FromFirst(BuildIndexed(p.buffer, 0, limit + 1)), limit)
BareMatches(p, limit) == MatchesOf(p, Navigable(p), limit)

\* :hits: the next line that matches and is not covered, with its context;
\* every line it lists counts as seen.
Hits(p, context) ==
    LET b == p.buffer
        Covered(l) == (l..(LineEndOf(b, l) - 1)) \subseteq p.seen
        found == {o \in Matches(b) : o >= p.cursor /\ ~Covered(LineStartOf(b, o))}
        at == LeastOf(found)
        idx == LineOf(b, at)
        lines == {l \in LineStarts(b) : /\ LineOf(b, l) \in (idx - context)..(idx + context)
                                        /\ ~Covered(l)}
        marked == UNION {l..(LineEndOf(b, l) - 1) : l \in lines}
        first == LeastOf(lines)
        last == GreatestOf(lines)
        t == [NoTake(p) EXCEPT !.cursor = LineEndOf(b, at), !.seen = @ \cup marked,
                            !.first = <<first, LineEndOf(b, first)>>,
                            !.last = <<last, LineEndOf(b, last)>>]
        visible == UNION {VisiblePrefix(b, l) : l \in lines}
    IN IF found = {} THEN Keep(Outcome(p, NoTake(p), p.session))
       ELSE [Outcome(p, t, p.session) EXCEPT !.closes = FALSE, !.views = visible,
                !.listed = UNION {ListedText(b, l) : l \in lines},
                !.cut = UNION {(l..(LineEndOf(b, l) - 1)) \ ListedText(b, l) : l \in lines}]

\* :range, :seek, :where and :help.
ShowRange(p, l1, l2) ==
    LET r == LineRange(p.buffer, l1, l2)
        t == IF r = NoSpan THEN NoTake(p)
             ELSE TakeUnseen(p.buffer, p.cursor, p.seen, r[1], r[2])
    IN Outcome(p, t, p.session)
Seek(p, n, unit) ==
    LET end == Length(p.buffer)
        to == CASE unit = "chars" -> Smaller(n, end)
                [] unit = "percent" -> (end * n) \div 100
                [] unit = "line" -> LineStartOffset(p.buffer, n)
    IN IF to = NotFound THEN Outcome(p, NoTake(p), p.session)
       ELSE Outcome(p, TakePage(p.buffer, to, p.seen), p.session)
Where(p) == Outcome(p, NoTake(p), p.session)
Help(p) == Outcome(p, NoTake(p), p.session)

-----------------------------------------------------------------------------
(* PagerCommand::parse: counts are at least 1, limits are clamped, and a    *)
(* zero where a number has to be positive is no command.                    *)

NotCommand == [op |-> "none", n |-> 0, unit |-> ""]
Cmd(i, n) == [op |-> i.head, n |-> n, unit |-> i.unit]

\* A limit of 0 stands for "all", a negative one for none given.
MatchSpec(i) ==
    Cmd(i, CASE i.n < 0 -> MatchLimit
             [] i.n = 0 -> MatchLimitMax
             [] i.n > 0 -> Smaller(i.n, MatchLimitMax))
HitSpec(i) == Cmd(i, Smaller(i.n, ContextMax))
TailSpec(i) ==
    IF i.unit = "" THEN [op |-> "tail", n |-> PageChars, unit |-> "chars"] ELSE Cmd(i, i.n)
SeekSpec(i) ==
    CASE i.unit = "line" /\ i.n = 0 -> NotCommand
      [] i.unit = "percent" -> Cmd(i, Smaller(i.n, 100))
      [] OTHER -> Cmd(i, i.n)
RangeSpec(i) == IF i.n = 0 THEN NotCommand ELSE Cmd(i, i.n)

Parse(i) ==
    CASE i.head \in {"next", "skip", "n", "p"} -> Cmd(i, Larger(1, i.n))
      [] i.head = "goto" -> IF i.n > 0 THEN Cmd(i, i.n) ELSE NotCommand
      [] i.head = "matches" -> MatchSpec(i)
      [] i.head = "hits" -> HitSpec(i)
      [] i.head = "tail" -> TailSpec(i)
      [] i.head = "seek" -> SeekSpec(i)
      [] i.head = "range" -> RangeSpec(i)
      [] i.head \in {"/", "a", "where", "help", "q"} -> Cmd(i, 0)
      [] OTHER -> NotCommand

Run(p, c) ==
    CASE c.op = "next" -> NextPages(p, c.n)
      [] c.op = "skip" -> Skip(p, c.n)
      [] c.op = "a" -> ShowAll(p)
      [] c.op = "tail" -> TakeTail(p, c.n, c.unit)
      [] c.op = "/" -> Search(p)
      [] c.op = "n" -> SearchNext(p, c.n)
      [] c.op = "p" -> SearchPrev(p, c.n)
      [] c.op = "goto" -> GotoHit(p, c.n)
      [] c.op = "matches" -> IF c.unit = "pattern" THEN MatchPattern(p, c.n)
                             ELSE BareMatches(p, c.n)
      [] c.op = "hits" -> Hits(p, c.n)
      [] c.op = "range" -> ShowRange(p, c.n, c.n + 1)
      [] c.op = "seek" -> Seek(p, c.n, c.unit)
      [] c.op = "where" -> Where(p)
      [] c.op = "help" -> Help(p)

\* refresh_from_output: the worker's new output is added to the buffer, with
\* a notice when another reply has consumed part of it.
RingEnd == ring.start + Len(ring.text)
GapNotice == <<"g", "n">>
Refreshed ==
    LET noticed == IF ring.start > pager.sourceEnd
                   THEN Append2(pager.buffer, GapNotice, <<>>) ELSE pager.buffer
    IN IF RingEnd <= pager.sourceEnd THEN pager
       ELSE [pager EXCEPT !.buffer = Append2(noticed, ring.text, ring.images),
                          !.sourceEnd = RingEnd,
                          !.session = IF @ = NoSession THEN @ ELSE [@ EXCEPT !.length = 0]]
RingConsumed == [start |-> RingEnd, text |-> <<>>, images |-> <<>>]

\* A bug: every jump forward is taken for text shown before.
GapMarker_unseen(last, first, seen) ==
    IF last = NoSpan \/ first = NoSpan THEN {} ELSE last[2]..(first[1] - 1)

\* gap_marker_if_needed: what lies between the last text shown and this one
\* was shown before.
GapMarker(last, first, seen) ==
    IF last = NoSpan \/ first = NoSpan THEN {}
    ELSE IF first[1] > last[2] /\ (last[2]..(first[1] - 1)) \subseteq seen
    THEN last[2]..(first[1] - 1)
    ELSE {}

\* The commands after which the session still stands on its hit.
KeepsAnchor == {"/", "matches", "n", "p", "goto"}

\* handle_command, after the command itself: the state that is kept.
After(p, c, o) ==
    [p EXCEPT !.cursor = o.take.cursor, !.seen = o.take.seen, !.session = o.session,
              !.images = @ \cup o.take.images, !.viewed = @ \cup o.views,
              !.emitted = IF o.emits /\ o.take.last # NoSpan THEN o.take.last ELSE @,
              !.reseed = /\ o.session # NoSession
                         /\ c.op \notin KeepsAnchor
                         /\ @ \/ o.take.cursor # p.cursor]

Replied(p, c, o) ==
    [op |-> c.op, n |-> c.n, shown |-> o.take.shown \cup o.listed,
     claimed |-> o.take.elided \cup GapMarker(p.emitted, o.take.first, o.take.seen)
                 \cup ({o.card} \cap p.viewed),
     card |-> o.card, early |-> ({o.card} \cap p.viewed) \ shown, span |-> <<p.cursor, o.take.cursor>>,
     from |-> IF p.reseed THEN p.cursor ELSE p.session.anchor,
     between |-> p.reseed \/ p.session.current >= Len(p.session.hits),
     searched |-> p.session # NoSession]

Call == bounds.calls < MaxCalls /\ bounds' = [bounds EXCEPT !.calls = @ + 1]

\* handle_pager_command.
Handle(c) ==
    \E p \in {Refreshed} :
        /\ ring' = IF p = pager THEN ring ELSE RingConsumed
        /\ \/ /\ c = NotCommand
              /\ pager' = p
              /\ reply' = [NoReply EXCEPT !.op = "help"]
              /\ UNCHANGED <<shown, cut>>
           \/ /\ c.op = "q"
              /\ pager' = NoPager
              /\ reply' = [NoReply EXCEPT !.op = "q"]
              /\ shown' = {} /\ cut' = {}
           \/ /\ c # NotCommand /\ c.op # "q"
              /\ \E o \in {Run(p, c)} :
                    /\ pager' = IF o.closes THEN NoPager ELSE After(p, c, o)
                    /\ reply' = Replied(p, c, o)
                    /\ cut' = cut \cup o.cut
              /\ shown' = shown \cup reply'.shown

\* The client types a pager command.
Command(i) == pager.active /\ Call /\ Handle(Parse(i))

\* The page a reply shows of new output, as the pager's first page.
SnapshotPage(b) == TakePage(b, 0, {})

\* maybe_activate_and_append_footer: a pager for the new output, at the end
\* of its first page.
Activated(b, page) ==
    [NoPager EXCEPT
        !.active = TRUE, !.buffer = b, !.sourceEnd = RingEnd,
        !.cursor = page.cursor, !.seen = page.seen,
        !.images = page.images, !.emitted = page.last,
        !.viewed = page.shown]

\* poll_pending_output_pager: the new output is shown, or its first page if
\* more than one page is left of it, and then a pager for it takes the place
\* of the one there was.
Poll ==
    LET b == Text(ring.text, ring.images)
        Opens(page) == PagesLeft(b, page.cursor) > 0
    IN /\ ring' = RingConsumed
       /\ reply' = [NoReply EXCEPT !.op = "poll"]
       /\ \E page \in {SnapshotPage(b)} :
             /\ pager' = IF Opens(page) THEN Activated(b, page) ELSE pager
             /\ shown' = IF Opens(page) THEN page.shown ELSE shown
             /\ cut' = IF Opens(page) THEN {} ELSE cut

\* Empty input polls while output waits; else it turns a page.
EmptyInput ==
    /\ Call
    /\ IF ring.text # <<>> THEN Poll
       ELSE /\ pager.active
            /\ Handle([op |-> "next", n |-> 1, unit |-> ""])

\* Other input leaves the pager and goes to the worker.
BackendInput ==
    /\ Call /\ pager.active
    /\ pager' = NoPager /\ shown' = {} /\ cut' = {}
    /\ reply' = [NoReply EXCEPT !.op = "q"]
    /\ UNCHANGED ring

\* The worker writes.
Queued(out) == Append2(Text(ring.text, ring.images), out.text, out.images)
Produce(out) ==
    /\ bounds.outputs < MaxOutputs
    /\ bounds' = [bounds EXCEPT !.outputs = @ + 1]
    /\ ring' = [start |-> ring.start, text |-> Queued(out).text, images |-> Queued(out).images]
    /\ UNCHANGED <<pager, reply, shown, cut>>

Next ==
    \/ \E out \in Outputs : Produce(out)
    \/ \E i \in Inputs : Command(i)
    \/ EmptyInput
    \/ BackendInput

Spec == Init /\ [][Next]_vars

-----------------------------------------------------------------------------
\* What the pager leaves out as "already shown", a reply of this pager has
\* held, but for the rest of a long line that :hits has listed, and the hit
\* that a card says was shown earlier, a reply before it has held
\* (gap_marker_if_needed, elision_marker, prior_view_message).
ClaimsAreTrue ==
    /\ reply.claimed \subseteq shown \cup cut
    /\ reply.early = {}

\* The images at one place leave no room for text on a page.
Crowded(b, at) ==
    LET n == CountImages(b, at, at + 1) IN n > MaxImages \/ n * ImageChars >= PageChars

\* A page follows on the one before: between the cursor before and after
\* :next, empty input or :a every character has been shown, but for the rest
\* of a long line that :hits has listed, and a :next that leaves the pager
\* open has advanced, unless the images at the cursor fill the page.
PagesFollowOn ==
    /\ reply.op \in {"next", "a"} => Span(reply.span) \subseteq shown \cup cut
    /\ reply.op = "next" /\ pager.active /\ ~Crowded(pager.buffer, reply.span[1])
          => reply.span[1] < reply.span[2]

\* Where :n and :p go from the hit the client stands on, or from the cursor
\* if it has moved since: the nearest matching line in that direction, and
\* no hit only if there is none.  :goto goes to the n-th matching line.
HitsInOrder ==
    LET b == pager.buffer
        Below(x, y) == LineOf(b, x) < LineOf(b, y)
        lines == {FindNext(b, l, LineEndOf(b, l)) : l \in HitLines(b, 0)}
        ahead == {h \in lines : Below(reply.from, h)}
        behind == {h \in lines : Below(h, reply.from)}
        onto == reply.card
    IN pager.active /\ reply.searched =>
        /\ reply.op = "n" /\ reply.n = 1 =>
             IF onto = NotFound THEN ahead = {}
             ELSE /\ onto >= reply.from /\ (~reply.between => Below(reply.from, onto))
                  /\ ~\E h \in ahead : Below(h, onto)
        /\ reply.op = "p" /\ reply.n = 1 =>
             IF onto = NotFound THEN behind = {}
             ELSE onto < reply.from /\ ~\E h \in behind : Below(onto, h)
        /\ reply.op = "goto" =>
             IF onto = NotFound THEN reply.n > Cardinality(lines)
             ELSE /\ b.text[onto + 1] = "m"
                  /\ Cardinality({h \in lines : ~Below(onto, h)}) = reply.n

=============================================================================
