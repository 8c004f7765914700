----------------------------- MODULE PagerBuffer -----------------------------
(***************************************************************************)
(* What the pager computes from its buffer: where a page ends, which part  *)
(* of a range is new, which lines match a pattern.  A buffer is the text,  *)
(* a sequence of characters in which "n" ends a line and "m" is the        *)
(* pattern searched for, and the offsets at which images stand in it.      *)
(* Offsets count characters from 0.  A RangeSet is the set of offsets its  *)
(* ranges cover, since insert merges ranges that touch.                    *)
(***************************************************************************)
EXTENDS Integers, Sequences, FiniteSets, SequencesExt

CONSTANTS PageChars,   \* page_bytes()
          ImageChars,  \* IMAGE_EQUIV_CHARS
          MaxImages,   \* MAX_IMAGES_PER_PAGE
          LineMax      \* MATCH_LINE_MAX_BYTES

ASSUME PagerAssumption ==
    /\ PageChars \in Nat \ {0} /\ ImageChars \in Nat
    /\ MaxImages \in Nat \ {0} /\ LineMax \in Nat \ {0}

LeastOf(S) == CHOOSE x \in S : \A y \in S : x <= y
GreatestOf(S) == CHOOSE x \in S : \A y \in S : x >= y
Smaller(x, y) == IF x <= y THEN x ELSE y
Larger(x, y) == IF x >= y THEN x ELSE y
Ascending(S) ==
    [k \in 1..Cardinality(S) |-> CHOOSE x \in S : Cardinality({y \in S : y < x}) = k - 1]
Span(range) == range[1]..(range[2] - 1)
NoSpan == <<>>
NotFound == -1

\* PagerBuffer::len, line_ends and the lines they bound.
Length(b) == Len(b.text)
LineEnds(b) == {i \in 1..Length(b) : b.text[i] = "n"}
LineStartOf(b, at) == GreatestOf({0} \cup {l \in LineEnds(b) : l <= at})
LineEndOf(b, at) == LeastOf({Length(b)} \cup {l \in LineEnds(b) : l > at})
LineStarts(b) == {l \in {0} \cup LineEnds(b) : l < Length(b)}
LineOf(b, at) == Cardinality({l \in LineEnds(b) : l <= at})   \* from 0
LineCount(b) == Cardinality(LineStarts(b))
LineBounds(b, idx) ==
    LET s == CHOOSE l \in LineStarts(b) : LineOf(b, l) = idx IN <<s, LineEndOf(b, s)>>

ImagesIn(b, s, e) == {i \in DOMAIN b.images : s <= b.images[i] /\ b.images[i] <= e}
CountImages(b, s, e) == Cardinality(ImagesIn(b, s, e))

\* A bug: the page may end at the line end it starts at.
PageEnd_snap(b, start, end, target) ==
    LET desired == Smaller(start + target, end)
        ends == {l \in LineEnds(b) : l <= desired}
    IN IF start >= end THEN end ELSE IF ends = {} THEN desired ELSE GreatestOf(ends)

\* page_end_offset: the last line end in the window, else all of it.
PageEnd(b, start, end, target) ==
    LET desired == Smaller(start + target, end)
        ends == {l \in LineEnds(b) : start < l /\ l <= desired}
    IN CASE start >= end -> end
         [] start < end /\ ends = {} -> desired
         [] OTHER -> GreatestOf(ends)

\* page_end_offset_with_images: the furthest end at which the k images up to
\* it and the text fit the budget.
PageEndWithImages(b, start, end, target) ==
    LET imgs == Ascending(ImagesIn(b, start, end))
        At(k) == b.images[imgs[k]]
        known == Smaller(Len(imgs), MaxImages + 1)
        SegmentStart(k) == IF k = 0 THEN start ELSE At(k)
        SegmentEnd(k) == IF k < known THEN At(k + 1) - 1 ELSE end
        Budget(k) == start + Larger(0, target - k * ImageChars)
        Candidate(k) == Smaller(end, Smaller(Budget(k), SegmentEnd(k)))
        Aligned(k) == LET a == PageEnd(b, start, Candidate(k), Candidate(k) - start)
                      IN IF a >= SegmentStart(k) THEN a ELSE Candidate(k)
        fits == {k \in 0..Smaller(known, MaxImages) : Candidate(k) >= SegmentStart(k)}
    IN IF \/ start >= end
          \/ end - start <= target /\ Len(imgs) <= MaxImages
       THEN end
       ELSE GreatestOf({start} \cup {Aligned(k) : k \in fits})

\* pages_left: zero as soon as the rest would fit one page.
CeilDiv(x, y) == (x + y - 1) \div y
PagesLeft(b, at) ==
    LET text == Length(b) - Smaller(at, Length(b))
        images == CountImages(b, Smaller(at, Length(b)), Length(b))
    IN IF text <= PageChars /\ images <= MaxImages
       THEN 0
       ELSE Larger(CeilDiv(text + images * ImageChars, PageChars),
                   CeilDiv(images, MaxImages))

\* RangeSet::range_containing and next_range_start_after.
SeenEnd(b, seen, at) == LeastOf((at..Length(b)) \ seen)
NextSeen(b, seen, at) == LeastOf({Length(b)} \cup {o \in seen : o >= at})

\* A part of the output a command has taken: the cursor and the seen offsets
\* after it, what it shows, what it says was shown, the images it shows, and
\* the first and last range of its RangeSpan.
Taken(cursor, seen) ==
    [cursor |-> cursor, seen |-> seen, shown |-> {}, elided |-> {}, images |-> {},
     first |-> NoSpan, last |-> NoSpan]
TakeRange(b, t, s, e) ==
    [t EXCEPT !.cursor = e, !.seen = @ \cup (s..(e - 1)), !.shown = @ \cup (s..(e - 1)),
              !.images = @ \cup ImagesIn(b, s, e),
              !.first = IF t.first = NoSpan THEN <<s, e>> ELSE @, !.last = <<s, e>>]
Elide(t, e) == [t EXCEPT !.cursor = e, !.elided = @ \cup (t.cursor..(e - 1))]

\* A round of the loop of take_next_page: skip what was seen, or show what
\* the budget allows; a page that ends early at a line or an image has spent
\* all its budget.
PageShown(b, x, next, end) ==
    LET t == x.t
        at == t.cursor
        used == (end - at) + CountImages(b, at, end) * ImageChars
        spent == \/ end < Smaller(at + x.budget, next)
                 \/ used >= x.budget
    IN IF end <= at THEN [x EXCEPT !.done = TRUE]
       ELSE [t |-> TakeRange(b, t, at, end), budget |-> x.budget - used, done |-> spent]
PageTaken(b, x, next) == PageShown(b, x, next, PageEndWithImages(b, x.t.cursor, next, x.budget))
PageRound(b, x) ==
    LET t == x.t
        at == t.cursor
    IN IF x.done \/ at >= Length(b) THEN x
       ELSE IF at \in t.seen THEN [x EXCEPT !.t = Elide(t, SeenEnd(b, t.seen, at))]
       ELSE PageTaken(b, x, NextSeen(b, t.seen, at))
\* The loop: a round that is not the last one advances the cursor.
PageLoop(b, x) ==
    LET round[k \in Nat] == IF k = 0 THEN x ELSE PageRound(b, round[k - 1])
    IN round
TakePage(b, cursor, seen) ==
    PageLoop(b, [t |-> Taken(cursor, seen), budget |-> PageChars, done |-> FALSE])[Length(b) + 1].t

Nothing(t) == t.shown = {} /\ t.elided = {}
Joined(t, u) ==
    [u EXCEPT !.shown = @ \cup t.shown, !.elided = @ \cup t.elided,
              !.images = @ \cup t.images,
              !.first = IF t.first = NoSpan THEN @ ELSE t.first,
              !.last = IF @ = NoSpan THEN t.last ELSE @]

\* take_next_pages: up to count pages, until one is empty or is the last; one
\* command takes at most 50 pages, and skips at most 500.
MaxPagesTaken == 50
MaxPagesSkipped == 500
PagesJoined(b, x, page) ==
    [t |-> Joined(x.t, page), done |-> Nothing(page) \/ PagesLeft(b, page.cursor) = 0]
PagesRound(b, x) ==
    IF x.done THEN x ELSE PagesJoined(b, x, TakePage(b, x.t.cursor, x.t.seen))
PagesLoop(b, x) ==
    LET round[k \in Nat] == IF k = 0 THEN x ELSE PagesRound(b, round[k - 1])
    IN round
TakePages(b, cursor, seen, count) ==
    PagesLoop(b, [t |-> Taken(cursor, seen), done |-> FALSE])[Smaller(count, MaxPagesTaken)].t

\* advance_cursor_for_page and skip_pages_and_take_next.
AdvanceForPage(b, cursor, seen) == TakePage(b, cursor, seen).cursor
SkipLoop(b, cursor, seen) ==
    LET round[k \in Nat] ==
            IF k = 0 THEN cursor
            ELSE Larger(round[k - 1], AdvanceForPage(b, round[k - 1], seen))
    IN round
SkipPages(b, cursor, seen, count) ==
    TakePage(b, SkipLoop(b, cursor, seen)[Smaller(count, MaxPagesSkipped)], seen)

\* take_unseen_segments_in_range: a skipped part is announced only in front of
\* a part that is shown.
TakeUnseen(b, cursor, seen, start, end) ==
    LET new == (start..(end - 1)) \ seen
        last == GreatestOf(new)
        first == LeastOf(new)
        lastStart == LeastOf({o \in new : (o..last) \subseteq new})
    IN IF new = {} THEN Taken(cursor, seen)
       ELSE [cursor |-> cursor, seen |-> seen \cup new, shown |-> new,
             elided |-> {o \in start..last : o \in seen},
             images |-> UNION {ImagesIn(b, o, o + 1) : o \in new},
             first |-> <<first, LeastOf((first..end) \ new)>>,
             last |-> <<lastStart, last + 1>>]

\* take_all, take_tail and take_tail_lines.
TakeAll(b, cursor, seen) ==
    [TakeUnseen(b, cursor, seen, cursor, Length(b)) EXCEPT !.cursor = Length(b)]
TakeTailFrom(b, cursor, seen, start) ==
    [TakeUnseen(b, cursor, seen, Larger(cursor, start), Length(b))
        EXCEPT !.cursor = Length(b)]
TailStart(b, cursor, chars) ==
    LET desired == Larger(cursor, Length(b) - chars)
        ends == {l \in LineEnds(b) : l <= desired}
    IN IF ends = {} THEN desired ELSE GreatestOf(ends)
TailStartOfLines(b, lines) ==
    LET starts == Reverse(Ascending(LineStarts(b)))
    IN IF lines = 0 THEN Length(b)
       ELSE IF lines <= Len(starts) THEN starts[lines] ELSE 0

\* line_start_offset, line_end_offset and line_range_offsets, lines from 1.
LineStartOffset(b, line) ==
    LET starts == Ascending({0} \cup LineEnds(b))
    IN IF line \in DOMAIN starts THEN starts[line] ELSE NotFound
LineRange(b, l1, l2) ==
    IF Larger(l1, l2) > LineCount(b) THEN NoSpan
    ELSE <<LineBounds(b, Smaller(l1, l2) - 1)[1], LineBounds(b, Larger(l1, l2) - 1)[2]>>

\* find_next_bytes_with_options, for a pattern of one character.
Matches(b) == {o \in 0..(Length(b) - 1) : b.text[o + 1] = "m"}
FindNext(b, s, e) ==
    LET hits == {o \in Matches(b) : s <= o /\ o < e}
    IN IF hits = {} THEN NotFound ELSE LeastOf(hits)

\* visible_prefix_range: the part of a line that a list of matches shows; an
\* ellipsis takes three characters of it.
PrefixChars(n) == IF n <= LineMax THEN n ELSE Larger(0, LineMax - 3)
LineChars(b, start) ==
    LET end == LineEndOf(b, start) IN IF end \in LineEnds(b) THEN end - 1 - start ELSE end - start
VisiblePrefix(b, start) == start..(start + PrefixChars(LineChars(b, start)) - 1)
\* The text that a list shows of a line: the prefix, and the line's end with it.
ListedText(b, start) ==
    IF LineChars(b, start) <= LineMax THEN start..(LineEndOf(b, start) - 1)
    ELSE VisiblePrefix(b, start)

\* snippet_window_around_match: the part of its line that a search card shows.
SnippetWindow(b, at) ==
    LET start == LineStartOf(b, at)
        n == LineChars(b, start)
        from == Larger(0, (at - start) - (LineMax \div 2))
    IN IF n <= LineMax THEN start..(start + n - 1)
       ELSE IF at - start < LineMax THEN start..(start + LineMax - 1)
       ELSE (start + from)..(start + Smaller(n, from + LineMax) - 1)
=============================================================================
