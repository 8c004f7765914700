----------------------------- MODULE PagerSearch -----------------------------
(***************************************************************************)
(* The search session of the pager: the hits indexed so far, one per       *)
(* matching line, and the hit the client stands on.  current is            *)
(* current_index, from 0; when it is the number of hits, the session       *)
(* stands between hits, at anchor.  The headings of a hit are left out.    *)
(***************************************************************************)
EXTENDS PagerBuffer

NoSession ==
    [hits |-> <<>>, current |-> 0, anchor |-> 0, limit |-> 0, length |-> 0, next |-> 0,
     complete |-> FALSE, fromStart |-> FALSE]

\* The first match of every line that has one, from the line at "from" on.
HitLines(b, from) == {l \in LineStarts(b) : l >= from /\ FindNext(b, l, LineEndOf(b, l)) # NotFound}
FirstHits(b, from) ==
    LET lines == Ascending(HitLines(b, from))
    IN [k \in DOMAIN lines |-> FindNext(b, lines[k], LineEndOf(b, lines[k]))]

\* full_session_match_offset_for_line: on the line of the cursor, the match
\* behind it.
FullOffset(b, at, start) ==
    LET later == FindNext(b, start, LineEndOf(b, at))
    IN IF at >= start \/ start >= LineEndOf(b, at) \/ later = NotFound THEN at ELSE later

\* build_indexed_search_session (build_full with limit 0, build_bounded).
Session(b, start, limit, bounded, hits) ==
    LET later == {k \in DOMAIN hits : hits[k] >= start}
    IN [hits |-> hits,
        current |-> IF later = {} THEN Len(hits) ELSE LeastOf(later) - 1,
        anchor |-> start, limit |-> limit, length |-> Length(b),
        next |-> IF bounded THEN LineEndOf(b, hits[Len(hits)]) ELSE Length(b),
        complete |-> ~bounded, fromStart |-> TRUE]
IndexHits(b, start, limit, all) ==
    LET bounded == limit > 0 /\ Len(all) >= limit
    IN IF all = <<>> THEN NoSession
       ELSE Session(b, start, limit, bounded,
                    [k \in 1..(IF bounded THEN limit ELSE Len(all)) |-> FullOffset(b, all[k], start)])
BuildIndexed(b, start, limit) == IndexHits(b, start, limit, FirstHits(b, 0))

\* build_forward_search_session: only the next match is looked for.
BuildForward(b, start) ==
    LET at == FindNext(b, start, Length(b))
    IN IF at = NotFound THEN NoSession
       ELSE [hits |-> <<at>>, current |-> 0, anchor |-> at, limit |-> 0,
             length |-> Length(b), next |-> LineEndOf(b, at),
             complete |-> FALSE, fromStart |-> start = 0]

\* extend_search_session_forward, to "needed" hits.
Extended(b, s, hits, all) ==
    LET end == LineEndOf(b, hits[Len(hits)])
        done == all \/ end >= Length(b)
    IN [s EXCEPT !.hits = hits, !.complete = done, !.next = IF done THEN Length(b) ELSE end]
ExtendBy(b, s, more, count) ==
    Extended(b, s, s.hits \o SubSeq(more, 1, Smaller(Len(more), count)), Len(more) < count)
Extend(b, s, needed) ==
    IF s.complete \/ Len(s.hits) >= needed THEN s
    ELSE ExtendBy(b, s, FirstHits(b, s.next), needed - Len(s.hits))

\* move_search_session: the session afterwards; it has not moved at an edge.
Move(s, count, forward) ==
    LET n == Len(s.hits)
        boundary == Cardinality({k \in 1..n : s.hits[k] < s.anchor})
        between == s.current >= n
        to == CASE forward /\ between ->
                     IF boundary >= n THEN s.current
                     ELSE Smaller(boundary + count - 1, n - 1)
                [] forward /\ ~between -> Smaller(s.current + count, n - 1)
                [] ~forward /\ between ->
                     IF boundary = 0 THEN s.current ELSE Larger(0, boundary - count)
                [] OTHER -> Larger(0, s.current - count)
    IN IF to = s.current THEN s
       ELSE [s EXCEPT !.current = to, !.anchor = s.hits[to + 1]]

\* goto_search_hit, index from 1.
Goto(s, index) == [s EXCEPT !.current = index - 1, !.anchor = s.hits[index]]

\* rebuild_search_session: the kind of index is kept, and so is a position
\* between hits.
Between(s) == IF s = NoSession THEN s ELSE [s EXCEPT !.current = Len(s.hits)]
Rebuild(b, s) ==
    LET Kept(new) == IF s.current >= Len(s.hits) THEN Between(new) ELSE new
    IN Kept(IF s.limit > 0 THEN BuildIndexed(b, s.anchor, Larger(Len(s.hits), s.limit))
            ELSE IF s.complete \/ s.fromStart THEN BuildIndexed(b, s.anchor, 0)
            ELSE BuildForward(b, s.anchor))

\* reseed_search_session: after the client has moved, the session stands at
\* the cursor.
Reseed(b, cursor) == Between(BuildIndexed(b, cursor, 0))

\* ensure_search_session_fresh and ensure_search_session_complete.
Fresh(b, s, reseed, cursor) ==
    IF s = NoSession \/ (s.length = Length(b) /\ ~reseed) THEN s
    ELSE IF reseed THEN Reseed(b, cursor) ELSE Rebuild(b, s)
\* (A bug: the complete index forgets where the client stands.)
Completed_first(b, s) ==
    IF s = NoSession \/ (s.complete /\ s.fromStart) THEN s ELSE BuildIndexed(b, 0, 0)
Completed(b, s) ==
    IF s = NoSession \/ (s.complete /\ s.fromStart) THEN s
    ELSE BuildIndexed(b, s.anchor, 0)
=============================================================================
