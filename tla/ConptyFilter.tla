----------------------------- MODULE ConptyFilter -----------------------------
(***************************************************************************)
(* WindowsConptyStartupNoiseFilter of worker_supervisor.rs: it takes the   *)
(* terminal noise of ConPTY (the modes set at the start, the repaint at    *)
(* shutdown) out of raw stdout, and the line feed of that repaint when it  *)
(* came over IPC instead.                                                  *)
(*                                                                         *)
(* A byte is [c, id].  An escape sequence is two bytes, "e" (the ESC that  *)
(* all share) and its letter: h/s hide and show the cursor, j clear and    *)
(* home, o modes off, t title, m/f modes on; b is BEL, n and r end lines.  *)
(***************************************************************************)
EXTENDS Integers, Sequences, SequencesExt

CONSTANT MaxTitle      \* MAX_TITLE_BYTES

ASSUME TitleAssumption == MaxTitle \in Nat

StartupModes == <<"e", "m", "e", "f">>
Start == <<"e", "h">>
BareSimple == <<"e", "j", "e", "s">>
BareTitled == <<"e", "j", "e", "t">>
LfPrefixed == <<"n">> \o BareSimple
Simple == Start \o BareSimple
ModesOff == <<"e", "o">>
Titled == Start \o ModesOff \o BareTitled
TitledSuffix == <<"b", "e", "s">>
Candidates == {Start, BareSimple, BareTitled, LfPrefixed}

Letters(bytes) == [i \in DOMAIN bytes |-> bytes[i].c]
From(seq, i) == SubSeq(seq, i, Len(seq))
At(seq, p, i) == IsPrefix(p, From(seq, i))
Least(S) == CHOOSE x \in S : \A y \in S : x <= y
Most(S) == CHOOSE x \in S : \A y \in S : x >= y
FirstVisible(s) == SelectInSeq(s, LAMBDA c : c \notin {"n", "r"})

\* Matches: a complete one of this many bytes, 0 for the start of one, -1 for none.
FixedMatch(s, frame) == IF IsPrefix(frame, s) THEN Len(frame) ELSE IF IsPrefix(s, frame) THEN 0 ELSE -1
EndedMatch(title, suffix, n) ==
    IF title > MaxTitle THEN -1
    ELSE IF IsPrefix(TitledSuffix, suffix) THEN n + title + Len(TitledSuffix)
    ELSE IF IsPrefix(suffix, TitledSuffix) THEN 0 ELSE -1
TitleMatch(rest, bel, n) ==
    IF bel > 0 THEN EndedMatch(bel - 1, From(rest, bel), n)
    ELSE IF Len(rest) <= MaxTitle THEN 0 ELSE -1
TitledMatch(s, prefix) ==
    IF IsPrefix(s, prefix) THEN 0
    ELSE IF ~IsPrefix(prefix, s) THEN -1
    ELSE LET rest == From(s, Len(prefix) + 1)
         IN TitleMatch(rest, SelectInSeq(rest, LAMBDA c : c = "b"), Len(prefix))
BareMatch(s) == Most({FixedMatch(s, BareSimple), TitledMatch(s, BareTitled)})
BestMatch(found, eof) == IF 0 \in found /\ ~eof THEN 0 ELSE Most(found)
MatchAtStart(s, eof) ==
    BestMatch({FixedMatch(s, LfPrefixed), FixedMatch(s, Simple \o ModesOff),
               FixedMatch(s, Start \o ModesOff \o BareSimple), FixedMatch(s, Simple),
               BareMatch(s), TitledMatch(s, Titled)}, eof)

LongestSuffix(s, p) ==
    Most({0} \cup {n \in 1 .. Len(p) - 1 : n <= Len(s) /\ From(s, Len(s) - n + 1) = SubSeq(p, 1, n)})

-----------------------------------------------------------------------------
(* WindowsConptyShutdownResetFilter.  lfAt is pending_ipc_lf_boundary, and *)
(* split is ipc_lf_raw_prefix_len; -1 is None.                             *)

None == -1
NewFilter ==
    [prefix |-> <<>>, matched |-> FALSE, started |-> FALSE, prefixBlocked |-> FALSE, prefixLfAt |-> None,
     pending |-> <<>>, finished |-> FALSE, armed |-> FALSE, readerFinished |-> FALSE,
     closeStarted |-> FALSE, pairBlocked |-> FALSE, lfAt |-> None,
     lf |-> None,            \* pending_ipc_shutdown_lf: the id of the line feed
     ipcSeen |-> FALSE, sessionEnd |-> FALSE, finalized |-> FALSE]

Drained(f) == [f |-> f, visible |-> <<>>, split |-> None, paired |-> FALSE]

\* Mutant: the line feed follows everything that leaves with it.
Leave_last(d, n, shown) ==
    LET at == d.f.lfAt
    IN [d EXCEPT !.f.pending = From(@, n + 1),
                 !.visible = IF shown THEN @ \o SubSeq(d.f.pending, 1, n) ELSE @,
                 !.split = IF at # None /\ at <= n THEN Len(d.visible) + n ELSE @,
                 !.f.lfAt = IF at = None \/ at <= n THEN None ELSE at - n]

\* The first n pending bytes leave: shown, or dropped as noise.
Leave(d, n, shown) ==
    LET at == d.f.lfAt
    IN [d EXCEPT !.f.pending = From(@, n + 1),
                 !.visible = IF shown THEN @ \o SubSeq(d.f.pending, 1, n) ELSE @,
                 !.split = IF at # None /\ at <= n
                           THEN Len(d.visible) + (IF shown THEN at ELSE 0) ELSE @,
                 !.f.lfAt = IF at = None \/ at <= n THEN None ELSE at - n]
Emit(d, n) == IF n = 0 THEN d ELSE Leave(d, n, TRUE)
EmitAll(d) == Emit(d, Len(d.f.pending))
RecordBoundary(d) ==
    IF d.f.lfAt = 0 THEN [d EXCEPT !.split = Len(d.visible), !.f.lfAt = None] ELSE d
Unblock(d) == [d EXCEPT !.f.pairBlocked = FALSE]

\* Before a round of drain_pending: a boundary at the front is recorded, and
\* pending bytes that are no bare repaint do not block a pair.
BeforeRound(d, s, bare, waits) ==
    LET r == IF waits THEN d ELSE RecordBoundary(d)
    IN IF r.f.pairBlocked /\ (s = <<>> \/ bare = -1) THEN Unblock(r) ELSE r
Starts(s) == {i \in 1 .. Len(s) : \E p \in Candidates : At(s, p, i)}

\* What a round does with the pending bytes: "done", or n bytes leave, shown
\* or dropped as noise (pair: with the line feed), and another one "again".
Round(do, n, shown, pair) == [do |-> do, n |-> n, shown |-> shown, pair |-> pair]
Done == Round("done", 0, TRUE, FALSE)
WithFrame(d, s, bare, n, eof, bareDrop, retain, closeTail) ==
    LET exact == Len(s) = n
        tailDrop == /\ closeTail /\ eof /\ exact
                    /\ d.f.closeStarted /\ d.f.readerFinished /\ ~d.f.pairBlocked
        pairDrop == bareDrop /\ ~d.f.pairBlocked /\ d.visible = <<>>
        stays == \/ ~d.f.armed /\ (eof \/ exact)
                 \/ d.f.armed /\ bare = n /\ retain /\ ~d.f.pairBlocked /\ exact
    IN IF d.f.armed /\ (bare = n => tailDrop \/ pairDrop)
       THEN Round("again", n, FALSE, bare = n /\ pairDrop)
       ELSE IF stays THEN Done ELSE Round("again", 1, TRUE, FALSE)
PlanRound(d, s, starts, bare, n, eof, bareDrop, retain, closeTail) ==
    CASE s = <<>> -> Done
      [] s # <<>> /\ starts = {} ->
           Round("done", Len(s) - Most({LongestSuffix(s, p) : p \in Candidates}), TRUE, FALSE)
      [] starts # {} /\ 1 \notin starts -> Round("again", Least(starts) - 1, TRUE, FALSE)
      [] 1 \in starts /\ n > 0 -> WithFrame(d, s, bare, n, eof, bareDrop, retain, closeTail)
      [] 1 \in starts /\ n = 0 -> IF eof /\ d.f.armed THEN Round("end", Len(s), TRUE, FALSE) ELSE Done
      [] OTHER -> Round("again", 1, TRUE, FALSE)
TakeRound(d, r) ==
    LET left == Leave([d EXCEPT !.paired = @ \/ r.pair], r.n, r.shown)
    IN IF r.n = 0 THEN d ELSE IF r.do = "end" THEN left ELSE Unblock(left)

\* drain_pending: a round that is not the last one takes a byte at least.
DrainRound(v, eof, retain, closeTail) ==
    LET s == Letters(v.d.f.pending)
        bare == BareMatch(s)
        d == BeforeRound(v.d, s, bare, ~eof /\ v.bareDrop /\ s # <<>> /\ bare = 0)
        r == PlanRound(d, s, Starts(s), bare, MatchAtStart(s, eof), eof, v.bareDrop, retain, closeTail)
    IN IF v.done THEN v
       ELSE [d |-> TakeRound(d, r), bareDrop |-> v.bareDrop /\ ~r.pair, done |-> r.do # "again"]
DrainLoop(v, eof, retain, closeTail) ==
    LET round[k \in Nat] == IF k = 0 THEN v ELSE DrainRound(round[k - 1], eof, retain, closeTail)
    IN round
DrainPending(f, eof, bareDrop, retain, closeTail) ==
    DrainLoop([d |-> Drained(f), bareDrop |-> bareDrop, done |-> FALSE],
              eof, retain, closeTail)[Len(f.pending) + 1].d

\* Mutant: the repaint is taken out whether or not a shutdown was announced.
ResetFinalize_unarmed(f) ==
    LET d == DrainPending([f EXCEPT !.armed = TRUE], TRUE, FALSE, FALSE, TRUE)
        e == RecordBoundary(EmitAll(d))
    IN [e EXCEPT !.f.finished = TRUE, !.f.armed = f.armed]

\* WindowsConptyShutdownResetFilter::finalize.
ResetFinalize(f) ==
    LET d == IF f.armed THEN DrainPending(f, TRUE, FALSE, FALSE, TRUE)
             ELSE Drained([f EXCEPT !.pairBlocked = FALSE])
        e == RecordBoundary(EmitAll(d))
    IN [e EXCEPT !.f.finished = TRUE]

\* flush_pending_before_observable_event: a lone line feed when not armed, and
\* what can only be a bare repaint, are shown before the event; bytes that
\* may also start another frame stay, but may not pair any more.
FlushBeforeEvent(f) ==
    LET s == Letters(f.pending)
        d == IF ~f.armed /\ ~f.finished /\ s = <<"n">> THEN EmitAll(Drained(f)) ELSE Drained(f)
        t == Letters(d.f.pending)
    IN IF f.finished \/ t = <<>> \/ BareMatch(t) = -1 THEN d
       ELSE IF IsPrefix(t, Start) THEN [d EXCEPT !.f.pairBlocked = TRUE]
       ELSE Unblock(EmitAll(d))

\* force_pending_ipc_lf_boundary.
ForceBoundary(d) ==
    LET at == Least({d.f.lfAt, Len(d.f.pending)})
        Part(f, bytes) == EmitAll(DrainPending([f EXCEPT !.pending = bytes, !.lfAt = None],
                                               TRUE, FALSE, FALSE, FALSE))
        before == Part(d.f, SubSeq(d.f.pending, 1, at))
        after == Part([before.f EXCEPT !.pairBlocked = FALSE], From(d.f.pending, at + 1))
    IN IF d.f.lfAt = None THEN d
       ELSE [f |-> after.f, visible |-> d.visible \o before.visible \o after.visible,
             split |-> Len(d.visible) + Len(before.visible), paired |-> FALSE]

-----------------------------------------------------------------------------
(* WindowsConptyStartupNoiseFilter.                                        *)

\* drop_startup_pending_prefix.
DropPrefix(f, n) ==
    [f EXCEPT !.prefix = From(@, n + 1),
              !.prefixLfAt = IF @ = None THEN None ELSE Most({@ - n, 0})]

\* finish_startup_with_drop: what is left goes on to the shutdown filter.
FinishStartup(f, n) ==
    LET g == DropPrefix(f, n)
    IN [f |-> [g EXCEPT !.prefix = <<>>, !.prefixLfAt = None, !.started = TRUE],
        raw |-> g.prefix, lfAt |-> g.prefixLfAt]

\* finish_after_matched_prefix.
AfterModes(f) ==
    LET s == Letters(f.prefix)
        v == FirstVisible(s)
        reset == From(s, v - 1)
        keepLf == IF s # <<>> /\ Last(s) = "n" THEN 1 ELSE 0
        Hold(n) == [f |-> DropPrefix(f, n), raw |-> <<>>, lfAt |-> None]
    IN IF v = 0 THEN Hold(Len(s) - keepLf)
       ELSE IF v > 1 /\ s[v - 1] = "n" /\ IsPrefix(LfPrefixed, reset) THEN FinishStartup(f, v - 2)
       ELSE IF v > 1 /\ s[v - 1] = "n" /\ IsPrefix(reset, LfPrefixed) THEN Hold(v - 2)
       ELSE FinishStartup(f, v - 1)

\* filter_startup.
FilterStartup(f, bytes) ==
    LET g == [f EXCEPT !.prefix = @ \o bytes]
        s == Letters(g.prefix)
    IN IF f.started THEN [f |-> f, raw |-> bytes, lfAt |-> None]
       ELSE IF f.matched THEN AfterModes(g)
       ELSE IF Len(s) < Len(StartupModes) /\ IsPrefix(s, StartupModes)
       THEN [f |-> g, raw |-> <<>>, lfAt |-> None]
       ELSE IF ~IsPrefix(StartupModes, s) THEN FinishStartup(g, 0)
       ELSE AfterModes(DropPrefix([g EXCEPT !.matched = TRUE], Len(StartupModes)))

\* finish_startup_at_eof.
FinishStartupAtEof(f) ==
    LET v == FirstVisible(Letters(f.prefix))
    IN IF f.started THEN [f |-> f, raw |-> <<>>, lfAt |-> None]
       ELSE FinishStartup(f, IF ~f.matched THEN 0 ELSE IF v = 0 THEN Len(f.prefix) ELSE v - 1)

\* What a call hands to append_windows_conpty_stdout_parts: raw bytes, and
\* the line feed that was kept back, after the first split of them.
Result(f, raw, lf, split) == [f |-> f, raw |-> raw, lf |-> lf, split |-> split]
\* take_pending_ipc_shutdown_lf_for_output.
TakeLf(f, raw, split) ==
    IF f.lf = None THEN Result(f, raw, None, 0)
    ELSE Result([f EXCEPT !.lf = None, !.ipcSeen = TRUE], raw, f.lf, split)
\* A paired bare repaint takes the line feed with it.
Settle(d) ==
    IF d.paired THEN Result([d.f EXCEPT !.lf = None], d.visible, None, 0)
    ELSE IF d.split # None THEN TakeLf(d.f, d.visible, d.split)
    ELSE Result(d.f, d.visible, None, 0)
MarkLf(f, offset) == IF offset = None THEN f ELSE [f EXCEPT !.lfAt = Len(f.pending) + offset]
MayDropBare(f) == f.lf # None /\ ~f.ipcSeen

\* filter.
FilterReset(g, raw) ==
    IF raw = <<>> \/ g.finished THEN Result(g, raw, None, 0)
    ELSE Settle(DrainPending([g EXCEPT !.pending = @ \o raw], FALSE, MayDropBare(g), TRUE, FALSE))
AfterStartup(s) ==
    LET block == s.f.prefixBlocked /\ ~s.f.matched
    IN FilterReset(MarkLf([s.f EXCEPT !.prefixBlocked = FALSE, !.pairBlocked = @ \/ block], s.lfAt),
                   s.raw)
Filter(f, bytes) == AfterStartup(FilterStartup(f, bytes))

\* arm_shutdown_reset.
ArmShutdownReset(f) ==
    LET d == DrainPending([f EXCEPT !.armed = TRUE], f.readerFinished, f.lf # None, TRUE, FALSE)
    IN IF f.armed THEN Result(f, <<>>, None, 0)
       ELSE Result([d.f EXCEPT !.ipcSeen = FALSE], d.visible, None, 0)

\* consume_raw_first_shutdown_pair: lf is whether the text is a line feed.
ConsumeRawFirst(f, lf) ==
    LET s == Letters(f.pending)
    IN /\ lf /\ ~f.ipcSeen /\ f.lf = None
       /\ f.armed /\ ~f.finished /\ ~f.pairBlocked
       /\ s # <<>> /\ BareMatch(s) = Len(s)

\* stage_ipc_shutdown_lf.
CanStage(f, lf) == lf /\ ~f.ipcSeen /\ f.armed /\ ~f.finished /\ f.lf = None
StageLf(f, id) ==
    LET g == [f EXCEPT !.lf = id]
    IN IF f.started THEN MarkLf(g, 0) ELSE [g EXCEPT !.prefixLfAt = Len(f.prefix)]

\* flush_pending_raw_before_observable_event.
ForcePrefix(d) ==
    ForceBoundary(IF d.f.prefixLfAt = None THEN d
                  ELSE [d EXCEPT !.split = Len(d.visible), !.f.prefixLfAt = None])
TakeFlushed(d) == TakeLf(d.f, d.visible, Most({d.split, 0}))
FlushEvent(f) ==
    LET g == IF ~f.started /\ ~f.matched /\ f.prefix # <<>> THEN [f EXCEPT !.prefixBlocked = TRUE] ELSE f
    IN TakeFlushed(ForcePrefix(FlushBeforeEvent(g)))


WithRest(s) == [MarkLf(s.f, s.lfAt) EXCEPT !.pending = @ \o s.raw]
AtEof(f) == WithRest(FinishStartupAtEof(f))

\* finish_reader.
FinishReader(f) ==
    Settle(DrainPending([AtEof(f) EXCEPT !.readerFinished = TRUE], TRUE, MayDropBare(f), TRUE, FALSE))

\* finalize.
Finalize(f) ==
    LET Taken(d) == TakeFlushed([d EXCEPT !.f.prefixLfAt = None, !.f.finalized = TRUE])
    IN Taken(ResetFinalize(AtEof(f)))
=============================================================================
