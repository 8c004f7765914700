---------------------------- MODULE ConptyCapture ----------------------------
(***************************************************************************)
(* LiveOutputCapture of worker_supervisor.rs with the ConPTY filter: the   *)
(* raw stdout reader, the IPC reader and the thread that tears the worker  *)
(* down race for the filter's lock.  Raw bytes come in pieces of any size; *)
(* what the filter lets through goes to the output timeline.               *)
(***************************************************************************)
EXTENDS ConptyFilter, FiniteSets

CONSTANTS
    RawScripts,     \* what the console may write, as sequences of letters
    IpcScripts      \* what the worker may send: "lf", "text", "image", "end"

ASSUME ScriptAssumption ==
    /\ RawScripts \subseteq Seq(STRING)
    /\ IpcScripts \subseteq Seq({"lf", "text", "image", "end"})

VARIABLES
    f,              \* the filter, guarded by its mutex
    script,         \* the raw letters of this behaviour
    ipc,            \* IPC messages still to be read, [kind, id]
    ipcOff,         \* disable_handlers was called
    phase,          \* teardown: live, stopping, closing, stopped, final
    arrived,        \* history: the items in the order in which they were read
    timeline        \* the items in the order in which they were appended

vars == <<f, script, ipc, ipcOff, phase, arrived, timeline>>

Raw(i) == [kind |-> "raw", id |-> i]
Byte(i) == [c |-> script[i], id |-> i]
RawItems(bytes) == [i \in DOMAIN bytes |-> Raw(bytes[i].id)]
End == [kind |-> "end", id |-> 0]
NRead == Cardinality({i \in DOMAIN arrived : arrived[i].kind = "raw"})

Init ==
    /\ f = NewFilter
    /\ script \in RawScripts
    /\ \E s \in IpcScripts : ipc = [i \in DOMAIN s |-> [kind |-> s[i], id |-> i]]
    /\ ipcOff = FALSE
    /\ phase = "live"
    /\ arrived = <<>>
    /\ timeline = <<>>

\* append_windows_conpty_stdout_parts, then the items of the caller.
Append_parts(r, more) ==
    LET lf == IF r.lf = None THEN <<>> ELSE <<[kind |-> "lf", id |-> r.lf]>>
        at == Least({r.split, Len(r.raw)})
    IN timeline' = timeline \o RawItems(SubSeq(r.raw, 1, at)) \o lf \o RawItems(From(r.raw, at + 1)) \o more

\* append_raw_text on stdout: one read of n bytes.
AppendRawText(n) ==
    /\ phase \in {"live", "stopping", "closing"}
    /\ NRead + n <= Len(script)
    /\ \E r \in {Filter(f, [i \in 1 .. n |-> Byte(NRead + i)])} :
          f' = r.f /\ Append_parts(r, <<>>)
    /\ arrived' = arrived \o [i \in 1 .. n |-> Raw(NRead + i)]
    /\ UNCHANGED <<script, ipc, ipcOff, phase>>

\* append_output_text: the line feed of a repaint is dropped with it or kept
\* back; anything else goes out after what the filter held.
AppendOutputText(m) ==
    LET lf == m.kind = "lf"
        Watching(g) == g.armed /\ ~g.finished
    IN \/ /\ ConsumeRawFirst(f, lf)
          /\ f' = [f EXCEPT !.pending = <<>>, !.lfAt = None]
          /\ UNCHANGED timeline
       \/ /\ ~ConsumeRawFirst(f, lf)
          /\ \E r \in {FlushEvent(f)} :
                \/ /\ CanStage(r.f, lf)
                   /\ f' = StageLf(r.f, m.id)
                   /\ Append_parts(r, <<>>)
                \/ /\ ~CanStage(r.f, lf)
                   /\ f' = [r.f EXCEPT !.ipcSeen = @ \/ Watching(r.f)]
                   /\ Append_parts(r, <<m>>)

\* append_image, append_sideband of an input wait, raw stderr.
AppendEvent(m) ==
    \E r \in {FlushEvent(f)} : f' = r.f /\ Append_parts(r, <<m>>)

\* Mutant: session_end is appended where it arrives.
AppendSessionEnd_now ==
    LET r == ArmShutdownReset(f) IN f' = r.f /\ Append_parts(r, <<End>>)

\* append_sideband(SessionEnd): it arms the filter, and waits for the rest of
\* raw stdout.
AppendSessionEnd ==
    LET r == ArmShutdownReset(f)
    IN /\ f' = [r.f EXCEPT !.sessionEnd = @ \/ ~f.finalized]
       /\ Append_parts(r, IF f.finalized THEN <<End>> ELSE <<>>)

\* The IPC reader thread calls the handler of the next message.
IpcMessage ==
    /\ ipc # <<>> /\ ~ipcOff /\ phase # "final"
    /\ LET m == Head(ipc)
       IN /\ CASE m.kind \in {"lf", "text"} -> AppendOutputText(m)
               [] m.kind = "image" -> AppendEvent(m)
               [] m.kind = "end" -> AppendSessionEnd
          /\ arrived' = Append(arrived, m)
    /\ ipc' = Tail(ipc)
    /\ UNCHANGED <<script, ipcOff, phase>>

\* shutdown_graceful and shutdown_for_restart: the repaint is expected.
ShutdownStarting ==
    LET r == ArmShutdownReset(f)
    IN /\ phase = "live"
       /\ f' = r.f
       /\ Append_parts(r, <<>>)
       /\ phase' = "stopping"
       /\ UNCHANGED <<script, ipc, ipcOff, arrived>>

\* kill and finish_exited: nothing is announced.
KillStarting ==
    /\ phase = "live"
    /\ phase' = "stopping"
    /\ UNCHANGED <<f, script, ipc, ipcOff, arrived, timeline>>

\* finish_session_end_for_respawn.
SessionEndRespawn ==
    /\ phase = "live"
    /\ f.sessionEnd
    /\ AppendSessionEnd
    /\ ipcOff' = TRUE
    /\ phase' = "stopping"
    /\ UNCHANGED <<script, ipc, arrived>>

\* note_windows_conpty_close_starting, then close_conpty.
CloseConpty ==
    /\ phase = "stopping"
    /\ f' = [f EXCEPT !.closeStarted = TRUE]
    /\ phase' = "closing"
    /\ UNCHANGED <<script, ipc, ipcOff, arrived, timeline>>

\* The raw reader ends: at the end of the pipe, or when stop_and_join gave up
\* waiting for that (what it has not read is lost).
FinishRawText ==
    /\ phase = "closing"
    /\ \E r \in {FinishReader(f)} : f' = r.f /\ Append_parts(r, <<>>)
    /\ phase' = "stopped"
    /\ UNCHANGED <<script, ipc, ipcOff, arrived>>

\* finalize_windows_conpty_raw_text, once the IPC reader is joined or detached.
FinalizeRawText ==
    /\ phase = "stopped"
    /\ ipc = <<>> \/ ipcOff
    /\ \E r \in {Finalize(f)} :
          /\ f' = [r.f EXCEPT !.sessionEnd = FALSE]
          /\ Append_parts(r, IF f.sessionEnd THEN <<End>> ELSE <<>>)
    /\ phase' = "final"
    /\ UNCHANGED <<script, ipc, ipcOff, arrived>>

Next ==
    \/ \E n \in 1 .. Len(script) : AppendRawText(n)
    \/ IpcMessage
    \/ ShutdownStarting \/ KillStarting \/ SessionEndRespawn
    \/ CloseConpty \/ FinishRawText \/ FinalizeRawText

Spec == Init /\ [][Next]_vars

-----------------------------------------------------------------------------
ShownRaw == {timeline[i].id : i \in {j \in DOMAIN timeline : timeline[j].kind = "raw"}}
HeldRaw == {b.id : b \in Range(f.prefix) \cup Range(f.pending)}
Removed == (1 .. NRead) \ (ShownRaw \cup HeldRaw)
ShownLf == {timeline[i].id : i \in {j \in DOMAIN timeline : timeline[j].kind = "lf"}}
ArrivedLf == {arrived[i].id : i \in {j \in DOMAIN arrived : arrived[j].kind = "lf"}}
LostLf == ArrivedLf \ (ShownLf \cup {f.lf})
Where(seq, x) == CHOOSE i \in DOMAIN seq : seq[i] = x

StartupNoise(a, b) ==
    /\ a = 1
    /\ IsPrefix(StartupModes, script)
    /\ \A i \in Len(StartupModes) + 1 .. b : script[i] \in {"n", "r"}
Bare(a, b) == BareMatch(SubSeq(script, a, b)) = b - a + 1
\* Byte r, when it is the last one read, may still belong to a frame.
Ambiguous(r) ==
    \/ r <= Len(StartupModes) /\ IsPrefix(SubSeq(script, 1, r), StartupModes)
    \/ \E a \in 1 .. r : MatchAtStart(SubSeq(script, a, r), FALSE) >= 0
Repaint(a, b) == MatchAtStart(SubSeq(script, a, b), TRUE) = b - a + 1

\* Of raw stdout the filter takes out nothing but the modes set at the very
\* start (with the blank lines behind them) and, once a shutdown was
\* announced, whole repaint frames: however the bytes were cut into reads,
\* and whatever the IPC reader put between them.  At the end nothing is held.
OnlyNoiseRemoved ==
    /\ \A i \in Removed : \E a \in 1 .. i, b \in i .. Len(script) :
          /\ a .. b \subseteq Removed
          /\ StartupNoise(a, b) \/ (f.armed /\ Repaint(a, b))
    /\ phase = "final" => HeldRaw = {} /\ f.lf = None

\* A line feed of the worker that the filter keeps back is dropped only
\* together with a bare repaint, with nothing shown that was read between the
\* two; otherwise it is shown, once, before every raw byte read after it and
\* after every one read before it, but for bytes that may begin a frame.
LineFeedInPlace ==
    /\ \A l \in LostLf :
          LET p == Where(arrived, [kind |-> "lf", id |-> l])
          IN \E a, b \in Removed :
                /\ a <= b /\ a .. b \subseteq Removed /\ Bare(a, b)
                /\ LET q == Where(arrived, Raw(b))
                   IN \A i \in DOMAIN arrived :
                         (i > p /\ i < q) \/ (i > q /\ i < p) =>
                            arrived[i] \notin Range(timeline) \/ arrived[i].kind = "end"
    /\ \A i, j \in DOMAIN timeline : timeline[i].kind = "lf" /\ i # j => timeline[i] # timeline[j]
    /\ \A l \in ShownLf, r \in ShownRaw :
          LET item == [kind |-> "lf", id |-> l]
              read == Where(arrived, item) < Where(arrived, Raw(r))
              shown == Where(timeline, item) < Where(timeline, Raw(r))
          IN (read => shown) /\ (~Ambiguous(r) /\ shown => read)

\* The end of the session is shown once, after everything the worker wrote,
\* although its sideband message overtakes bytes that are still in the pipe.
SessionEndLast ==
    /\ \A i \in DOMAIN timeline : timeline[i].kind = "end" => i = Len(timeline)
    /\ phase = "final" /\ (\E i \in DOMAIN arrived : arrived[i].kind = "end") => End \in Range(timeline)
=============================================================================
