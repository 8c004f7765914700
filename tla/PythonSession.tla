---------------------------- MODULE PythonSession ----------------------------
(***************************************************************************)
(* The built-in Python worker: its sideband reader, the runtime main       *)
(* thread that runs cells, and background threads of user code, all        *)
(* sharing one input queue; the console observer on Windows; and the       *)
(* server, as far as it decides what to send.  One step holds the session  *)
(* lock; a thread that waits on the condition variable is one whose next   *)
(* step is not enabled, since every change it waits for is notified.  The  *)
(* main thread on Windows waits on the observer's events instead.          *)
(***************************************************************************)
EXTENDS PythonQueue, InterruptObserver, FiniteSets

CONSTANTS Systems,        \* the platforms: a subset of {"unix", "windows"}
          Main, Readers,  \* runtime main thread, background threads
          MainWaitsBehind,\* a cell may read while a background thread does
          MaxInputs, MaxInterrupts, MaxReads   \* bounds

VARIABLES os, q, s, th, obs, sig, ipc, inbox, server, bounds,
          last,    \* history: the input up to here was taken or dropped
          again    \* history: input was taken although it was done with

vars == <<os, q, s, th, obs, sig, ipc, inbox, server, bounds, last, again>>
Threads == {Main} \cup Readers
Windows == os = "windows"

NewThread(pc) ==
    [pc |-> pc, owns |-> FALSE, waited |-> FALSE, got |-> <<>>, raw |-> FALSE,
     kind |-> "ready", then |-> "next", resume |-> "next"]

Init ==
    /\ os \in Systems
    /\ q = EmptyQueue
    /\ s = [active |-> FALSE, cell |-> FALSE, exit |-> FALSE, shutdown |-> FALSE, ended |-> FALSE,
            failure |-> FALSE, interrupt |-> FALSE, checkpoint |-> FALSE, target |-> "none"]
    /\ th = [t \in Threads |-> NewThread(IF t = Main THEN "pub" ELSE "user")]
    /\ obs = Observer /\ sig = FALSE
    /\ ipc = "recv" /\ inbox = <<>>
    /\ server = [fact |-> "none", phase |-> "none", shutdown |-> FALSE]
    /\ last = <<0, 0>> /\ again = FALSE
    /\ bounds = [inputs |-> 0, interrupts |-> 0, reads |-> 0, background |-> FALSE]

\* Places in the input: line l of payload p is <<p, l>>.
Follows(k, l) == k[1] < l[1] \/ (k[1] = l[1] /\ k[2] < l[2])
\* The input is done with up to a place, in lines that were taken just now.
Take(lines, upto) ==
    /\ last' = upto
    /\ again' = (again \/ \E i \in DOMAIN lines : ~Follows(last, lines[i]))
\* So is the payload being read, or all that was accepted: whoever takes a
\* line of it later takes what the session has discarded.
EndPayload == last' = <<last[1], LinesPerPayload>> /\ UNCHANGED again
DropInput ==
    /\ last' = <<IF q.payloads = <<>> THEN last[1] ELSE q.payloads[Len(q.payloads)], LinesPerPayload>>
    /\ UNCHANGED again

Goto(t, pc) == [th EXCEPT ![t].pc = pc]

\* What the server makes of a readiness fact.  On Windows it counts only
\* after interrupt_complete.
Seen(fact) ==
    [server EXCEPT !.fact = IF server.phase \in {"sent", "armed", "native"} /\ Windows THEN @ ELSE fact,
                   !.phase = IF @ = "completed" \/ ~Windows THEN "none" ELSE @]

-----------------------------------------------------------------------------
(* The server. *)

SendInput ==
    /\ bounds.inputs < MaxInputs /\ server.fact # "none" /\ server.phase = "none"
    /\ ~server.shutdown
    /\ bounds' = [bounds EXCEPT !.inputs = @ + 1]
    /\ inbox' = Append(inbox, <<"input", bounds.inputs + 1>>)
    /\ server' = [server EXCEPT !.fact = "none"]
    /\ UNCHANGED <<os, q, s, th, obs, sig, ipc, last, again>>

\* An interrupt asks for fresh readiness, except that on Unix a pending
\* input_wait still counts.  On Windows an interrupt that has not settled
\* stands for the next one; on Unix each is sent.
SendInterrupt ==
    /\ bounds.interrupts < MaxInterrupts /\ ~server.shutdown
    /\ server.phase \in IF Windows THEN {"none"} ELSE {"none", "native"}
    /\ server.fact # "none" \/ bounds.inputs > 0   \* the worker has been ready once
    /\ bounds' = [bounds EXCEPT !.interrupts = @ + 1]
    /\ inbox' = Append(inbox, <<"interrupt">>)
    /\ server' = [server EXCEPT !.phase = "sent",
                                !.fact = IF ~Windows /\ @ = "input_wait" THEN @ ELSE "none"]
    /\ UNCHANGED <<os, q, s, th, obs, sig, ipc, last, again>>

SendShutdown ==
    /\ ~server.shutdown /\ server' = [server EXCEPT !.shutdown = TRUE]
    /\ inbox' = Append(inbox, <<"shutdown">>)
    /\ UNCHANGED <<os, q, s, th, obs, sig, ipc, last, again, bounds>>

\* SIGINT, or ETX once the worker has armed its observer.
NativeInterrupt ==
    /\ server.phase = IF Windows THEN "armed" ELSE "sent"
    /\ server' = [server EXCEPT !.phase = IF Windows THEN "native"
                                          ELSE IF server.fact = "input_wait" THEN "none" ELSE "native"]
    /\ obs' = IF Windows THEN ObserveCtrlC(obs) ELSE obs
    /\ sig' = (sig \/ ~Windows)
    /\ UNCHANGED <<os, q, s, th, ipc, inbox, last, again, bounds>>

\* The handlers behind the observer: Python's, or one of a package that
\* consumes the event.
RuntimeHandler ==
    /\ obs.handler = "running"
    /\ sig' \in {sig, TRUE}
    /\ obs' = HandlerEnds(obs)
    /\ UNCHANGED <<os, q, s, th, ipc, inbox, server, last, again, bounds>>

Watcher ==
    /\ CompletionWatcher(obs) /\ obs' = Watched(obs)
    /\ UNCHANGED <<os, q, s, th, sig, ipc, inbox, server, last, again, bounds>>

-----------------------------------------------------------------------------
(* The sideband reader. *)

Receive(kind) ==
    /\ ipc = "recv" /\ inbox # <<>> /\ Head(inbox)[1] = kind
    /\ inbox' = Tail(inbox)

\* record_protocol_failure_state
ProtocolFailure(st) ==
    IF st.ended THEN st
    ELSE [st EXCEPT !.failure = TRUE, !.exit = TRUE, !.shutdown = TRUE, !.active = FALSE,
                    !.cell = FALSE, !.interrupt = FALSE]

\* begin_input.  Input that comes to an idle session drops an old signal on
\* Unix, and every input drops an interrupt no thread has taken yet.
BeginInput ==
    /\ Receive("input")
    /\ IF s.shutdown
       THEN /\ s' = ProtocolFailure(s) /\ ipc' = "broken"
            /\ IF s.ended THEN UNCHANGED <<q, last, again>> ELSE q' = EmptyQueue /\ DropInput
            /\ UNCHANGED sig
       ELSE /\ q' = PushPayload(q, Head(inbox)[2])
            /\ s' = [s EXCEPT !.active = TRUE, !.interrupt = IF Windows THEN @ ELSE FALSE]
            /\ sig' = (sig /\ (Windows \/ s.active))
            /\ UNCHANGED <<ipc, last, again>>
    /\ obs' = NotifyInput(obs)
    /\ UNCHANGED <<os, th, server, bounds>>

\* interrupt(): on Unix discard and mark under two locks; on Windows note the
\* cleanup, discard without touching a live reader, then arm the delivery.
Interrupt ==
    /\ Receive("interrupt")
    /\ IF Windows
       THEN /\ s' = [s EXCEPT !.checkpoint = TRUE,
                              !.target = IF s.active \/ s.cell \/ q.consumer \/ @ = "busy"
                                         THEN "busy" ELSE "idle"]
            /\ ipc' = "discard" /\ UNCHANGED <<q, last, again>>
       ELSE /\ q' = ClearAfterInterrupt(q) /\ DropInput
            /\ ipc' = "mark" /\ UNCHANGED s
    /\ UNCHANGED <<os, th, obs, sig, server, bounds>>
MarkInterruptRequested ==
    /\ ipc = "mark" /\ ipc' = "recv"
    /\ s' = [s EXCEPT !.interrupt = TRUE]
    /\ UNCHANGED <<os, q, th, obs, sig, inbox, server, last, again, bounds>>
DiscardPendingStdin ==
    /\ ipc = "discard" /\ ipc' = "arm"
    /\ q' = DiscardUnconsumedInput(q) /\ DropInput
    /\ UNCHANGED <<os, s, th, obs, sig, inbox, server, bounds>>
ArmDelivery ==
    /\ ipc = "arm"
    /\ obs' = CleanupComplete(obs)
    /\ IF obs'.failed \/ ~RearmedAtOnce(obs)
       THEN /\ s' = ProtocolFailure(s) /\ ipc' = "broken" /\ UNCHANGED server
       ELSE /\ server' = [server EXCEPT !.phase = "armed"] /\ ipc' = "recv" /\ UNCHANGED s
    /\ UNCHANGED <<os, q, th, sig, inbox, last, again, bounds>>

RequestShutdown ==
    /\ Receive("shutdown")
    /\ s' = [s EXCEPT !.shutdown = TRUE, !.interrupt = IF Windows THEN @ ELSE FALSE]
    /\ obs' = NotifyInput(obs)
    /\ UNCHANGED <<os, q, th, sig, ipc, server, last, again, bounds>>

-----------------------------------------------------------------------------
(* Joining an interrupt on the main thread (Windows). *)

\* A dispatch the main thread has to join before it goes on.
MustJoin == Windows /\ (obs.inFlight \/ obs.completion)

\* finish_in_flight_interrupt and wait_for_activity, at the places that call
\* them; an input notification may be consumed on the way.
FinishInFlight ==
    /\ th[Main].pc \in {"next", "read", "pub", "event"}
    /\ MustJoin /\ CanJoin(obs)
    /\ \E i \in {obs.input, FALSE} : obs' = [ConsumeCompletion(obs) EXCEPT !.input = i]
    /\ th' = [th EXCEPT ![Main].pc = "check",
                        ![Main].resume = IF th[Main].pc = "event" THEN @ ELSE th[Main].pc]
    /\ UNCHANGED <<os, q, s, sig, ipc, inbox, server, last, again, bounds>>

\* Input notifications do not overtake an interrupt that is being joined.
InputEvent ==
    LET r == th[Main]
    IN /\ Windows /\ obs.input
       /\ \/ r.pc = "event"
          \/ r.pc = "pub" /\ s.checkpoint
       /\ obs' = [obs EXCEPT !.input = FALSE]
       /\ th' = IF r.pc = "event" /\ ~obs.inFlight THEN Goto(Main, r.resume) ELSE th
       /\ UNCHANGED <<os, q, s, sig, ipc, inbox, server, last, again, bounds>>

\* A read that ends: the reader leaves the queue and user code goes on.
Release(t) == IF th[t].owns THEN [q EXCEPT !.consumer = FALSE] ELSE q
Back(t) == NewThread(IF t = Main THEN "cell" ELSE "user")

\* check_joined_windows_interrupt: check the signals, emit interrupt_complete
\* under the publication guard, then clear the checkpoint.  A signal for an
\* idle session is dropped; a pending exception ends a read, and is printed
\* by the cell loop.  A read that goes on publishes a fresh input_wait.
CheckJoined ==
    LET r == th[Main]
        raised == sig /\ s.target = "busy"
        reading == r.resume = "read" \/ (r.resume = "pub" /\ r.kind = "input_wait")
    IN /\ r.pc = "check"
       /\ s' = [s EXCEPT !.checkpoint = FALSE, !.target = "none"]
       /\ sig' = FALSE
       /\ server' = [server EXCEPT !.phase = "completed"]
       /\ q' = IF reading /\ raised THEN Release(Main) ELSE q
       /\ th' = [th EXCEPT ![Main] =
            CASE reading /\ raised -> Back(Main)
              [] r.resume = "read" /\ ~raised -> [r EXCEPT !.pc = "wait", !.waited = TRUE]
              [] r.resume = "pub" /\ ~raised -> [r EXCEPT !.pc = "commit"]
              [] r.resume = "pub" /\ raised /\ ~reading -> [r EXCEPT !.pc = "pub"]
              [] r.resume = "next" -> [r EXCEPT !.pc = "pub", !.kind = "ready", !.then = "next"]]
       /\ UNCHANGED <<os, obs, ipc, inbox, last, again, bounds>>

-----------------------------------------------------------------------------
(* Publishing ready and input_wait. *)

\* After a publication: the cell loop, the read, or its return.
Published(t) == [th EXCEPT ![t] = IF th[t].then = "back" THEN Back(t)
                                  ELSE [th[t] EXCEPT !.pc = th[t].then]]

PublishUnix(t) ==
    /\ ~Windows /\ th[t].pc = "pub"
    /\ server' = Seen(th[t].kind)
    /\ th' = Published(t)
    /\ UNCHANGED <<os, q, s, obs, sig, ipc, inbox, last, again, bounds>>

\* prepare_windows_sideband_publication: with no interrupt to wait for, the
\* observer is made newest.  Cleanup and even its dispatch may come between
\* the two: it starts over, or marks the checkpoint (again) first.
PreparePublication(t) ==
    /\ Windows /\ th[t].pc = "pub" /\ ~s.checkpoint
    /\ t = Main => ~MustJoin
    /\ th' = Goto(t, "rearm")
    /\ UNCHANGED <<os, q, s, obs, sig, ipc, inbox, server, last, again, bounds>>
Rearm(t) ==
    /\ th[t].pc = "rearm"
    /\ th' = Goto(t, IF ~RearmedAtOnce(obs) THEN "mark" ELSE IF s.checkpoint THEN "pub" ELSE "commit")
    /\ UNCHANGED <<os, q, s, obs, sig, ipc, inbox, server, last, again, bounds>>
MarkCheckpointPending(t) ==
    /\ th[t].pc = "mark"
    /\ s' = [s EXCEPT !.checkpoint = TRUE]
    /\ th' = Goto(t, "pub")
    /\ UNCHANGED <<os, q, obs, sig, ipc, inbox, server, last, again, bounds>>

\* publish_windows_sideband_readiness, under the publication guard: cleanup
\* that came meanwhile defers it, and ready is left out while a reader waits.
CommitPublication(t) ==
    LET r == th[t]
    IN /\ r.pc = "commit"
       /\ CASE s.checkpoint -> th' = Goto(t, "pub") /\ UNCHANGED <<s, server>>
            [] ~s.checkpoint /\ r.kind = "ready" /\ q.consumer ->
                 th' = Published(t) /\ UNCHANGED <<s, server>>
            [] OTHER ->
                 /\ server' = Seen(r.kind)
                 /\ s' = IF r.kind = "ready" THEN [s EXCEPT !.active = FALSE, !.cell = FALSE] ELSE s
                 /\ th' = Published(t)
       /\ UNCHANGED <<os, q, obs, sig, ipc, inbox, last, again, bounds>>

-----------------------------------------------------------------------------
(* Managed reads, by a cell or by a background thread. *)

\* next_queue_line_action and the loop of read_queue_raw_bytes: one turn
\* under the session lock.
Blocked(t) == t # Main /\ s.checkpoint

ReadStops(t) ==
    /\ th[t].pc = "read" /\ ~Blocked(t) /\ (t = Main => ~MustJoin)
    /\ \/ /\ s.exit /\ UNCHANGED <<s, sig>>
       \/ /\ ~s.exit /\ s.interrupt
          /\ s' = [s EXCEPT !.interrupt = FALSE] /\ sig' = TRUE
       \/ /\ ~s.exit /\ ~s.interrupt /\ th[t].got # <<>> /\ UNCHANGED <<s, sig>>
    /\ q' = Release(t)
    /\ th' = [th EXCEPT ![t] = Back(t)]
    /\ UNCHANGED <<os, obs, ipc, inbox, server, last, again, bounds>>

\* The queue is this reader's, or free.
Owner(t) == th[t].owns \/ ~q.consumer
Turn(t) ==
    /\ th[t].pc = "read" /\ ~Blocked(t) /\ (t = Main => ~MustJoin)
    /\ ~s.exit /\ ~s.interrupt /\ th[t].got = <<>>

ReadLine(t) ==
    LET n == IF th[t].raw THEN 2 ELSE 1
    IN /\ Turn(t) /\ Owner(t) /\ HasStdin(q)
       /\ q' = [ConsumeBytes(q, n) EXCEPT !.consumer = FALSE]
       /\ Take(Consumed(q, n), Consumed(q, n)[Len(Consumed(q, n))])
       /\ s' = [s EXCEPT !.active = TRUE]
       /\ th' = [th EXCEPT ![t].owns = FALSE, ![t].got = Consumed(q, n),
                           ![t].pc = IF s.cell THEN "line" ELSE "detached"]
       /\ UNCHANGED <<os, obs, sig, ipc, inbox, server, bounds>>

ReadAtShutdown(t) ==
    /\ Turn(t) /\ Owner(t) /\ ~HasStdin(q) /\ s.shutdown
    /\ q' = [q EXCEPT !.consumer = FALSE]
    /\ th' = [th EXCEPT ![t] = Back(t)]
    /\ UNCHANGED <<os, s, obs, sig, ipc, inbox, server, last, again, bounds>>

ReadWaits(t) ==
    /\ Turn(t) /\ Owner(t) /\ ~HasStdin(q) /\ ~s.shutdown
    /\ q' = [q EXCEPT !.consumer = TRUE]
    /\ th' = [th EXCEPT ![t].owns = TRUE, ![t].waited = TRUE,
                        ![t].pc = IF ~th[t].waited THEN "wait"
                                  ELSE IF Windows /\ t = Main THEN "event" ELSE "read",
                        ![t].resume = "read"]
    /\ th' # th
    /\ UNCHANGED <<os, s, obs, sig, ipc, inbox, server, last, again, bounds>>

\* Another reader owns the queue: the main thread on Windows waits for the
\* observer's events, which the owner does not signal when it leaves.
ReadBehind ==
    /\ Turn(Main) /\ ~Owner(Main) /\ Windows
    /\ th' = [th EXCEPT ![Main].pc = "event", ![Main].resume = "read"]
    /\ UNCHANGED <<os, q, s, obs, sig, ipc, inbox, server, last, again, bounds>>

\* The input_wait of a read: the request is over until input comes.
InputWait(t) ==
    /\ th[t].pc = "wait"
    /\ s' = [s EXCEPT !.active = FALSE]
    /\ th' = [th EXCEPT ![t].pc = "pub", ![t].kind = "input_wait", ![t].then = "read"]
    /\ UNCHANGED <<os, q, obs, sig, ipc, inbox, server, last, again, bounds>>

\* complete_detached_read_request: no cell runs, so the answer to the
\* background thread is the whole request.
CompleteDetached(t) ==
    /\ th[t].pc = "detached"
    /\ s' = [s EXCEPT !.active = FALSE]
    /\ th' = [th EXCEPT ![t].pc = "pub", ![t].kind = "ready", ![t].then = "line"]
    /\ UNCHANGED <<os, q, obs, sig, ipc, inbox, server, last, again, bounds>>

\* The read returns; a raw read looks at the session once more, and a line
\* read on Unix takes an interrupt that came meanwhile.
ReadReturns(t) ==
    /\ th[t].pc = "line"
    /\ IF th[t].raw
       THEN th' = Goto(t, "read") /\ UNCHANGED <<s, sig>>
       ELSE /\ th' = [th EXCEPT ![t] = Back(t)]
            /\ sig' = (sig \/ (s.interrupt /\ ~Windows))
            /\ s' = IF Windows THEN s ELSE [s EXCEPT !.interrupt = FALSE]
    /\ UNCHANGED <<os, q, obs, ipc, inbox, server, last, again, bounds>>

-----------------------------------------------------------------------------
(* The cell loop and user code. *)

\* wait_for_next_cell.
TakeInterrupt ==
    /\ th[Main].pc = "next" /\ ~s.exit /\ s.interrupt
    /\ s' = [s EXCEPT !.interrupt = FALSE, !.active = FALSE, !.cell = FALSE]
    /\ th' = Goto(Main, "clear")
    /\ UNCHANGED <<os, q, obs, sig, ipc, inbox, server, last, again, bounds>>
ReadyAfterInterrupt ==
    /\ th[Main].pc = "clear"
    /\ sig' = FALSE /\ server' = Seen("ready")
    /\ th' = Goto(Main, "next")
    /\ UNCHANGED <<os, q, s, obs, ipc, inbox, last, again, bounds>>
NextCell ==
    /\ th[Main].pc = "next" /\ ~MustJoin /\ ~s.exit /\ ~s.interrupt /\ HasCell(q)
    /\ q' = TakeCellPayload(q)
    /\ Take(<< <<Head(q.payloads), 1>> >>, <<Head(q.payloads), LinesPerPayload>>)
    /\ s' = [s EXCEPT !.cell = TRUE]
    /\ th' = Goto(Main, "cell")
    /\ UNCHANGED <<os, obs, sig, ipc, inbox, server, bounds>>
LeaveLoop ==
    /\ th[Main].pc = "next" /\ ~MustJoin
    /\ s.exit \/ (s.shutdown /\ ~s.interrupt /\ ~HasCell(q))
    /\ th' = Goto(Main, "final")
    /\ UNCHANGED <<os, q, s, obs, sig, ipc, inbox, server, last, again, bounds>>
WaitForActivity ==
    /\ th[Main].pc = "next" /\ Windows /\ ~MustJoin
    /\ ~s.exit /\ ~s.shutdown /\ ~HasCell(q)
    /\ th' = [th EXCEPT ![Main].pc = "event", ![Main].resume = "next"]
    /\ UNCHANGED <<os, q, s, obs, sig, ipc, inbox, server, last, again, bounds>>

\* User code asks for input, or for the end of the session.
StartRead(t) ==
    /\ th[t].pc = IF t = Main THEN "cell" ELSE "user"
    /\ ~s.ended /\ bounds.reads < MaxReads
    /\ Windows /\ ~MainWaitsBehind =>
         IF t = Main THEN \A r \in Readers : th[r].pc = "user" ELSE th[Main].pc # "read"
    /\ bounds' = [bounds EXCEPT !.reads = @ + 1, !.background = @ \/ t # Main]
    /\ \E raw \in BOOLEAN :
         th' = [th EXCEPT ![t] = [NewThread("read") EXCEPT !.raw = raw]]
    /\ UNCHANGED <<os, q, s, obs, sig, ipc, inbox, server, last, again>>
RequestExit ==
    /\ th[Main].pc = "cell" /\ ~s.exit /\ bounds.reads < MaxReads
    /\ s' = [s EXCEPT !.exit = TRUE] /\ obs' = NotifyInput(obs)
    /\ UNCHANGED <<os, q, th, sig, ipc, inbox, server, last, again, bounds>>

\* The cell ends by itself or with a KeyboardInterrupt.
CellEnds ==
    /\ th[Main].pc = "cell"
    /\ sig' \in {sig, FALSE}
    /\ IF s.exit THEN /\ th' = Goto(Main, "final")
                      /\ s' = [s EXCEPT !.exit = FALSE, !.cell = FALSE]
       ELSE th' = Goto(Main, "finish") /\ UNCHANGED s
    /\ UNCHANGED <<os, q, obs, ipc, inbox, server, last, again, bounds>>

FinishCellRequest ==
    /\ th[Main].pc = "finish"
    /\ q' = ClearAfterCellFinish(q) /\ EndPayload
    /\ s' = [s EXCEPT !.cell = FALSE, !.active = @ /\ q.consumer]
    /\ th' = [th EXCEPT ![Main].pc = IF q.consumer THEN "next" ELSE "pub",
                        ![Main].kind = "ready", ![Main].then = "next"]
    /\ UNCHANGED <<os, obs, sig, ipc, inbox, server, bounds>>

\* finalize_python and finish_session_end; background threads end with it.
FinishSessionEnd ==
    /\ th[Main].pc = "final"
    /\ s' = [s EXCEPT !.ended = TRUE, !.shutdown = TRUE, !.active = FALSE, !.cell = FALSE]
    /\ q' = ClearAfterInterrupt(q) /\ DropInput
    /\ th' = [t \in Threads |-> NewThread("done")]
    /\ server' = [server EXCEPT !.fact = "none", !.phase = "ended", !.shutdown = TRUE]
    /\ UNCHANGED <<os, obs, sig, ipc, inbox, bounds>>

-----------------------------------------------------------------------------
ServerStep == SendInput \/ SendInterrupt \/ SendShutdown
NativeStep == NativeInterrupt \/ RuntimeHandler \/ Watcher
IpcStep == BeginInput \/ Interrupt \/ MarkInterruptRequested \/ DiscardPendingStdin
           \/ ArmDelivery \/ RequestShutdown
ReadStep(t) == \/ ReadStops(t) \/ ReadLine(t) \/ ReadAtShutdown(t) \/ ReadWaits(t)
               \/ InputWait(t) \/ CompleteDetached(t) \/ ReadReturns(t)
PublishStep(t) == PublishUnix(t) \/ PreparePublication(t) \/ Rearm(t)
                  \/ MarkCheckpointPending(t) \/ CommitPublication(t)
MainStep == \/ FinishInFlight \/ InputEvent \/ CheckJoined \/ ReadBehind
            \/ TakeInterrupt \/ ReadyAfterInterrupt \/ NextCell \/ LeaveLoop \/ WaitForActivity
            \/ CellEnds \/ FinishCellRequest \/ FinishSessionEnd
            \/ ReadStep(Main) \/ PublishStep(Main)

Next ==
    \/ ServerStep \/ NativeStep \/ IpcStep \/ MainStep \/ RequestExit
    \/ \E t \in Threads : StartRead(t)
    \/ \E t \in Readers : ReadStep(t) \/ PublishStep(t)

\* Threads are scheduled, signals arrive, and the code of a cell ends.
Fairness ==
    /\ WF_vars(NativeStep) /\ WF_vars(IpcStep) /\ WF_vars(MainStep)
    /\ \A t \in Readers : WF_vars(ReadStep(t) \/ PublishStep(t))

Spec == Init /\ [][Next]_vars /\ Fairness

-----------------------------------------------------------------------------
(* Properties. *)

\* What a cell or a reader takes was not done with before: no cell or line
\* is taken twice or overtaken by a later one, none is both run and read, and
\* nothing of a payload reaches anybody once its cell has ended, once the
\* next cell was taken or once an interrupt has discarded it, whichever
\* threads read.
ConsumedInOrder == ~again

\* On Windows, when the server takes an interrupt for settled, the handlers
\* have run, their signal was taken and the observer is ready for the next:
\* the interrupt cannot strike the input that the server then sends.
SettledMeansQuiet ==
    Windows /\ server.phase = "none" =>
        ~sig /\ obs.handler = "none" /\ ~obs.inFlight /\ ~obs.cleanup /\ ~obs.failed

\* The server is told that it may send again after every input it sends and
\* after every interrupt, or that the session has ended: no notification is
\* lost.  Only interrupts of a session in which background threads read are
\* left out: such a thread may take the interrupt for itself, or mark the
\* checkpoint after the main thread has passed it.
ServerIsAnswered ==
    server.fact = "none" ~> \/ server.fact # "none" \/ s.ended
                            \/ (bounds.background /\ bounds.interrupts > 0)

=============================================================================
