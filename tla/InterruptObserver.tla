-------------------------- MODULE InterruptObserver --------------------------
(***************************************************************************)
(* The observer of native Ctrl-C dispatch in a Windows worker.  Windows    *)
(* runs the console handlers on a thread of its own, newest first; the     *)
(* observer is the newest, hands that thread to a watcher and lets the     *)
(* runtime's handler run.  The watcher waits for the thread to end and     *)
(* signals completion.  The runtime main thread consumes the completion    *)
(* together with the cleanup the sideband reader has reported.             *)
(***************************************************************************)

Observer ==
    [inFlight |-> FALSE,    \* INTERRUPT_IN_FLIGHT
     handler |-> "none",    \* the handler thread: none, running or ended
     completion |-> FALSE,  \* completion_event, auto-reset
     input |-> FALSE,       \* input_event, auto-reset
     cleanup |-> FALSE,     \* CLEANUP_PENDING and its event
     failed |-> FALSE]      \* failure_event, manual reset

Poison(o) == [o EXCEPT !.failed = TRUE]

\* A bug: the runtime is not woken.
NotifyInput_lost(o) == o
NotifyInput(o) == [o EXCEPT !.input = TRUE]

\* notify_interrupt_cleanup_complete: one cleanup at a time.
CleanupComplete(o) == IF o.cleanup THEN Poison(o) ELSE [o EXCEPT !.cleanup = TRUE]

\* rearm makes the observer newest; a dispatch in flight has to be joined.
RearmedAtOnce(o) == ~o.inFlight

\* observe_ctrl_c_completion: a second dispatch before the first is joined
\* is a failure.
ObserveCtrlC(o) ==
    IF o.inFlight THEN Poison(o)
    ELSE [o EXCEPT !.inFlight = TRUE, !.handler = "running"]

HandlerEnds(o) == [o EXCEPT !.handler = "ended"]

\* A bug: completion is signalled at the handoff.
CompletionWatcher_early(o) == /\ o.handler # "none" /\ ~o.completion /\ o.inFlight /\ ~o.failed
Watched(o) == [o EXCEPT !.completion = TRUE, !.handler = IF @ = "ended" THEN "none" ELSE @]

\* completion_watcher: the handler thread it was handed has ended.
CompletionWatcher(o) == o.handler = "ended" /\ ~o.failed

\* wait_for_cleanup and consume_completion.
CanJoin(o) == o.completion /\ o.cleanup
ConsumeCompletion(o) ==
    IF ~o.inFlight THEN Poison(o)
    ELSE [o EXCEPT !.completion = FALSE, !.inFlight = FALSE, !.cleanup = FALSE]
=============================================================================
