------------------------------ MODULE RSession ------------------------------
(***************************************************************************)
(* The built-in R worker on Unix: the IPC thread of worker.rs and R's main *)
(* thread in r_read_console, which share SessionStateInner under one lock  *)
(* and one condition variable.                                             *)
(*                                                                         *)
(* A batch is a number and a line is its place in its batch: what a line   *)
(* says decides only what R does with it, which is left open (Evaluate,    *)
(* Interrupted, Quit, Crash).  R itself, and SIGINT, are external: R calls *)
(* ReadConsole again after each line and after each interrupt.             *)
(***************************************************************************)
EXTENDS Naturals, Sequences

CONSTANTS
  Prompt,    \* the prompt R shows
  NoPrompt   \* the prompt field of a message that has none

VARIABLES
  pipe,               \* worker-to-server messages not yet read
  peer,               \* whether the worker's end of that stream is open
  to_worker,          \* server-to-worker messages not yet received
  ipc_thread,         \* the worker-ipc thread: running or stopped
  main,               \* where R's main thread is
  sigint,             \* R_interrupts_pending
  input_queue,        \* SessionStateInner, field by field
  active_input,
  shutdown,
  waiting_for_input,
  read_interrupted,
  session_end_emitted,
  protocol_failure,
  line,               \* the line ReadConsole has popped
  ran                 \* history: the lines handed to R, in order

inner == <<input_queue, active_input, shutdown, waiting_for_input,
           read_interrupted, session_end_emitted, protocol_failure>>
thread == <<main, sigint, line, ran>>
vars == <<pipe, peer, to_worker, ipc_thread, thread, inner>>

NoLine == [batch |-> 0, number |-> 0]

Send(type) ==
  pipe' = Append(pipe,
    [type |-> type,
     prompt |-> IF type \in {"input_wait", "input_line"} THEN Prompt
                ELSE NoPrompt])

Init ==
  /\ to_worker = << >>
  /\ ipc_thread = "running"
  /\ main = "setup"
  /\ sigint = FALSE
  /\ input_queue = << >>
  /\ active_input = FALSE
  /\ shutdown = FALSE
  /\ waiting_for_input = FALSE
  /\ read_interrupted = FALSE
  /\ session_end_emitted = FALSE
  /\ protocol_failure = FALSE
  /\ line = NoLine
  /\ ran = << >>

Alive == main # "gone"

-----------------------------------------------------------------------------
(* The IPC thread, one message at a time.                                  *)

Receive(m) ==
  /\ Alive
  /\ ipc_thread = "running"
  /\ to_worker # << >>
  /\ m = Head(to_worker)
  /\ to_worker' = Tail(to_worker)
  /\ UNCHANGED <<peer, thread>>

\* queue_input: the batch becomes its lines.
Lines(m) == [i \in 1..m.lines |-> [batch |-> m.batch, number |-> i]]

\* record_protocol_failure: the diagnostic goes out before the lock is
\* released, and nothing more is said once session_end is out.
record_protocol_failure ==
  IF session_end_emitted THEN UNCHANGED <<pipe, inner>>
  ELSE /\ IF protocol_failure THEN UNCHANGED pipe ELSE Send("output")
       /\ protocol_failure' = TRUE
       /\ shutdown' = TRUE
       /\ active_input' = FALSE
       /\ input_queue' = << >>
       /\ waiting_for_input' = FALSE
       /\ read_interrupted' = FALSE
       /\ UNCHANGED session_end_emitted

\* begin_input, on an input_batch.
ReceiveInputBatch ==
  /\ main # "setup"     \* wait_until_ready
  /\ to_worker # << >> /\ Head(to_worker).type = "input_batch"
  /\ Receive(Head(to_worker))
  /\ \/ /\ active_input
        /\ record_protocol_failure
        /\ ipc_thread' = "stopped"
     \/ /\ ~active_input
        /\ active_input' = TRUE
        /\ input_queue' = input_queue \o Lines(Head(to_worker))
        /\ UNCHANGED <<pipe, ipc_thread, shutdown, waiting_for_input,
                       read_interrupted, session_end_emitted, protocol_failure>>

\* Mutant: the interrupt wakes the reader and leaves the queue alone.
ReceiveInterruptKeepsQueue ==
  /\ to_worker # << >> /\ Head(to_worker).type = "interrupt"
  /\ Receive(Head(to_worker))
  /\ read_interrupted' = (read_interrupted \/ waiting_for_input)
  /\ UNCHANGED <<pipe, ipc_thread, input_queue, active_input, shutdown,
                 waiting_for_input, session_end_emitted, protocol_failure>>

\* discard_pending_input_after_interrupt.
ReceiveInterrupt ==
  /\ to_worker # << >> /\ Head(to_worker).type = "interrupt"
  /\ Receive(Head(to_worker))
  /\ input_queue' = << >>
  /\ read_interrupted' = (read_interrupted \/ waiting_for_input)
  /\ UNCHANGED <<pipe, ipc_thread, active_input, shutdown, waiting_for_input,
                 session_end_emitted, protocol_failure>>

\* request_shutdown keeps the input already accepted.
ReceiveShutdown ==
  /\ main # "setup"
  /\ to_worker # << >> /\ Head(to_worker).type = "shutdown"
  /\ Receive(Head(to_worker))
  /\ shutdown' = TRUE
  /\ read_interrupted' = FALSE
  /\ UNCHANGED <<pipe, ipc_thread, input_queue, active_input, waiting_for_input,
                 session_end_emitted, protocol_failure>>

-----------------------------------------------------------------------------
(* R's main thread.  "read" is the top of the loop in r_read_console; the  *)
(* lock is released before a message is sent, so that is a step of its own.*)

Setup ==
  /\ main = "setup"
  /\ Send("worker_ready")
  /\ main' = "read"
  /\ UNCHANGED <<peer, to_worker, ipc_thread, sigint, line, ran, inner>>

\* Rf_onintr leaves ReadConsole for R's top level, which calls it again.
ReadInterrupted ==
  /\ main = "read"
  /\ read_interrupted
  /\ read_interrupted' = FALSE
  /\ waiting_for_input' = FALSE
  /\ sigint' = FALSE
  /\ UNCHANGED <<pipe, peer, to_worker, ipc_thread, main, line, ran, input_queue,
                 active_input, shutdown, session_end_emitted, protocol_failure>>

\* Mutant: the line is handed out and stays in the queue.
pop_front_peeks(queue) == queue

pop_front(queue) == Tail(queue)

ReadPopLine ==
  /\ main = "read"
  /\ ~read_interrupted
  /\ input_queue # << >>
  /\ line' = Head(input_queue)
  /\ input_queue' = pop_front(input_queue)
  /\ main' = "emit_line"
  /\ UNCHANGED <<pipe, peer, to_worker, ipc_thread, sigint, ran, active_input,
                 shutdown, waiting_for_input, read_interrupted,
                 session_end_emitted, protocol_failure>>

EmitInputLine ==
  /\ main = "emit_line"
  /\ Send("input_line")
  /\ ran' = Append(ran, line)
  /\ main' = "eval"
  /\ UNCHANGED <<peer, to_worker, ipc_thread, sigint, line, inner>>

ReadShutdown ==
  /\ main = "read"
  /\ ~read_interrupted
  /\ input_queue = << >>
  /\ shutdown
  /\ main' = "exit"
  /\ UNCHANGED <<pipe, peer, to_worker, ipc_thread, sigint, line, ran, inner>>

\* Mutant: R is reported waiting while lines are still queued.
MayWaitEarly == ~read_interrupted /\ ~shutdown

MayWait == ~read_interrupted /\ input_queue = << >> /\ ~shutdown

StartWaiting ==
  /\ active_input' = FALSE
  /\ waiting_for_input' = TRUE

\* Both branches that end in emit_input_wait: with a batch active it ends
\* here, otherwise this is the first prompt or a prompt after an interrupt.
ReadWait ==
  /\ main = "read"
  /\ MayWait
  /\ StartWaiting
  /\ main' = "emit_wait"
  /\ UNCHANGED <<pipe, peer, to_worker, ipc_thread, sigint, line, ran,
                 input_queue, shutdown, read_interrupted,
                 session_end_emitted, protocol_failure>>

EmitInputWait ==
  /\ main = "emit_wait"
  /\ Send("input_wait")
  /\ main' = "wait"
  /\ UNCHANGED <<peer, to_worker, ipc_thread, sigint, line, ran, inner>>

\* wait_until_console_input_changes.
WaitEnds ==
  /\ main = "wait"
  /\ input_queue # << >> \/ shutdown \/ read_interrupted
  /\ waiting_for_input' = FALSE
  /\ main' = "read"
  /\ UNCHANGED <<pipe, peer, to_worker, ipc_thread, sigint, line, ran,
                 input_queue, active_input, shutdown, read_interrupted,
                 session_end_emitted, protocol_failure>>

\* R runs the line, with or without output, to its end or to a readline()
\* inside it.
Evaluate ==
  /\ main = "eval"
  /\ ~sigint
  /\ Send("output") \/ UNCHANGED pipe
  /\ main' = "read"
  /\ UNCHANGED <<peer, to_worker, ipc_thread, sigint, line, ran, inner>>

\* SIGINT aborts the line.
Interrupted ==
  /\ main = "eval"
  /\ sigint
  /\ sigint' = FALSE
  /\ main' = "read"
  /\ UNCHANGED <<pipe, peer, to_worker, ipc_thread, line, ran, inner>>

\* The line ends the session.
Quit ==
  /\ main = "eval"
  /\ main' = "exit"
  /\ UNCHANGED <<pipe, peer, to_worker, ipc_thread, sigint, line, ran, inner>>

\* finish_session_end_after_mainloop.
FinishSessionEnd ==
  /\ main = "exit"
  /\ session_end_emitted' = TRUE
  /\ shutdown' = TRUE
  /\ active_input' = FALSE
  /\ input_queue' = << >>
  /\ IF session_end_emitted THEN UNCHANGED pipe
     ELSE Send(IF protocol_failure THEN "startup_failure" ELSE "session_end")
  /\ main' = "ended"
  /\ UNCHANGED <<peer, to_worker, ipc_thread, sigint, line, ran,
                 waiting_for_input, read_interrupted, protocol_failure>>

\* The process exits, after session_end or in a crash; its ends of the
\* pipes close.
Die ==
  /\ main' = "gone"
  /\ peer' = "closed"
  /\ UNCHANGED <<pipe, to_worker, ipc_thread, sigint, line, ran, inner>>
Exit == main = "ended" /\ Die
Crash == Alive /\ Die

IpcThread == ReceiveInputBatch \/ ReceiveInterrupt \/ ReceiveShutdown

MainThread ==
  \/ Setup \/ ReadInterrupted \/ ReadPopLine \/ EmitInputLine \/ ReadShutdown
  \/ ReadWait \/ EmitInputWait \/ WaitEnds \/ Evaluate \/ Interrupted \/ Quit
  \/ FinishSessionEnd \/ Exit
=============================================================================
