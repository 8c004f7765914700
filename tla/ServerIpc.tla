------------------------------ MODULE ServerIpc ------------------------------
(***************************************************************************)
(* The server side of one worker connection (ServerIpcConnection): the     *)
(* reader thread that turns the worker's sideband messages into inbox      *)
(* facts, and the request thread that blocks on those facts.  The worker   *)
(* is opaque: it may send any message at any time and may close the stream *)
(* at any time, which is what a custom worker, or a crash, can do.         *)
(*                                                                         *)
(* A blocking call is a loop under the inbox lock: evaluate the inbox,     *)
(* return if it holds an answer, otherwise wait on the condition variable. *)
(* Call is the first evaluation, Wake a later one and TimeOut the expiry   *)
(* of the wait; between them the reader may run.                           *)
(*                                                                         *)
(* Time.  The code compares instants in four places.  Three use >= or <=   *)
(* between events of the same interrupt, one asks whether a fact is        *)
(* strictly newer than the last interrupt.  clock therefore advances at    *)
(* each interrupt and nowhere else.  Deadlines are not instants here: a    *)
(* wait may expire whenever it is blocked.                                 *)
(***************************************************************************)
EXTENDS ServerInbox

CONSTANTS
  Types,          \* the message types a worker may send, on Windows (TRUE) and elsewhere
  MaxPipe,        \* bound: messages in flight to the server
  MaxLines,       \* bound: input_line messages of one request
  MaxReady,       \* bound: worker_ready messages waiting in the queue
  MaxInterrupts   \* bound: interrupts of one connection, on Windows and elsewhere

VARIABLES
  pipe,         \* worker-to-server messages written and not yet read
  peer,         \* whether the worker's end of the stream is still open
  input,        \* ServerIpcInbox.input_state
  inbox,        \* the other fields of ServerIpcInbox
  reader,       \* the reader thread: reading or stopped
  handler,      \* event whose handler the reader has still to call
  gate,         \* IpcHandlerGate.enabled
  handled,      \* the last event passed to a handler
  caller,       \* the request thread: idle, dropped, or the call it blocks in
  ret,          \* the last call's name and the value it returned
  sent_at,      \* instant of the last interrupt
  delivery,     \* interrupt_delivery_started_at of the worker process
  clock,
  windows,      \* a built-in worker on Windows; otherwise Unix or a custom worker
  seen          \* history: what the stream has said, see Observe

connection == <<input, inbox, reader, handler, gate, handled>>
request == <<caller, ret, sent_at, delivery, clock, windows>>
vars == <<pipe, peer, connection, request, seen>>

-----------------------------------------------------------------------------
(* Messages.  invalid_json stands for a line that does not parse or has an *)
(* unknown field or type, invalid_payload for bad base64 and invalid_end   *)
(* for a session_end with an unknown reason.  startup_failure is a         *)
(* session_end with reason protocol_error and a message.  output is        *)
(* output_text or output_image.                                            *)

Readiness == {"input_wait", "ready"}
SessionEnds == {"session_end", "startup_failure", "invalid_end"}
MessageTypes ==
  {"worker_ready", "input_line", "output", "interrupt_armed",
   "interrupt_complete", "invalid_json", "invalid_payload"}
    \union Readiness \union SessionEnds

Message(type) ==
  IF type \in {"input_wait", "input_line"} THEN [type: {type}, prompt: Prompts]
  ELSE [type: {type}, prompt: {NoPrompt}]

Messages == UNION {Message(type) : type \in MessageTypes}

ASSUME BoundAssumption ==
  /\ Types \in [BOOLEAN -> SUBSET MessageTypes]
  /\ MaxPipe \in Nat /\ MaxLines \in Nat /\ MaxReady \in Nat
  /\ MaxInterrupts \in [BOOLEAN -> Nat]

NoEvent == "none"
Handlers == {"input_line", "input_wait", "session_end", "output"}

\* Calls that block, with the value each may return.
ReadinessWaits ==
  {"wait_for_input_readiness", "wait_for_input_wait_or_fresh_ready"}
InterruptWaits ==
  {"wait_for_interrupt_armed", "wait_for_interrupt_observation",
   "wait_for_interrupt_readiness", "wait_for_pending_interrupt_transaction"}
Waits ==
  {"wait_for_worker_ready", "begin_input_when_ready",
   "wait_for_request_completion"} \union ReadinessWaits \union InterruptWaits
Values == {"Ok", "Protocol", "SessionEnd", "Disconnected", "Timeout", "Wait"}

Returned(op, value) == [op |-> op, value |-> value]
NoReturn == Returned("wait_for_worker_ready", "Wait")

-----------------------------------------------------------------------------
(* History.  seen.ready: a readiness message was read since the last       *)
(* batch was admitted.  seen.phase follows the order the protocol asks of  *)
(* an interrupt, read off the stream alone: 0 when the transaction opens,  *)
(* 1 after interrupt_armed, 2 after a later interrupt_complete, 3 after a  *)
(* later readiness message; 3 also when no transaction was ever opened.    *)
(* seen.fresh: a readiness message was read since the last interrupt.      *)
(* seen.last: the last readiness message read.                             *)

Histories ==
  [ready: BOOLEAN, fresh: BOOLEAN, phase: 0..3, last: Readiness \union {"none"}]

Unobserved == [ready |-> FALSE, phase |-> 3, fresh |-> FALSE, last |-> "none"]

Observe(type) ==
  seen' = [ready |-> seen.ready \/ type \in Readiness,
           fresh |-> seen.fresh \/ type \in Readiness,
           last  |-> IF type \in Readiness THEN type ELSE seen.last,
           phase |-> CASE seen.phase = 0 /\ type = "interrupt_armed" -> 1
                       [] seen.phase = 1 /\ type = "interrupt_complete" -> 2
                       [] seen.phase = 2 /\ type \in Readiness -> 3
                       [] OTHER -> seen.phase]

-----------------------------------------------------------------------------
Init ==
  /\ pipe = << >>
  /\ peer = "open"
  /\ input = DefaultInputState
  /\ inbox = DefaultInbox
  /\ reader = "reading"
  /\ handler = NoEvent
  /\ gate = TRUE
  /\ handled = NoEvent
  /\ caller = "wait_for_worker_ready"
  /\ ret = NoReturn
  /\ sent_at = None
  /\ delivery = None
  /\ clock = 0
  /\ windows \in BOOLEAN
  /\ seen = Unobserved

-----------------------------------------------------------------------------
(* The worker.                                                             *)

WithinBounds(m) ==
  /\ Len(pipe) < MaxPipe
  /\ m.type = "input_line" => inbox.input_line_events < MaxLines
  /\ m.type = "worker_ready" => inbox.queued_worker_ready < MaxReady

WorkerSend ==
  /\ peer = "open"
  /\ \E type \in Types[windows] : \E m \in Message(type) :
       WithinBounds(m) /\ pipe' = Append(pipe, m)
  /\ UNCHANGED <<peer, connection, request, seen>>

WorkerClose ==
  /\ peer = "open"
  /\ peer' = "closed"
  /\ UNCHANGED <<pipe, connection, request, seen>>

-----------------------------------------------------------------------------
(* The reader thread.  It reads the next line only when the handler of the *)
(* previous one has returned.                                              *)

Reading(m) ==
  /\ reader = "reading"
  /\ handler = NoEvent
  /\ pipe # << >>
  /\ m = Head(pipe)
  /\ pipe' = Tail(pipe)
  /\ UNCHANGED <<peer, gate, handled, request>>

FirstMessage == ~inbox.startup_message_seen

\* Mutant: messages after session_end are looked at.
AdmissibleAfterEnd(m) ==
  /\ m.type # "invalid_json"
  /\ FirstMessage => m.type \in {"worker_ready"} \union SessionEnds

\* The checks every message passes before it is looked at.
Admissible(m) ==
  /\ m.type # "invalid_json"
  /\ ~input.session_end_final
  /\ FirstMessage => m.type \in {"worker_ready"} \union SessionEnds

Fact(m) == Reading(m) /\ Admissible(m) /\ Observe(m.type)

\* The line is refused: the error is latched and the thread ends, without
\* setting disconnected.
Refuse ==
  /\ input' = latch_protocol_error(input, clock)
  /\ reader' = "stopped"
  /\ UNCHANGED handler

\* The thread goes on, with a handler to call or none.
Accept(event) ==
  /\ handler' = event
  /\ UNCHANGED reader

ReadRefused ==
  /\ \E m \in Messages : Reading(m) /\ ~Admissible(m)
  /\ Refuse
  /\ UNCHANGED <<inbox, seen>>

ReadInputLine ==
  \E m \in Message("input_line") :
    /\ Fact(m)
    /\ \/ /\ ~validate_active_input(input)
          /\ Refuse
          /\ UNCHANGED inbox
       \/ /\ validate_active_input(input)
          /\ inbox' = [inbox EXCEPT
               !.readline_result_count = @ + 1,
               !.prompt_history = push_prompt_history(@, m.prompt),
               !.input_line_events = @ + 1]
          /\ Accept("input_line")
          /\ UNCHANGED input

ReadInputWait ==
  \E m \in Message("input_wait") :
    /\ Fact(m)
    /\ input' = record_ready_at(input, clock, TRUE)
    /\ inbox' = [note_readiness(inbox) EXCEPT
         !.prompt_history = push_prompt_history(@, m.prompt),
         !.last_prompt = m.prompt]
    /\ Accept("input_wait")

ReadReady ==
  \E m \in Message("ready") :
    /\ Fact(m)
    /\ input' = record_ready_at(input, clock, FALSE)
    /\ inbox' = [note_readiness(inbox) EXCEPT
         !.last_prompt = NoPrompt,
         !.prompt_history = << >>]
    /\ Accept(NoEvent)

ReadInterruptArmed ==
  \E m \in Message("interrupt_armed") :
    /\ Fact(m)
    /\ LET expected == /\ interrupt_transaction_pending(inbox)
                       /\ inbox.interrupt_armed_at = None
       IN \/ ~expected /\ Refuse /\ UNCHANGED inbox
          \/ /\ expected
             /\ inbox' = [inbox EXCEPT !.interrupt_armed_at = clock]
             /\ Accept(NoEvent)
             /\ UNCHANGED input

ReadInterruptComplete ==
  \E m \in Message("interrupt_complete") :
    /\ Fact(m)
    /\ LET expected == /\ interrupt_transaction_pending(inbox)
                       /\ interrupt_transaction_armed(inbox)
                       /\ inbox.interrupt_complete_at = None
       IN \/ ~expected /\ Refuse /\ UNCHANGED inbox
          \/ /\ expected
             /\ inbox' = [inbox EXCEPT !.interrupt_complete_at = clock,
                                       !.readiness_after_interrupt = FALSE]
             /\ Accept(NoEvent)
             /\ UNCHANGED input

\* A startup failure is latched as a protocol error and the thread goes on.
ReadSessionEnd ==
  \E m \in UNION {Message(type) : type \in SessionEnds} :
    /\ Fact(m)
    /\ \/ /\ m.type = "invalid_end"
          /\ Refuse
          /\ inbox' = [inbox EXCEPT !.startup_message_seen = TRUE]
       \/ /\ m.type # "invalid_end"
          /\ input' = note_session_end(
               IF FirstMessage /\ m.type = "startup_failure"
               THEN latch_protocol_error(input, clock) ELSE input)
          /\ inbox' = [inbox EXCEPT !.startup_message_seen = TRUE,
                                    !.queued_session_end = @ + 1]
          /\ Accept("session_end")

\* output_text and output_image only reach their handler; the image id, which
\* assign_output_image_id gives the image on the way, is left out.
ReadOutput ==
  \E m \in Message("output") \union Message("invalid_payload") :
    /\ Fact(m)
    /\ \/ m.type = "invalid_payload" /\ Refuse
       \/ m.type = "output" /\ Accept("output") /\ UNCHANGED input
    /\ UNCHANGED inbox

\* A second worker_ready is queued like the first.
ReadWorkerReady ==
  \E m \in Message("worker_ready") :
    /\ Fact(m)
    /\ inbox' = [inbox EXCEPT !.startup_message_seen = TRUE,
                              !.queued_worker_ready = @ + 1]
    /\ Accept(NoEvent)
    /\ UNCHANGED input

ReadEof ==
  /\ reader = "reading"
  /\ handler = NoEvent
  /\ pipe = << >>
  /\ peer = "closed"
  /\ inbox' = [inbox EXCEPT !.disconnected = TRUE]
  /\ reader' = "stopped"
  /\ UNCHANGED <<pipe, peer, input, handler, gate, handled, request, seen>>

\* IpcHandlerGate.dispatch, after the inbox lock was released.
Dispatch ==
  /\ handler # NoEvent
  /\ handled' = IF gate THEN handler ELSE handled
  /\ handler' = NoEvent
  /\ UNCHANGED <<pipe, peer, input, inbox, reader, gate, request, seen>>

ReaderStep ==
  \/ ReadRefused \/ ReadInputLine \/ ReadInputWait \/ ReadReady
  \/ ReadInterruptArmed \/ ReadInterruptComplete \/ ReadSessionEnd
  \/ ReadOutput \/ ReadWorkerReady \/ ReadEof \/ Dispatch

-----------------------------------------------------------------------------
(* The blocking calls.  Answer is what one evaluation of the inbox yields: *)
(* the value to return, or Wait.                                           *)

Fault ==
  IF input.protocol_error # None THEN "Protocol"
  ELSE IF input.session_end THEN "SessionEnd"
  ELSE IF inbox.disconnected THEN "Disconnected"
  ELSE "Wait"

\* The answer of a call that looks for faults first and its own fact last.
FaultOr(fact) ==
  IF Fault # "Wait" THEN Fault ELSE IF fact THEN "Ok" ELSE "Wait"

\* A completion observed before an error is not lost to it; a session end
\* is reported before a completion, a completion before the end of stream.
CompletionAnswer ==
  IF request_completion_precedes_latched_protocol_error(input, inbox) THEN "Ok"
  ELSE IF Fault \in {"Protocol", "SessionEnd"} THEN Fault
  ELSE IF request_completion_ready(input, inbox) THEN "Ok"
  ELSE Fault

\* Mutant: any startup message counts as worker_ready.
WorkerReadyAnswerAnyStartup ==
  IF inbox.startup_message_seen THEN "Ok" ELSE Fault

WorkerReadyAnswer == IF inbox.queued_worker_ready > 0 THEN "Ok" ELSE Fault

ReadinessKnown(op) ==
  \/ inbox.last_prompt # NoPrompt
  \/ IF op = "wait_for_input_readiness" THEN input.ready_for_input
     ELSE \/ readiness_observed_after(input, sent_at)
          \/ input_wait_readiness_available(input)

InterruptFact(op) ==
  CASE op = "wait_for_interrupt_armed" -> interrupt_transaction_armed(inbox)
    [] op = "wait_for_interrupt_observation" ->
         inbox.interrupt_complete_at # None /\ inbox.interrupt_complete_at >= sent_at
    [] op = "wait_for_interrupt_readiness" -> inbox.readiness_after_interrupt
    [] OTHER -> \/ ~interrupt_transaction_pending(inbox)
                \/ interrupt_transaction_settled(inbox)

Answer(op) ==
  CASE op = "wait_for_request_completion" -> CompletionAnswer
    [] op = "wait_for_worker_ready" -> WorkerReadyAnswer
    [] op = "begin_input_when_ready" -> FaultOr(input.ready_for_input)
    [] op \in ReadinessWaits -> FaultOr(ReadinessKnown(op))
    [] OTHER -> FaultOr(InterruptFact(op))

\* What a call does to the inbox before it first evaluates it.
InputOnEntry(op) ==
  IF op = "begin_input_when_ready" THEN clear_request_progress(input) ELSE input
InboxOnEntry(op) ==
  IF op = "begin_input_when_ready" THEN reset_after_completed_request(inbox) ELSE inbox

\* What returning a value takes out of the inbox.
InputAfter(op, value, in) ==
  CASE value = "Protocol" -> take_protocol_error(in)
    [] value = "SessionEnd" -> take_session_end_flag(in)
    [] value = "Ok" /\ op = "begin_input_when_ready" -> begin_input(in)
    [] value = "Ok" /\ op = "wait_for_request_completion" -> clear_request_progress(in)
    [] value = "Ok" /\ op = "wait_for_worker_ready" -> take_session_end_flag(in)
    [] OTHER -> in

InboxAfter(op, value, box) ==
  CASE value = "SessionEnd" -> take_session_end(box)
    [] value = "Ok" /\ op = "begin_input_when_ready" -> start_request_records(box)
    [] value = "Ok" /\ op = "wait_for_request_completion" -> reset_request_progress(box)
    [] value = "Ok" /\ op = "wait_for_worker_ready" ->
         take_worker_ready(IF input.session_end THEN take_session_end(box) ELSE box)
    [] value = "Ok" /\ op = "wait_for_pending_interrupt_transaction" ->
         [box EXCEPT !.interrupt_started_at = None]
    [] value = "Ok" /\ op \in ReadinessWaits \union {"wait_for_interrupt_readiness"} ->
         [box EXCEPT !.last_prompt = NoPrompt]
    [] OTHER -> box

\* The spawn and the interrupt give the worker up when their wait fails;
\* a successful arm wait is followed by the native Ctrl-C.
CallerAfter(op, value) ==
  IF op \in {"wait_for_worker_ready", "wait_for_interrupt_armed"} /\ value # "Ok"
  THEN "dropped" ELSE "idle"
DeliveryAfter(op, value) ==
  IF op = "wait_for_interrupt_armed" /\ value = "Ok" THEN sent_at ELSE delivery

Return(op, value) ==
  /\ caller' = CallerAfter(op, value)
  /\ ret' = Returned(op, value)
  /\ delivery' = DeliveryAfter(op, value)
  /\ seen' = IF op = "begin_input_when_ready" /\ value = "Ok"
             THEN [seen EXCEPT !.ready = FALSE] ELSE seen

\* When the request thread makes a call: a batch is only started when none
\* is active and, on Windows, right after the wait for the interrupt
\* transaction.
MayCall(op) ==
  CASE op = "begin_input_when_ready" ->
         /\ ~input.active
         /\ windows => ret = Returned("wait_for_pending_interrupt_transaction", "Ok")
    [] op \in {"wait_for_request_completion", "wait_for_input_readiness"} -> TRUE
    [] op = "wait_for_input_wait_or_fresh_ready" -> ~windows /\ sent_at # None
    [] op = "wait_for_pending_interrupt_transaction" -> windows
    [] op = "wait_for_interrupt_observation" -> delivery # None
    [] op = "wait_for_interrupt_readiness" ->
         windows /\ ret = Returned("wait_for_pending_interrupt_transaction", "Ok")
    [] OTHER -> FALSE

Call(op) ==
  /\ caller = "idle"
  /\ MayCall(op)
  /\ LET value == Answer(op) IN
     /\ input' = InputAfter(op, value, InputOnEntry(op))
     /\ inbox' = InboxAfter(op, value, InboxOnEntry(op))
     /\ \/ /\ value = "Wait"
           /\ caller' = op
           /\ UNCHANGED <<ret, delivery, seen>>
        \/ /\ value # "Wait"
           /\ Return(op, value)
  /\ UNCHANGED <<pipe, peer, reader, handler, gate, handled, sent_at, clock, windows>>

Wake ==
  /\ caller \in Waits
  /\ LET value == Answer(caller) IN
     /\ value # "Wait"
     /\ input' = InputAfter(caller, value, input)
     /\ inbox' = InboxAfter(caller, value, inbox)
     /\ Return(caller, value)
  /\ UNCHANGED <<pipe, peer, reader, handler, gate, handled, sent_at, clock, windows>>

\* A wait that expires returns Timeout without looking at the inbox again,
\* except that the completion wait looks for everything but the end of the
\* stream and the two transaction waits look for their own fact.
MayTimeOut(op) ==
  CASE op = "wait_for_request_completion" -> Answer(op) \in {"Wait", "Disconnected"}
    [] op \in {"wait_for_interrupt_armed", "wait_for_pending_interrupt_transaction"} ->
         ~InterruptFact(op)
    [] OTHER -> TRUE

TimeOut ==
  /\ caller \in Waits
  /\ MayTimeOut(caller)
  /\ Return(caller, "Timeout")
  /\ UNCHANGED <<pipe, peer, connection, sent_at, clock, windows>>

-----------------------------------------------------------------------------
(* The calls that do not block.                                            *)

TakeProtocolError ==
  /\ caller = "idle"
  /\ input.protocol_error # None
  /\ input' = take_protocol_error(input)
  /\ ret' = Returned("take_protocol_error", "Protocol")
  /\ UNCHANGED <<pipe, peer, inbox, reader, handler, gate, handled, caller,
                 sent_at, delivery, clock, windows, seen>>

\* try_take_prompt and take_prompt_history, which completion_info_from_ipc
\* calls after the completion wait has released the lock.
TakePrompts ==
  /\ caller = "idle"
  /\ inbox' = [inbox EXCEPT !.last_prompt = NoPrompt, !.prompt_history = << >>]
  /\ inbox' # inbox
  /\ UNCHANGED <<pipe, peer, input, reader, handler, gate, handled, request, seen>>

\* interrupt_worker_if_running: on Windows an interrupt whose transaction
\* has not settled absorbs this one; otherwise a transaction is opened and
\* the thread blocks until the worker has armed it.
Interrupt ==
  /\ caller = "idle"
  /\ clock < MaxInterrupts[windows]
  /\ windows => \/ delivery = None
                \/ interrupt_transaction_settled_since(inbox, delivery)
  /\ sent_at' = clock
  /\ clock' = clock + 1
  /\ \/ /\ windows
        /\ inbox' = begin_interrupt_transaction(inbox, clock)
        /\ caller' = "wait_for_interrupt_armed"
        /\ delivery' = None
        /\ seen' = [seen EXCEPT !.phase = 0, !.fresh = FALSE]
     \/ /\ ~windows
        /\ seen' = [seen EXCEPT !.fresh = FALSE]
        /\ UNCHANGED <<inbox, caller, delivery>>
  /\ ret' = Returned("interrupt", "Wait")
  /\ UNCHANGED <<pipe, peer, input, reader, handler, gate, handled, windows>>

\* complete_interrupt_delivery_if_settled
CompleteInterruptDelivery ==
  /\ caller = "idle"
  /\ delivery # None
  /\ interrupt_transaction_settled_since(inbox, delivery)
  /\ delivery' = None
  /\ UNCHANGED <<pipe, peer, connection, caller, ret, sent_at, clock, windows, seen>>

DisableHandlers ==
  /\ caller \in {"idle", "dropped"}
  /\ gate
  /\ gate' = FALSE
  /\ caller' = "dropped"
  /\ UNCHANGED <<pipe, peer, input, inbox, reader, handler, handled, ret,
                 sent_at, delivery, clock, windows, seen>>

\* The worker is replaced: a new process, a new connection, nothing kept.
Replace ==
  /\ caller = "dropped"
  /\ ~gate
  /\ pipe' = << >> /\ peer' = "open"
  /\ input' = DefaultInputState /\ inbox' = DefaultInbox
  /\ reader' = "reading" /\ handler' = NoEvent
  /\ gate' = TRUE /\ handled' = NoEvent
  /\ caller' = "wait_for_worker_ready" /\ ret' = NoReturn
  /\ sent_at' = None /\ delivery' = None /\ clock' = 0
  /\ seen' = Unobserved
  /\ UNCHANGED windows

CallerStep ==
  \/ \E op \in Waits : Call(op)
  \/ Wake \/ TimeOut \/ TakeProtocolError \/ TakePrompts \/ Interrupt
  \/ CompleteInterruptDelivery \/ DisableHandlers \/ Replace

Next == WorkerSend \/ WorkerClose \/ ReaderStep \/ CallerStep

Spec == Init /\ [][Next]_vars

-----------------------------------------------------------------------------
(* Properties.                                                             *)

\* Every variable of the connection and of the request thread has its type.
TypeOK ==
  /\ pipe \in Seq(Messages)
  /\ peer \in {"open", "closed"}
  /\ input \in InputStates
  /\ inbox \in Inboxes
  /\ reader \in {"reading", "stopped"}
  /\ handler \in Handlers \union {NoEvent}
  /\ gate \in BOOLEAN
  /\ handled \in Handlers \union {NoEvent}
  /\ caller \in Waits \union {"idle", "dropped"}
  /\ ret \in [op: Waits \union {"take_protocol_error", "interrupt"}, value: Values]
  /\ sent_at \in Option(Instant)
  /\ delivery \in Option(Instant)
  /\ clock \in Nat
  /\ windows \in BOOLEAN
  /\ seen \in Histories

CompletedWith(value) == ret = Returned("wait_for_request_completion", value)
Admitted == ret = Returned("begin_input_when_ready", "Ok")

\* wait_for_request_completion reports a request complete only when the
\* worker has said it is ready again after the batch was admitted; the
\* readiness that let the batch in never completes it.
FreshCompletion == CompletedWith("Ok") => seen.ready

\* While an interrupt transaction is open no request completes and no batch
\* is admitted until interrupt_armed, then interrupt_complete, then a
\* readiness message have been read from the stream in that order
\* (interrupt_transaction_blocks_request_completion,
\* wait_for_pending_interrupt_transaction).
SettledInterrupt == (CompletedWith("Ok") \/ Admitted) => seen.phase = 3

\* A protocol error read after the readiness message that completed the
\* request does not take the completion away from wait_for_request_completion.
CompletionNotHidden ==
  CompletedWith("Protocol") => ~request_completion_ready(input, inbox)

\* The server believes the worker ready for a batch only on a readiness
\* message it has not spent on an earlier batch.
ReadinessSpentOnce == input.ready_for_input => seen.ready

\* Ctrl-C on Unix at an idle prompt: a pending input_wait answers it, a
\* pending ready does not, wait_for_input_wait_or_fresh_ready then needs one
\* read after the interrupt.
FreshReadyAfterInterrupt ==
  ret = Returned("wait_for_input_wait_or_fresh_ready", "Ok") =>
    seen.fresh \/ seen.last = "input_wait"

\* session_end is kept twice, as a flag and as a queued message; a wait
\* that takes one takes the other, so it is reported at most once.
SessionEndOnce ==
  inbox.queued_session_end = IF input.session_end THEN 1 ELSE 0

\* No event of the stream is handed to the output timeline after
\* session_end, until the worker is replaced.
NothingAfterSessionEnd ==
  [][handled = "session_end" => handled' \in {"session_end", NoEvent}]_vars
=============================================================================
