--------------------------- MODULE SidebandProofs ---------------------------
(***************************************************************************)
(* Proofs about Sideband, for every number of batches, of lines in a batch *)
(* and of interrupts: the built-in R worker and the server agree on what   *)
(* has been read.                                                          *)
(***************************************************************************)
EXTENDS Sideband, TLAPS

-----------------------------------------------------------------------------
(***************************************************************************)
(* ServerIpc by itself, for every set of prompts, every set of message     *)
(* types the worker may send and every bound.                              *)
(***************************************************************************)
-----------------------------------------------------------------------------
(* What the operators of InputState and ServerInbox return.                *)

\* Every method of InputState yields an InputState.
LEMMA InputOperators ==
  ASSUME NEW s \in InputStates, NEW now \in Nat, NEW w \in BOOLEAN
  PROVE  /\ begin_input(s) \in InputStates
         /\ clear_request_progress(s) \in InputStates
         /\ record_ready_at(s, now, w) \in InputStates
         /\ latch_protocol_error(s, now) \in InputStates
         /\ take_protocol_error(s) \in InputStates
         /\ note_session_end(s) \in InputStates
         /\ take_session_end_flag(s) \in InputStates
BY DEF InputStates, begin_input, clear_request_progress, record_ready_at,
       latch_protocol_error, take_protocol_error, note_session_end,
       take_session_end_flag, Option, Instant, None

\* Every helper of ServerIpcInbox yields an inbox.
LEMMA InboxOperators ==
  ASSUME NEW box \in Inboxes, NEW now \in Nat
  PROVE  /\ begin_interrupt_transaction(box, now) \in Inboxes
         /\ note_readiness(box) \in Inboxes
         /\ reset_request_progress(box) \in Inboxes
         /\ reset_after_completed_request(box) \in Inboxes
         /\ start_request_records(box) \in Inboxes
         /\ take_session_end(box) \in Inboxes
         /\ box.queued_worker_ready > 0 => take_worker_ready(box) \in Inboxes
<1>1. /\ begin_interrupt_transaction(box, now) \in Inboxes
      /\ note_readiness(box) \in Inboxes
      /\ reset_request_progress(box) \in Inboxes
  BY DEF Inboxes, begin_interrupt_transaction, note_readiness,
         reset_request_progress, Option, Instant, None
<1>2. reset_after_completed_request(box) \in Inboxes
  BY DEF Inboxes, reset_request_progress, reset_after_completed_request
<1>3. start_request_records(box) \in Inboxes
  <2>1. << >> \in Seq(Prompts)
    OBVIOUS
  <2>. QED  BY <2>1 DEF Inboxes, start_request_records
<1>4. take_session_end(box) \in Inboxes
  BY DEF Inboxes, take_session_end
<1>5. box.queued_worker_ready > 0 => take_worker_ready(box) \in Inboxes
  BY DEF Inboxes, take_worker_ready
<1>. QED  BY <1>1, <1>2, <1>3, <1>4, <1>5

\* The prompt history stays a sequence of prompts.
LEMMA PromptHistoryType ==
  ASSUME NEW h \in Seq(Prompts), NEW p \in Prompts
  PROVE  push_prompt_history(h, p) \in Seq(Prompts)
<1>1. Append(h, p) \in Seq(Prompts)
  OBVIOUS
<1>2. h # << >> => Append(Tail(h), p) \in Seq(Prompts)
  OBVIOUS
<1>3. Len(h) >= MaxPromptHistory => h # << >>
  BY PromptAssumption
<1>. QED  BY <1>1, <1>2, <1>3 DEF push_prompt_history

\* The updates the reader makes for input_line, session_end and worker_ready.
LEMMA InboxUpdates ==
  ASSUME NEW box \in Inboxes, NEW h \in Seq(Prompts)
  PROVE  /\ [box EXCEPT !.readline_result_count = @ + 1,
                        !.prompt_history = h,
                        !.input_line_events = @ + 1] \in Inboxes
         /\ [box EXCEPT !.startup_message_seen = TRUE,
                        !.queued_session_end = @ + 1] \in Inboxes
         /\ [box EXCEPT !.startup_message_seen = TRUE,
                        !.queued_worker_ready = @ + 1] \in Inboxes
<1>1. /\ box.readline_result_count + 1 \in Nat
      /\ box.input_line_events + 1 \in Nat
      /\ box.queued_session_end + 1 \in Nat
      /\ box.queued_worker_ready + 1 \in Nat
  BY DEF Inboxes
<1>2. [box EXCEPT !.readline_result_count = @ + 1,
                  !.prompt_history = h,
                  !.input_line_events = @ + 1] \in Inboxes
  BY <1>1 DEF Inboxes
<1>3. [box EXCEPT !.startup_message_seen = TRUE,
                  !.queued_session_end = @ + 1] \in Inboxes
  BY <1>1 DEF Inboxes
<1>4. [box EXCEPT !.startup_message_seen = TRUE,
                  !.queued_worker_ready = @ + 1] \in Inboxes
  BY <1>1 DEF Inboxes
<1>. QED  BY <1>2, <1>3, <1>4

-----------------------------------------------------------------------------
(* Type correctness.                                                       *)

\* A blocking call returns one of the values the callers match on.
LEMMA AnswerType ==
  ASSUME NEW op PROVE Answer(op) \in Values
<1>1. Fault \in Values
  BY DEF Fault, Values
<1>2. CompletionAnswer \in Values /\ WorkerReadyAnswer \in Values
  BY <1>1 DEF CompletionAnswer, WorkerReadyAnswer, Values
<1>3. \A fact : FaultOr(fact) \in Values
  BY <1>1 DEF FaultOr, Values
<1>. QED  BY <1>2, <1>3 DEF Answer

\* What a call leaves in the inbox is again an inbox.
LEMMA AfterType ==
  ASSUME NEW op, NEW value, NEW in \in InputStates, NEW box \in Inboxes,
         value = "Ok" /\ op = "wait_for_worker_ready" =>
           box.queued_worker_ready > 0
  PROVE  /\ InputAfter(op, value, in) \in InputStates
         /\ InboxAfter(op, value, box) \in Inboxes
<1>1. InputAfter(op, value, in) \in InputStates
  BY InputOperators DEF InputAfter
<1>2. value = "Ok" /\ op = "wait_for_worker_ready" =>
        take_worker_ready(IF input.session_end THEN take_session_end(box) ELSE box)
          \in Inboxes
  <2>1. take_session_end(box).queued_worker_ready = box.queued_worker_ready
    BY DEF take_session_end, Inboxes
  <2>. QED  BY <2>1, InboxOperators
<1>3. /\ [box EXCEPT !.interrupt_started_at = None] \in Inboxes
      /\ [box EXCEPT !.last_prompt = NoPrompt] \in Inboxes
  BY DEF Inboxes, Option
<1>4. InboxAfter(op, value, box) \in Inboxes
  BY <1>2, <1>3, InboxOperators DEF InboxAfter
<1>. QED  BY <1>1, <1>4

\* The same for what it does before it looks at the inbox.
LEMMA EntryType ==
  ASSUME NEW op, input \in InputStates, inbox \in Inboxes
  PROVE  /\ InputOnEntry(op) \in InputStates
         /\ InboxOnEntry(op) \in Inboxes
         /\ op = "wait_for_worker_ready" => InboxOnEntry(op) = inbox
BY InputOperators, InboxOperators DEF InputOnEntry, InboxOnEntry

\* Reading a message removes it from the stream.
LEMMA ReadingType ==
  ASSUME TypeOK, NEW m, Reading(m)
  PROVE  m \in Messages /\ pipe' \in Seq(Messages)
BY DEF TypeOK, Reading

\* The history keeps its type whatever is read.
LEMMA ObserveType ==
  ASSUME TypeOK, NEW type, Observe(type)
  PROVE  seen' \in Histories
BY DEF TypeOK, Observe, Readiness, Histories

\* The initial state has the types.
LEMMA TypeInit == Init => TypeOK
BY DEF Init, TypeOK, DefaultInputState, InputStates, DefaultInbox, Inboxes,
       Option, Instant, None, NoEvent, Handlers, Waits, ReadinessWaits,
       InterruptWaits, NoReturn, Returned, Values, Unobserved, Readiness,
       Histories

\* The reader thread keeps the types.
LEMMA TypeReader == TypeOK /\ ReaderStep => TypeOK'
<1>. SUFFICES ASSUME TypeOK, ReaderStep PROVE TypeOK'
  OBVIOUS
<1>. USE DEF NoEvent, Handlers
<1>1. CASE ReadRefused
  <2>1. PICK m \in Messages : Reading(m)
    BY <1>1 DEF ReadRefused
  <2>2. input' \in InputStates
    BY <1>1, InputOperators DEF ReadRefused, Refuse, TypeOK
  <2>. QED  BY <1>1, <2>1, <2>2, ReadingType
       DEF ReadRefused, Refuse, Reading, TypeOK, request
<1>2. CASE ReadInputLine
  <2>1. PICK m \in Message("input_line") :
          /\ Fact(m)
          /\ \/ Refuse /\ UNCHANGED inbox
             \/ /\ inbox' = [inbox EXCEPT
                     !.readline_result_count = @ + 1,
                     !.prompt_history = push_prompt_history(@, m.prompt),
                     !.input_line_events = @ + 1]
                /\ Accept("input_line")
                /\ UNCHANGED input
    BY <1>2 DEF ReadInputLine
  <2>2. m.prompt \in Prompts
    BY DEF Message
  <2>3. input' \in InputStates
    BY <2>1, InputOperators DEF Refuse, TypeOK
  <2>4. push_prompt_history(inbox.prompt_history, m.prompt) \in Seq(Prompts)
    BY <2>2, PromptHistoryType DEF TypeOK, Inboxes
  <2>5. inbox' \in Inboxes
    <3>1. CASE UNCHANGED inbox
      BY <3>1 DEF TypeOK
    <3>2. CASE inbox' = [inbox EXCEPT
                 !.readline_result_count = @ + 1,
                 !.prompt_history = push_prompt_history(@, m.prompt),
                 !.input_line_events = @ + 1]
      BY <3>2, <2>4, InboxUpdates DEF TypeOK
    <3>. QED  BY <2>1, <3>1, <3>2
  <2>6. reader' \in {"reading", "stopped"} /\ handler' \in Handlers \union {NoEvent}
    BY <2>1 DEF Refuse, Accept, TypeOK
  <2>. QED  BY <2>1, <2>3, <2>5, <2>6, ReadingType, ObserveType
       DEF Fact, Reading, TypeOK, request
<1>3. CASE ReadInputWait
  <2>1. PICK m \in Message("input_wait") :
          /\ Fact(m)
          /\ input' = record_ready_at(input, clock, TRUE)
          /\ inbox' = [note_readiness(inbox) EXCEPT
               !.prompt_history = push_prompt_history(@, m.prompt),
               !.last_prompt = m.prompt]
          /\ Accept("input_wait")
    BY <1>3 DEF ReadInputWait
  <2>2. m.prompt \in Prompts
    BY DEF Message
  <2>3. input' \in InputStates
    BY <2>1, InputOperators DEF TypeOK
  <2>4. note_readiness(inbox) \in Inboxes
    BY InboxOperators DEF TypeOK
  <2>5. push_prompt_history(note_readiness(inbox).prompt_history, m.prompt)
          \in Seq(Prompts)
    BY <2>2, <2>4, PromptHistoryType DEF Inboxes
  <2>6. inbox' \in Inboxes
    BY <2>1, <2>2, <2>4, <2>5 DEF Inboxes
  <2>. QED  BY <2>1, <2>3, <2>6, ReadingType, ObserveType
       DEF Fact, Reading, Accept, TypeOK, request
<1>4. CASE ReadReady
  <2>1. PICK m \in Message("ready") :
          /\ Fact(m)
          /\ input' = record_ready_at(input, clock, FALSE)
          /\ inbox' = [note_readiness(inbox) EXCEPT
               !.last_prompt = NoPrompt,
               !.prompt_history = << >>]
          /\ Accept(NoEvent)
    BY <1>4 DEF ReadReady
  <2>2. input' \in InputStates
    BY <2>1, InputOperators DEF TypeOK
  <2>3. note_readiness(inbox) \in Inboxes /\ << >> \in Seq(Prompts)
    BY InboxOperators DEF TypeOK
  <2>4. inbox' \in Inboxes
    BY <2>1, <2>3 DEF Inboxes
  <2>. QED  BY <2>1, <2>2, <2>4, ReadingType, ObserveType
       DEF Fact, Reading, Accept, TypeOK, request
<1>5. CASE ReadInterruptArmed
  <2>1. PICK m \in Message("interrupt_armed") :
          /\ Fact(m)
          /\ \/ Refuse /\ UNCHANGED inbox
             \/ /\ inbox' = [inbox EXCEPT !.interrupt_armed_at = clock]
                /\ Accept(NoEvent)
                /\ UNCHANGED input
    BY <1>5 DEF ReadInterruptArmed
  <2>2. input' \in InputStates
    BY <2>1, InputOperators DEF Refuse, TypeOK
  <2>3. inbox' \in Inboxes
    BY <2>1 DEF TypeOK, Inboxes, Option, Instant
  <2>. QED  BY <2>1, <2>2, <2>3, ReadingType, ObserveType
       DEF Fact, Reading, Refuse, Accept, TypeOK, request
<1>6. CASE ReadInterruptComplete
  <2>1. PICK m \in Message("interrupt_complete") :
          /\ Fact(m)
          /\ \/ Refuse /\ UNCHANGED inbox
             \/ /\ inbox' = [inbox EXCEPT !.interrupt_complete_at = clock,
                                          !.readiness_after_interrupt = FALSE]
                /\ Accept(NoEvent)
                /\ UNCHANGED input
    BY <1>6 DEF ReadInterruptComplete
  <2>2. input' \in InputStates
    BY <2>1, InputOperators DEF Refuse, TypeOK
  <2>3. inbox' \in Inboxes
    BY <2>1 DEF TypeOK, Inboxes, Option, Instant
  <2>. QED  BY <2>1, <2>2, <2>3, ReadingType, ObserveType
       DEF Fact, Reading, Refuse, Accept, TypeOK, request
<1>7. CASE ReadSessionEnd
  <2>1. PICK m : /\ Fact(m)
                 /\ \/ /\ Refuse
                       /\ inbox' = [inbox EXCEPT !.startup_message_seen = TRUE]
                    \/ /\ input' = note_session_end(
                            IF FirstMessage /\ m.type = "startup_failure"
                            THEN latch_protocol_error(input, clock) ELSE input)
                       /\ inbox' = [inbox EXCEPT !.startup_message_seen = TRUE,
                                                 !.queued_session_end = @ + 1]
                       /\ Accept("session_end")
    BY <1>7 DEF ReadSessionEnd
  <2>2. input' \in InputStates
    <3>1. /\ latch_protocol_error(input, clock) \in InputStates
          /\ \A s \in InputStates : note_session_end(s) \in InputStates
      BY InputOperators DEF TypeOK
    <3>. QED  BY <2>1, <3>1 DEF Refuse, TypeOK
  <2>3. inbox' \in Inboxes
    <3>1. /\ [inbox EXCEPT !.startup_message_seen = TRUE] \in Inboxes
          /\ [inbox EXCEPT !.startup_message_seen = TRUE,
                           !.queued_session_end = @ + 1] \in Inboxes
      <4>1. << >> \in Seq(Prompts) /\ inbox \in Inboxes
        BY DEF TypeOK
      <4>2. [inbox EXCEPT !.startup_message_seen = TRUE] \in Inboxes
        BY <4>1 DEF Inboxes
      <4>. QED  BY <4>1, <4>2, InboxUpdates
    <3>. QED  BY <2>1, <3>1
  <2>. QED  BY <2>1, <2>2, <2>3, ReadingType, ObserveType
       DEF Fact, Reading, Refuse, Accept, TypeOK, request
<1>8. CASE ReadOutput
  <2>1. PICK m : /\ Fact(m)
                 /\ Refuse \/ (Accept("output") /\ UNCHANGED input)
                 /\ UNCHANGED inbox
    BY <1>8 DEF ReadOutput
  <2>2. input' \in InputStates
    BY <2>1, InputOperators DEF Refuse, TypeOK
  <2>. QED  BY <2>1, <2>2, ReadingType, ObserveType
       DEF Fact, Reading, Refuse, Accept, TypeOK, request
<1>9. CASE ReadWorkerReady
  <2>1. PICK m : /\ Fact(m)
                 /\ inbox' = [inbox EXCEPT !.startup_message_seen = TRUE,
                                           !.queued_worker_ready = @ + 1]
                 /\ Accept(NoEvent)
                 /\ UNCHANGED input
    BY <1>9 DEF ReadWorkerReady
  <2>2. inbox' \in Inboxes
    <3>1. [inbox EXCEPT !.startup_message_seen = TRUE,
                        !.queued_worker_ready = @ + 1] \in Inboxes
      <4>1. << >> \in Seq(Prompts) /\ inbox \in Inboxes
        BY DEF TypeOK
      <4>. QED  BY <4>1, InboxUpdates
    <3>. QED  BY <2>1, <3>1
  <2>. QED  BY <2>1, <2>2, ReadingType, ObserveType
       DEF Fact, Reading, Accept, TypeOK, request
<1>10. CASE ReadEof
  <2>1. inbox' \in Inboxes
    BY <1>10 DEF ReadEof, TypeOK, Inboxes
  <2>. QED  BY <1>10, <2>1 DEF ReadEof, TypeOK, request
<1>11. CASE Dispatch
  BY <1>11 DEF Dispatch, TypeOK, request
<1>. QED  BY <1>1, <1>2, <1>3, <1>4, <1>5, <1>6, <1>7, <1>8, <1>9, <1>10, <1>11
     DEF ReaderStep

\* The request thread keeps the types.
LEMMA TypeCaller == TypeOK /\ CallerStep => TypeOK'
<1>. SUFFICES ASSUME TypeOK, CallerStep PROVE TypeOK'
  OBVIOUS
<1>. USE DEF NoEvent
<1>a. ASSUME NEW op \in Waits, NEW value \in Values, Return(op, value)
      PROVE  /\ caller' \in Waits \union {"idle", "dropped"}
             /\ ret' \in [op: Waits \union {"take_protocol_error", "interrupt"},
                          value: Values]
             /\ delivery' \in Option(Instant)
             /\ seen' \in Histories
  BY <1>a DEF Return, CallerAfter, Returned, DeliveryAfter, TypeOK, Histories
<1>1. ASSUME NEW op \in Waits, Call(op) PROVE TypeOK'
  <2>. DEFINE value == Answer(op)
  <2>1. value \in Values
    BY AnswerType
  <2>2. MayCall(op) => op # "wait_for_worker_ready"
    BY DEF MayCall, ReadinessWaits
  <2>3. input' \in InputStates /\ inbox' \in Inboxes
    <3>1. /\ InputOnEntry(op) \in InputStates
          /\ InboxOnEntry(op) \in Inboxes
          /\ op # "wait_for_worker_ready"
      BY <1>1, <2>2, EntryType DEF Call, TypeOK
    <3>2. /\ InputAfter(op, value, InputOnEntry(op)) \in InputStates
          /\ InboxAfter(op, value, InboxOnEntry(op)) \in Inboxes
      BY <3>1, AfterType
    <3>. QED  BY <1>1, <3>2 DEF Call
  <2>4. CASE caller' = op /\ UNCHANGED <<ret, delivery, seen>>
    BY <1>1, <2>3, <2>4 DEF Call, TypeOK
  <2>5. CASE Return(op, value)
    BY <1>1, <1>a, <2>1, <2>3, <2>5 DEF Call, TypeOK
  <2>. QED  BY <1>1, <2>4, <2>5 DEF Call
<1>2. CASE Wake
  <2>. DEFINE value == Answer(caller)
  <2>1. caller \in Waits /\ value \in Values /\ Return(caller, value)
    BY <1>2, AnswerType DEF Wake
  <2>2. value = "Ok" /\ caller = "wait_for_worker_ready" =>
          inbox.queued_worker_ready > 0
    <3>1. Answer("wait_for_worker_ready") = WorkerReadyAnswer
      BY DEF Answer, ReadinessWaits
    <3>2. WorkerReadyAnswer = "Ok" => inbox.queued_worker_ready > 0
      BY DEF WorkerReadyAnswer, Fault
    <3>. QED  BY <3>1, <3>2
  <2>3. input' \in InputStates /\ inbox' \in Inboxes
    BY <1>2, <2>2, AfterType DEF Wake, TypeOK
  <2>. QED  BY <1>2, <1>a, <2>1, <2>3 DEF Wake, TypeOK
<1>3. CASE TimeOut
  <2>1. caller \in Waits /\ "Timeout" \in Values /\ Return(caller, "Timeout")
    BY <1>3 DEF TimeOut, Values
  <2>. QED  BY <1>3, <1>a, <2>1 DEF TimeOut, TypeOK, connection
<1>4. CASE TakeProtocolError
  <2>1. input' \in InputStates
    BY <1>4, InputOperators DEF TakeProtocolError, TypeOK
  <2>. QED  BY <1>4, <2>1 DEF TakeProtocolError, TypeOK, Returned, Values
<1>5. CASE TakePrompts
  <2>1. << >> \in Seq(Prompts)
    OBVIOUS
  <2>2. [inbox EXCEPT !.last_prompt = NoPrompt, !.prompt_history = << >>] \in Inboxes
    BY <2>1 DEF TypeOK, Inboxes
  <2>3. inbox' \in Inboxes
    BY <1>5, <2>2 DEF TakePrompts
  <2>. QED  BY <1>5, <2>3 DEF TakePrompts, TypeOK, request
<1>6. CASE Interrupt
  <2>1. inbox' \in Inboxes
    <3>1. /\ inbox \in Inboxes
          /\ begin_interrupt_transaction(inbox, clock) \in Inboxes
      BY InboxOperators DEF TypeOK
    <3>2. inbox' \in {inbox, begin_interrupt_transaction(inbox, clock)}
      BY <1>6 DEF Interrupt
    <3>. QED  BY <3>1, <3>2
  <2>2. /\ sent_at' \in Option(Instant) /\ clock' \in Nat
        /\ delivery' \in Option(Instant)
    <3>1. sent_at' = clock /\ clock' = clock + 1 /\ delivery' \in {None, delivery}
      BY <1>6 DEF Interrupt
    <3>. QED  BY <3>1 DEF TypeOK, Option, Instant
  <2>3. caller' \in Waits \union {"idle", "dropped"}
    BY <1>6 DEF Interrupt, TypeOK, Waits, InterruptWaits
  <2>4. seen' \in Histories
    <3>1. \/ seen' = [seen EXCEPT !.phase = 0, !.fresh = FALSE]
          \/ seen' = [seen EXCEPT !.fresh = FALSE]
      BY <1>6 DEF Interrupt
    <3>2. \A h \in Histories : [h EXCEPT !.fresh = FALSE] \in Histories
      BY DEF Histories
    <3>3. seen \in Histories /\ [seen EXCEPT !.phase = 0] \in Histories
      BY DEF TypeOK, Histories
    <3>4. [[seen EXCEPT !.phase = 0] EXCEPT !.fresh = FALSE] \in Histories
      BY <3>2, <3>3, Zenon
    <3>. QED  BY <3>1, <3>2, <3>3, <3>4
  <2>. QED  BY <1>6, <2>1, <2>2, <2>3, <2>4
       DEF Interrupt, TypeOK, Returned, Values
<1>7. CASE CompleteInterruptDelivery
  BY <1>7 DEF CompleteInterruptDelivery, TypeOK, connection, Option
<1>8. CASE DisableHandlers
  BY <1>8 DEF DisableHandlers, TypeOK
<1>9. CASE Replace
  <2>1. Init'
    BY <1>9 DEF Replace, Init, TypeOK
  <2>. QED  BY <2>1, TypeInit, PTL
<1>. QED  BY <1>1, <1>2, <1>3, <1>4, <1>5, <1>6, <1>7, <1>8, <1>9 DEF CallerStep

\* The worker only adds messages or closes its end.
LEMMA TypeWorker == TypeOK /\ (WorkerSend \/ WorkerClose) => TypeOK'
<1>. SUFFICES ASSUME TypeOK, WorkerSend \/ WorkerClose PROVE TypeOK'
  OBVIOUS
<1>1. CASE WorkerSend
  <2>1. PICK type \in Types[windows] : \E m \in Message(type) : pipe' = Append(pipe, m)
    BY <1>1 DEF WorkerSend
  <2>2. PICK m \in Message(type) : pipe' = Append(pipe, m)
    BY <2>1
  <2>3. m \in Messages
    BY BoundAssumption DEF Messages, TypeOK
  <2>4. pipe' \in Seq(Messages)
    BY <2>2, <2>3 DEF TypeOK
  <2>. QED  BY <1>1, <2>4 DEF WorkerSend, TypeOK, connection, request
<1>2. CASE WorkerClose
  BY <1>2 DEF WorkerClose, TypeOK, connection, request
<1>. QED  BY <1>1, <1>2

\* Every variable of the connection and of the request thread keeps its
\* type, whatever the worker sends.
THEOREM TypeCorrect == Spec => []TypeOK
<1>1. TypeOK /\ [Next]_vars => TypeOK'
  <2>1. TypeOK /\ UNCHANGED vars => TypeOK'
    BY DEF TypeOK, vars, connection, request
  <2>. QED  BY <2>1, TypeReader, TypeCaller, TypeWorker DEF Next
<1>. QED  BY <1>1, TypeInit, PTL DEF Spec

-----------------------------------------------------------------------------
(* The inductive invariant, in five parts that each carry one safety       *)
(* property and what makes it inductive.                                   *)

PendingOk == Returned("wait_for_pending_interrupt_transaction", "Ok")

\* Readiness and completion on record were read since the last batch was
\* admitted.
ReadinessInv ==
  /\ ReadinessSpentOnce
  /\ input_completion_ready(input) => seen.ready
  /\ FreshCompletion

\* The transaction's fields never run ahead of what the stream has said, and
\* a batch is only waiting for admission once the transaction is closed.
InterruptInv ==
  /\ inbox.interrupt_started_at = None => seen.phase = 3
  /\ inbox.interrupt_armed_at # None => seen.phase >= 1
  /\ inbox.interrupt_complete_at # None => seen.phase >= 2
  /\ inbox.readiness_after_interrupt => seen.phase = 3
  /\ ~windows => inbox.interrupt_started_at = None
  /\ ret = PendingOk => inbox.interrupt_started_at = None
  /\ caller = "begin_input_when_ready" /\ windows => ret = PendingOk
  /\ SettledInterrupt

\* The two records of a session end agree, and nothing follows it to a handler.
SessionInv ==
  /\ SessionEndOnce
  /\ input.session_end => input.session_end_final
  /\ input.session_end_final => handler \in {NoEvent, "session_end"}
  /\ handler = "session_end" \/ handled = "session_end" => input.session_end_final

\* Once an error is latched the reader brings no new completion.
ErrorInv ==
  /\ input.protocol_error # None \/ CompletedWith("Protocol") =>
       reader = "stopped" \/ input.session_end_final
  /\ input.completed_observed_at # None => input.completed_observed_at <= clock
  /\ input.protocol_error # None /\ input.completed_observed_at # None =>
       input.completed_observed_at <= input.protocol_error
  /\ CompletionNotHidden

\* What answers an interrupt at an idle prompt.
PromptInv ==
  /\ inbox.last_prompt # NoPrompt => seen.last = "input_wait"
  /\ input.ready_for_input /\ input.ready_from_input_wait => seen.last = "input_wait"
  /\ input.ready_observed_at # None => input.ready_observed_at <= clock
  /\ input.ready_observed_at # None /\ input.ready_observed_at > sent_at => seen.fresh
  /\ FreshReadyAfterInterrupt

-----------------------------------------------------------------------------
(* What a returning call changes, field by field.                          *)

\* A call only ever takes facts out of InputState, it adds none; admitting a
\* batch takes the readiness and any completion.
LEMMA InputAfterFacts ==
  ASSUME NEW op, NEW value, NEW in \in InputStates
  PROVE  LET t == InputAfter(op, value, in) IN
         /\ t.ready_for_input => in.ready_for_input
         /\ value = "Ok" /\ op = "begin_input_when_ready" =>
              ~t.ready_for_input /\ t.completed_observed_at = None
         /\ input_completion_ready(t) => input_completion_ready(in)
         /\ t.completed_observed_at \in {in.completed_observed_at, None}
         /\ t.protocol_error \in {in.protocol_error, None}
         /\ t.session_end_final = in.session_end_final
         /\ t.session_end = (in.session_end /\ value # "SessionEnd"
              /\ ~(value = "Ok" /\ op = "wait_for_worker_ready"))
         /\ t.ready_observed_at = in.ready_observed_at
         /\ t.ready_from_input_wait => in.ready_from_input_wait
<1>. DEFINE t == InputAfter(op, value, in)
<1>1. CASE value = "Protocol"
  BY <1>1 DEF InputAfter, take_protocol_error, input_completion_ready,
              InputStates, Option, Instant, None
<1>2. CASE value = "SessionEnd"
  BY <1>2 DEF InputAfter, take_session_end_flag, input_completion_ready, InputStates
<1>3. CASE value = "Ok" /\ op = "begin_input_when_ready"
  BY <1>3 DEF InputAfter, begin_input, input_completion_ready, InputStates
<1>4. CASE value = "Ok" /\ op = "wait_for_request_completion"
  BY <1>4 DEF InputAfter, clear_request_progress, input_completion_ready, InputStates
<1>5. CASE value = "Ok" /\ op = "wait_for_worker_ready"
  BY <1>5 DEF InputAfter, take_session_end_flag, input_completion_ready, InputStates
<1>6. CASE /\ value \notin {"Protocol", "SessionEnd"}
           /\ ~ (value = "Ok" /\ op \in {"begin_input_when_ready",
                "wait_for_request_completion", "wait_for_worker_ready"})
  <2>1. t = in /\ in.session_end \in BOOLEAN
    BY <1>6 DEF InputAfter, InputStates
  <2>. QED  BY <1>6, <2>1
<1>. QED  BY <1>1, <1>2, <1>3, <1>4, <1>5, <1>6

\* Only wait_for_pending_interrupt_transaction closes a transaction, and no
\* call adds a prompt.
LEMMA InboxAfterFacts ==
  ASSUME NEW op, NEW value, NEW box \in Inboxes
  PROVE  LET b == InboxAfter(op, value, box) IN
         /\ b.interrupt_armed_at = box.interrupt_armed_at
         /\ b.interrupt_complete_at = box.interrupt_complete_at
         /\ b.readiness_after_interrupt = box.readiness_after_interrupt
         /\ b.interrupt_started_at =
              IF value = "Ok" /\ op = "wait_for_pending_interrupt_transaction"
              THEN None ELSE box.interrupt_started_at
         /\ b.last_prompt \in {box.last_prompt, NoPrompt}
         /\ b.prompt_history \in {box.prompt_history, << >>}
<1>. DEFINE b == InboxAfter(op, value, box)
<1>. USE DEF InboxAfter, ReadinessWaits
<1>1. CASE value = "SessionEnd"
  BY <1>1 DEF take_session_end, Inboxes
<1>2. CASE value = "Ok" /\ op = "begin_input_when_ready"
  BY <1>2 DEF start_request_records, Inboxes
<1>3. CASE value = "Ok" /\ op = "wait_for_request_completion"
  BY <1>3 DEF reset_request_progress, Inboxes
<1>4. CASE value = "Ok" /\ op = "wait_for_worker_ready"
  BY <1>4 DEF take_worker_ready, take_session_end, Inboxes
<1>5. CASE value = "Ok" /\ op = "wait_for_pending_interrupt_transaction"
  BY <1>5 DEF Inboxes
<1>6. CASE /\ value = "Ok"
           /\ op \in ReadinessWaits \union {"wait_for_interrupt_readiness"}
  BY <1>6 DEF Inboxes
<1>7. CASE /\ value # "SessionEnd"
           /\ value = "Ok" => op \notin ReadinessWaits \union
                  {"begin_input_when_ready", "wait_for_request_completion",
                   "wait_for_worker_ready", "wait_for_interrupt_readiness",
                   "wait_for_pending_interrupt_transaction"}
  <2>1. b = box
    BY <1>7
  <2>. QED  BY <1>7, <2>1
<1>. QED  BY <1>1, <1>2, <1>3, <1>4, <1>5, <1>6, <1>7

\* The entry of begin_input_when_ready drops the previous request's progress
\* and its prompt, no more.
LEMMA EntryFacts ==
  ASSUME TypeOK, NEW op
  PROVE  /\ LET t == InputOnEntry(op) IN
            /\ t.ready_for_input = input.ready_for_input
            /\ input_completion_ready(t) => input_completion_ready(input)
            /\ t.completed_observed_at \in {input.completed_observed_at, None}
            /\ t.protocol_error = input.protocol_error
            /\ t.session_end = input.session_end
            /\ t.session_end_final = input.session_end_final
            /\ t.ready_observed_at = input.ready_observed_at
            /\ t.ready_from_input_wait = input.ready_from_input_wait
         /\ LET b == InboxOnEntry(op) IN
            /\ b.interrupt_armed_at = inbox.interrupt_armed_at
            /\ b.interrupt_complete_at = inbox.interrupt_complete_at
            /\ b.readiness_after_interrupt = inbox.readiness_after_interrupt
            /\ b.interrupt_started_at = inbox.interrupt_started_at
            /\ b.last_prompt \in {inbox.last_prompt, NoPrompt}
            /\ b.prompt_history = inbox.prompt_history
            /\ b.queued_session_end = inbox.queued_session_end
<1>1. input \in InputStates /\ inbox \in Inboxes
  BY DEF TypeOK
<1>2. CASE op = "begin_input_when_ready"
  BY <1>1, <1>2 DEF InputOnEntry, clear_request_progress, input_completion_ready,
    InputStates, InboxOnEntry, reset_after_completed_request,
    reset_request_progress, Inboxes
<1>3. CASE op # "begin_input_when_ready"
  BY <1>3 DEF InputOnEntry, InboxOnEntry
<1>. QED  BY <1>2, <1>3

-----------------------------------------------------------------------------
(* What the reader thread changes.  Most messages are quiet: they leave    *)
(* readiness, completion and the transaction alone.                        *)

Quiet ==
  /\ UNCHANGED request
  /\ input'.active = input.active
  /\ input'.ready_for_input = input.ready_for_input
  /\ input'.ready_from_input_wait = input.ready_from_input_wait
  /\ input'.ready_observed_at = input.ready_observed_at
  /\ input'.completed_observed_at = input.completed_observed_at
  /\ inbox'.interrupt_started_at = inbox.interrupt_started_at
  /\ inbox'.interrupt_armed_at = inbox.interrupt_armed_at
  /\ inbox'.interrupt_complete_at = inbox.interrupt_complete_at
  /\ inbox'.readiness_after_interrupt = inbox.readiness_after_interrupt
  /\ inbox'.last_prompt = inbox.last_prompt
  /\ seen'.ready = seen.ready
  /\ seen'.fresh = seen.fresh
  /\ seen'.last = seen.last
  /\ seen'.phase >= seen.phase

\* A readiness message, from an input_wait or not.
Readied(w) ==
  /\ UNCHANGED request
  /\ reader = "reading" /\ ~input.session_end_final
  /\ input' = record_ready_at(input, clock, w)
  /\ inbox'.interrupt_started_at = inbox.interrupt_started_at
  /\ inbox'.interrupt_armed_at = inbox.interrupt_armed_at
  /\ inbox'.interrupt_complete_at = inbox.interrupt_complete_at
  /\ inbox'.readiness_after_interrupt =
       (\/ inbox.readiness_after_interrupt
        \/ /\ inbox.interrupt_started_at # None
           /\ inbox.interrupt_complete_at # None)
  /\ inbox'.last_prompt # NoPrompt => w
  /\ seen'.ready /\ seen'.fresh
  /\ seen'.last = IF w THEN "input_wait" ELSE "ready"
  /\ seen'.phase >= seen.phase
  /\ seen.phase >= 2 => seen'.phase = 3

\* The worker's two messages about the interrupt, where they are expected.
Armed ==
  /\ UNCHANGED <<request, input>>
  /\ inbox' = [inbox EXCEPT !.interrupt_armed_at = clock]
  /\ seen'.ready = seen.ready /\ seen'.fresh = seen.fresh /\ seen'.last = seen.last
  /\ seen'.phase >= seen.phase /\ seen'.phase >= 1

Observed ==
  /\ UNCHANGED <<request, input>>
  /\ interrupt_transaction_armed(inbox)
  /\ inbox' = [inbox EXCEPT !.interrupt_complete_at = clock,
                            !.readiness_after_interrupt = FALSE]
  /\ seen'.ready = seen.ready /\ seen'.fresh = seen.fresh /\ seen'.last = seen.last
  /\ seen'.phase >= seen.phase
  /\ seen.phase >= 1 => seen'.phase >= 2

\* The history only grows, and follows the protocol's order.
LEMMA ObserveFacts ==
  ASSUME TypeOK, NEW type, Observe(type)
  PROVE  /\ seen'.ready = (seen.ready \/ type \in Readiness)
         /\ seen'.fresh = (seen.fresh \/ type \in Readiness)
         /\ seen'.last = IF type \in Readiness THEN type ELSE seen.last
         /\ seen'.phase >= seen.phase
         /\ type = "interrupt_armed" => seen'.phase >= 1
         /\ type = "interrupt_complete" /\ seen.phase >= 1 => seen'.phase >= 2
         /\ type \in Readiness /\ seen.phase >= 2 => seen'.phase = 3
<1>1. seen \in Histories /\ seen.phase \in 0..3
  BY DEF TypeOK, Histories
<1>2. /\ seen'.ready = (seen.ready \/ type \in Readiness)
      /\ seen'.fresh = (seen.fresh \/ type \in Readiness)
      /\ seen'.last = IF type \in Readiness THEN type ELSE seen.last
  BY DEF Observe
<1>3. seen'.phase = CASE seen.phase = 0 /\ type = "interrupt_armed" -> 1
                      [] seen.phase = 1 /\ type = "interrupt_complete" -> 2
                      [] seen.phase = 2 /\ type \in Readiness -> 3
                      [] OTHER -> seen.phase
  BY DEF Observe
<1>4. /\ seen'.phase >= seen.phase
      /\ type = "interrupt_armed" => seen'.phase >= 1
      /\ type = "interrupt_complete" /\ seen.phase >= 1 => seen'.phase >= 2
      /\ type \in Readiness /\ seen.phase >= 2 => seen'.phase = 3
  BY <1>1, <1>3 DEF Readiness
<1>. QED  BY <1>2, <1>4

\* A refused or a quiet message leaves what Quiet says alone.
LEMMA QuietMessage ==
  ASSUME TypeOK, NEW m, Reading(m),
         UNCHANGED seen \/ (Observe(m.type) /\ m.type \notin Readiness),
         \/ input' = input
         \/ input' = latch_protocol_error(input, clock)
         \/ input' = note_session_end(input)
         \/ input' = note_session_end(latch_protocol_error(input, clock)),
         inbox'.interrupt_started_at = inbox.interrupt_started_at,
         inbox'.interrupt_armed_at = inbox.interrupt_armed_at,
         inbox'.interrupt_complete_at = inbox.interrupt_complete_at,
         inbox'.readiness_after_interrupt = inbox.readiness_after_interrupt,
         inbox'.last_prompt = inbox.last_prompt
  PROVE  Quiet
<1>1. /\ input'.active = input.active
      /\ input'.ready_for_input = input.ready_for_input
      /\ input'.ready_from_input_wait = input.ready_from_input_wait
      /\ input'.ready_observed_at = input.ready_observed_at
      /\ input'.completed_observed_at = input.completed_observed_at
  <2>1. input \in InputStates
    BY DEF TypeOK
  <2>. QED  BY <2>1 DEF InputStates, latch_protocol_error, note_session_end
<1>2. /\ seen'.ready = seen.ready
      /\ seen'.fresh = seen.fresh
      /\ seen'.last = seen.last
      /\ seen'.phase >= seen.phase
  <2>1. seen \in Histories /\ seen.phase \in 0..3
        /\ seen.ready \in BOOLEAN /\ seen.fresh \in BOOLEAN
    BY DEF TypeOK, Histories
  <2>2. CASE UNCHANGED seen
    BY <2>1, <2>2
  <2>3. CASE Observe(m.type) /\ m.type \notin Readiness
    BY <2>1, <2>3, ObserveFacts
  <2>. QED  BY <2>2, <2>3
<1>3. UNCHANGED request
  BY DEF Reading
<1>. QED  BY <1>1, <1>2, <1>3 DEF Quiet

\* Every step of the reader thread is of one of these kinds.
LEMMA ReaderEffects ==
  ASSUME TypeOK, ReaderStep
  PROVE  Quiet \/ Readied(TRUE) \/ Readied(FALSE) \/ Armed \/ Observed
<1>. USE DEF NoEvent
<1>0. input \in InputStates /\ inbox \in Inboxes
  BY DEF TypeOK
<1>1. CASE ReadRefused
  <2>1. PICK m : Reading(m)
    BY <1>1 DEF ReadRefused
  <2>2. /\ input' = latch_protocol_error(input, clock)
        /\ UNCHANGED <<inbox, seen>>
    BY <1>1 DEF ReadRefused, Refuse
  <2>3. Quiet
    BY <2>1, <2>2, QuietMessage
  <2>. QED  BY <2>3
<1>2. CASE ReadInputLine
  <2>1. PICK m \in Message("input_line") :
          /\ Fact(m)
          /\ \/ Refuse /\ UNCHANGED inbox
             \/ /\ inbox' = [inbox EXCEPT
                     !.readline_result_count = @ + 1,
                     !.prompt_history = push_prompt_history(@, m.prompt),
                     !.input_line_events = @ + 1]
                /\ UNCHANGED input
    BY <1>2 DEF ReadInputLine
  <2>2. m.type \notin Readiness
    BY DEF Message, Readiness
  <2>3. input' \in {input, latch_protocol_error(input, clock)}
    BY <2>1 DEF Refuse
  <2>4. /\ inbox'.interrupt_started_at = inbox.interrupt_started_at
        /\ inbox'.interrupt_armed_at = inbox.interrupt_armed_at
        /\ inbox'.interrupt_complete_at = inbox.interrupt_complete_at
        /\ inbox'.readiness_after_interrupt = inbox.readiness_after_interrupt
        /\ inbox'.last_prompt = inbox.last_prompt
    BY <1>0, <2>1 DEF Inboxes
  <2>5. Quiet
    BY <2>1, <2>2, <2>3, <2>4, QuietMessage DEF Fact
  <2>. QED  BY <2>5
<1>3. CASE ReadInputWait
  <2>1. PICK m \in Message("input_wait") :
          /\ Fact(m)
          /\ input' = record_ready_at(input, clock, TRUE)
          /\ inbox' = [note_readiness(inbox) EXCEPT
               !.prompt_history = push_prompt_history(@, m.prompt),
               !.last_prompt = m.prompt]
    BY <1>3 DEF ReadInputWait
  <2>2. m.type = "input_wait" /\ m.type \in Readiness
    BY DEF Message, Readiness
  <2>3. /\ inbox'.interrupt_started_at = inbox.interrupt_started_at
        /\ inbox'.interrupt_armed_at = inbox.interrupt_armed_at
        /\ inbox'.interrupt_complete_at = inbox.interrupt_complete_at
        /\ inbox'.readiness_after_interrupt =
             (\/ inbox.readiness_after_interrupt
              \/ /\ inbox.interrupt_started_at # None
                 /\ inbox.interrupt_complete_at # None)
    BY <1>0, <2>1 DEF Inboxes, note_readiness
  <2>4. /\ UNCHANGED request
        /\ reader = "reading" /\ ~input.session_end_final
    BY <2>1 DEF Fact, Reading, Admissible
  <2>5. Readied(TRUE)
    BY <2>1, <2>2, <2>3, <2>4, ObserveFacts DEF Readied, Fact
  <2>. QED  BY <2>5
<1>4. CASE ReadReady
  <2>1. PICK m \in Message("ready") :
          /\ Fact(m)
          /\ input' = record_ready_at(input, clock, FALSE)
          /\ inbox' = [note_readiness(inbox) EXCEPT
               !.last_prompt = NoPrompt,
               !.prompt_history = << >>]
    BY <1>4 DEF ReadReady
  <2>2. m.type = "ready" /\ m.type \in Readiness
    BY DEF Message, Readiness
  <2>3. /\ inbox'.interrupt_started_at = inbox.interrupt_started_at
        /\ inbox'.interrupt_armed_at = inbox.interrupt_armed_at
        /\ inbox'.interrupt_complete_at = inbox.interrupt_complete_at
        /\ inbox'.readiness_after_interrupt =
             (\/ inbox.readiness_after_interrupt
              \/ /\ inbox.interrupt_started_at # None
                 /\ inbox.interrupt_complete_at # None)
        /\ inbox'.last_prompt = NoPrompt
    BY <1>0, <2>1 DEF Inboxes, note_readiness
  <2>4. /\ UNCHANGED request
        /\ reader = "reading" /\ ~input.session_end_final
    BY <2>1 DEF Fact, Reading, Admissible
  <2>5. Readied(FALSE)
    BY <2>1, <2>2, <2>3, <2>4, ObserveFacts DEF Readied, Fact
  <2>. QED  BY <2>5
<1>5. CASE ReadInterruptArmed
  <2>1. PICK m \in Message("interrupt_armed") :
          /\ Fact(m)
          /\ \/ Refuse /\ UNCHANGED inbox
             \/ /\ inbox' = [inbox EXCEPT !.interrupt_armed_at = clock]
                /\ UNCHANGED input
    BY <1>5 DEF ReadInterruptArmed
  <2>2. m.type = "interrupt_armed" /\ m.type \notin Readiness
    BY DEF Message, Readiness
  <2>3. CASE Refuse /\ UNCHANGED inbox
    <3>1. Quiet
      BY <2>1, <2>2, <2>3, QuietMessage DEF Fact, Refuse
    <3>. QED  BY <3>1
  <2>4. CASE inbox' = [inbox EXCEPT !.interrupt_armed_at = clock] /\ UNCHANGED input
    <3>1. seen \in Histories /\ seen.ready \in BOOLEAN /\ seen.fresh \in BOOLEAN
      BY DEF TypeOK, Histories
    <3>2. Armed
      BY <2>1, <2>2, <2>4, <3>1, ObserveFacts DEF Armed, Fact, Reading
    <3>. QED  BY <3>2
  <2>. QED  BY <2>1, <2>3, <2>4
<1>6. CASE ReadInterruptComplete
  <2>1. PICK m \in Message("interrupt_complete") :
          /\ Fact(m)
          /\ \/ Refuse /\ UNCHANGED inbox
             \/ /\ interrupt_transaction_armed(inbox)
                /\ inbox' = [inbox EXCEPT !.interrupt_complete_at = clock,
                                          !.readiness_after_interrupt = FALSE]
                /\ UNCHANGED input
    BY <1>6 DEF ReadInterruptComplete
  <2>2. m.type = "interrupt_complete" /\ m.type \notin Readiness
    BY DEF Message, Readiness
  <2>3. CASE Refuse /\ UNCHANGED inbox
    <3>1. Quiet
      BY <2>1, <2>2, <2>3, QuietMessage DEF Fact, Refuse
    <3>. QED  BY <3>1
  <2>4. CASE /\ interrupt_transaction_armed(inbox)
             /\ inbox' = [inbox EXCEPT !.interrupt_complete_at = clock,
                                       !.readiness_after_interrupt = FALSE]
             /\ UNCHANGED input
    <3>1. seen \in Histories /\ seen.ready \in BOOLEAN /\ seen.fresh \in BOOLEAN
      BY DEF TypeOK, Histories
    <3>2. Observed
      BY <2>1, <2>2, <2>4, <3>1, ObserveFacts DEF Observed, Fact, Reading
    <3>. QED  BY <3>2
  <2>. QED  BY <2>1, <2>3, <2>4
<1>7. CASE ReadSessionEnd
  <2>1. PICK m \in UNION {Message(type) : type \in SessionEnds} :
          /\ Fact(m)
          /\ \/ /\ Refuse
                /\ inbox' = [inbox EXCEPT !.startup_message_seen = TRUE]
             \/ /\ input' = note_session_end(
                      IF FirstMessage /\ m.type = "startup_failure"
                      THEN latch_protocol_error(input, clock) ELSE input)
                /\ inbox' = [inbox EXCEPT !.startup_message_seen = TRUE,
                                          !.queued_session_end = @ + 1]
    BY <1>7 DEF ReadSessionEnd
  <2>2. m.type \notin Readiness
    BY DEF Message, Readiness, SessionEnds
  <2>3. \/ input' = latch_protocol_error(input, clock)
        \/ input' = note_session_end(input)
        \/ input' = note_session_end(latch_protocol_error(input, clock))
    BY <2>1 DEF Refuse
  <2>4. /\ inbox'.interrupt_started_at = inbox.interrupt_started_at
        /\ inbox'.interrupt_armed_at = inbox.interrupt_armed_at
        /\ inbox'.interrupt_complete_at = inbox.interrupt_complete_at
        /\ inbox'.readiness_after_interrupt = inbox.readiness_after_interrupt
        /\ inbox'.last_prompt = inbox.last_prompt
    BY <1>0, <2>1 DEF Inboxes
  <2>5. Quiet
    BY <2>1, <2>2, <2>3, <2>4, QuietMessage DEF Fact
  <2>. QED  BY <2>5
<1>8. CASE ReadOutput
  <2>1. PICK m \in Message("output") \union Message("invalid_payload") :
          /\ Fact(m)
          /\ Refuse \/ UNCHANGED input
          /\ UNCHANGED inbox
    BY <1>8 DEF ReadOutput
  <2>2. m.type \notin Readiness
    BY DEF Message, Readiness
  <2>3. Quiet
    BY <2>1, <2>2, QuietMessage DEF Fact, Refuse
  <2>. QED  BY <2>3
<1>9. CASE ReadWorkerReady
  <2>1. PICK m \in Message("worker_ready") :
          /\ Fact(m)
          /\ inbox' = [inbox EXCEPT !.startup_message_seen = TRUE,
                                    !.queued_worker_ready = @ + 1]
          /\ UNCHANGED input
    BY <1>9 DEF ReadWorkerReady
  <2>2. m.type \notin Readiness
    BY DEF Message, Readiness
  <2>3. /\ inbox'.interrupt_started_at = inbox.interrupt_started_at
        /\ inbox'.interrupt_armed_at = inbox.interrupt_armed_at
        /\ inbox'.interrupt_complete_at = inbox.interrupt_complete_at
        /\ inbox'.readiness_after_interrupt = inbox.readiness_after_interrupt
        /\ inbox'.last_prompt = inbox.last_prompt
    BY <1>0, <2>1 DEF Inboxes
  <2>4. Quiet
    BY <2>1, <2>2, <2>3, QuietMessage DEF Fact
  <2>. QED  BY <2>4
<1>10. CASE ReadEof
  <2>1. seen.phase >= seen.phase
    BY DEF TypeOK, Histories
  <2>2. Quiet
    BY <1>0, <1>10, <2>1 DEF ReadEof, Quiet, Inboxes
  <2>. QED  BY <2>2
<1>11. CASE Dispatch
  <2>1. seen.phase >= seen.phase
    BY DEF TypeOK, Histories
  <2>2. Quiet
    BY <1>11, <2>1 DEF Dispatch, Quiet
  <2>. QED  BY <2>2
<1>. QED  BY <1>1, <1>2, <1>3, <1>4, <1>5, <1>6, <1>7, <1>8, <1>9, <1>10, <1>11
     DEF ReaderStep

-----------------------------------------------------------------------------
(* What the blocking calls change.                                         *)

Drained(op, value) ==
  /\ input'.ready_for_input => input.ready_for_input
  /\ value = "Ok" /\ op = "begin_input_when_ready" =>
       ~input'.ready_for_input /\ input'.completed_observed_at = None
  /\ input_completion_ready(input') => input_completion_ready(input)
  /\ input'.completed_observed_at \in {input.completed_observed_at, None}
  /\ input'.protocol_error \in {input.protocol_error, None}
  /\ input'.session_end_final = input.session_end_final
  /\ input'.session_end = (input.session_end /\ value # "SessionEnd"
       /\ ~(value = "Ok" /\ op = "wait_for_worker_ready"))
  /\ input'.ready_observed_at = input.ready_observed_at
  /\ input'.ready_from_input_wait => input.ready_from_input_wait
  /\ inbox'.interrupt_armed_at = inbox.interrupt_armed_at
  /\ inbox'.interrupt_complete_at = inbox.interrupt_complete_at
  /\ inbox'.readiness_after_interrupt = inbox.readiness_after_interrupt
  /\ inbox'.interrupt_started_at =
       IF value = "Ok" /\ op = "wait_for_pending_interrupt_transaction"
       THEN None ELSE inbox.interrupt_started_at
  /\ inbox'.last_prompt \in {inbox.last_prompt, NoPrompt}
  /\ inbox'.prompt_history \in {inbox.prompt_history, << >>}
  /\ UNCHANGED <<pipe, peer, reader, handler, gate, handled, sent_at, clock, windows>>

Blocks(op) ==
  /\ caller = "idle" /\ MayCall(op)
  /\ caller' = op
  /\ UNCHANGED <<ret, delivery, seen>>
  /\ Drained(op, "Wait")

Ends(op) ==
  /\ caller = op \/ (caller = "idle" /\ MayCall(op))
  /\ Answer(op) \in Values \ {"Wait"}
  /\ Return(op, Answer(op))
  /\ Drained(op, Answer(op))

\* A call takes what Drained says out of the inbox, on its first look at it...
LEMMA CallDrains ==
  ASSUME TypeOK, NEW op \in Waits, Call(op)
  PROVE  Drained(op, Answer(op))
<1>0. input \in InputStates /\ inbox \in Inboxes
  BY DEF TypeOK
<1>. DEFINE in == InputOnEntry(op)
            box == InboxOnEntry(op)
            value == Answer(op)
<1>1. /\ input' = InputAfter(op, value, in)
      /\ inbox' = InboxAfter(op, value, box)
      /\ UNCHANGED <<pipe, peer, reader, handler, gate, handled, sent_at, clock, windows>>
  BY DEF Call
<1>2. in \in InputStates /\ box \in Inboxes
  BY <1>0, EntryType
<1>. HIDE DEF in, box, value
<1>3. in.session_end = input.session_end /\ input.session_end \in BOOLEAN
  BY <1>0, EntryFacts DEF in, InputStates
<1>4. /\ in.ready_for_input = input.ready_for_input
      /\ input_completion_ready(in) => input_completion_ready(input)
      /\ in.completed_observed_at \in {input.completed_observed_at, None}
      /\ in.protocol_error = input.protocol_error
      /\ in.session_end_final = input.session_end_final
      /\ in.ready_observed_at = input.ready_observed_at
      /\ in.ready_from_input_wait = input.ready_from_input_wait
  BY EntryFacts DEF in
<1>5. /\ box.interrupt_armed_at = inbox.interrupt_armed_at
      /\ box.interrupt_complete_at = inbox.interrupt_complete_at
      /\ box.readiness_after_interrupt = inbox.readiness_after_interrupt
      /\ box.interrupt_started_at = inbox.interrupt_started_at
      /\ box.last_prompt \in {inbox.last_prompt, NoPrompt}
      /\ box.prompt_history = inbox.prompt_history
  BY EntryFacts DEF box
<1>6. Drained(op, value)
  BY <1>1, <1>2, <1>3, <1>4, <1>5, InputAfterFacts, InboxAfterFacts DEF Drained
<1>. QED  BY <1>6 DEF value

\* ... and on a later one.
LEMMA WakeDrains ==
  ASSUME TypeOK, Wake
  PROVE  Drained(caller, Answer(caller))
<1>0. input \in InputStates /\ inbox \in Inboxes
  BY DEF TypeOK
<1>. DEFINE value == Answer(caller)
<1>1. /\ input' = InputAfter(caller, value, input)
      /\ inbox' = InboxAfter(caller, value, inbox)
      /\ UNCHANGED <<pipe, peer, reader, handler, gate, handled, sent_at, clock, windows>>
  BY DEF Wake
<1>. HIDE DEF value
<1>2. Drained(caller, value)
  BY <1>0, <1>1, InputAfterFacts, InboxAfterFacts DEF Drained
<1>. QED  BY <1>2 DEF value

\* A call blocks, or it returns with what it takes from the inbox.
LEMMA CallEffects ==
  ASSUME TypeOK, (\E op \in Waits : Call(op)) \/ Wake
  PROVE  \E op \in Waits : Blocks(op) \/ Ends(op)
<1>1. ASSUME NEW op \in Waits, Call(op) PROVE Blocks(op) \/ Ends(op)
  <2>1. Drained(op, Answer(op)) /\ Answer(op) \in Values
    BY <1>1, CallDrains, AnswerType
  <2>2. /\ caller = "idle" /\ MayCall(op)
        /\ \/ /\ Answer(op) = "Wait" /\ caller' = op
              /\ UNCHANGED <<ret, delivery, seen>>
           \/ Answer(op) # "Wait" /\ Return(op, Answer(op))
    BY <1>1 DEF Call
  <2>. QED  BY <2>1, <2>2 DEF Blocks, Ends
<1>2. ASSUME Wake PROVE caller \in Waits /\ Ends(caller)
  <2>1. Drained(caller, Answer(caller)) /\ Answer(caller) \in Values
    BY <1>2, WakeDrains, AnswerType
  <2>2. /\ caller \in Waits /\ Answer(caller) # "Wait"
        /\ Return(caller, Answer(caller))
    BY <1>2 DEF Wake
  <2>. QED  BY <2>1, <2>2 DEF Ends
<1>. QED  BY <1>1, <1>2

\* A completion is only reported when one is on record and no interrupt
\* transaction blocks it.
LEMMA CompletionOk ==
  ASSUME TypeOK, Answer("wait_for_request_completion") = "Ok"
  PROVE  request_completion_ready(input, inbox)
<1>1. CompletionAnswer = "Ok"
  BY DEF Answer, ReadinessWaits
<1>. QED  BY <1>1 DEF CompletionAnswer, Fault, request_completion_ready,
       request_completion_precedes_latched_protocol_error,
       input_completion_precedes_protocol_error

-----------------------------------------------------------------------------
(* Readiness is spent once.                                                *)

\* The reader thread sets readiness or a completion only with seen.ready.
LEMMA ReadinessReader ==
  ASSUME TypeOK, ReadinessInv, ReaderStep
  PROVE  ReadinessInv'
<1>. USE DEF ReadinessInv, ReadinessSpentOnce, FreshCompletion, CompletedWith
<1>1. CASE Quiet
  BY <1>1 DEF Quiet, request, input_completion_ready
<1>2. ASSUME NEW w \in BOOLEAN, Readied(w) PROVE ReadinessInv'
  BY <1>2 DEF Readied
<1>3. CASE Armed \/ Observed
  BY <1>3 DEF Armed, Observed, request
<1>. QED  BY <1>1, <1>2, <1>3, ReaderEffects

\* A blocking call takes readiness away with the batch it admits.
LEMMA ReadinessCall ==
  ASSUME TypeOK, ReadinessInv, NEW op \in Waits, Blocks(op) \/ Ends(op)
  PROVE  ReadinessInv'
<1>. USE DEF ReadinessInv, ReadinessSpentOnce, FreshCompletion, CompletedWith
<1>1. CASE Blocks(op)
  BY <1>1 DEF Blocks, Drained
<1>2. CASE Ends(op)
  <2>. DEFINE value == Answer(op)
  <2>1. /\ ret' = Returned(op, value)
        /\ seen' = IF op = "begin_input_when_ready" /\ value = "Ok"
                   THEN [seen EXCEPT !.ready = FALSE] ELSE seen
        /\ Drained(op, value)
    BY <1>2 DEF Ends, Return
  <2>2. CASE op = "begin_input_when_ready" /\ value = "Ok"
    <3>1. ~input'.ready_for_input /\ ~input_completion_ready(input')
      BY <2>1, <2>2 DEF Drained, input_completion_ready
    <3>. QED  BY <2>1, <2>2, <3>1 DEF Returned
  <2>3. CASE ~(op = "begin_input_when_ready" /\ value = "Ok")
    <3>1. seen' = seen
      BY <2>1, <2>3
    <3>2. /\ input'.ready_for_input => seen'.ready
          /\ input_completion_ready(input') => seen'.ready
      BY <2>1, <3>1 DEF Drained
    <3>3. CompletedWith("Ok")' => seen'.ready
      <4>1. SUFFICES ASSUME op = "wait_for_request_completion", value = "Ok"
                     PROVE  seen'.ready
        BY <2>1 DEF Returned
      <4>2. input_completion_ready(input)
        BY <4>1, CompletionOk DEF request_completion_ready
      <4>. QED  BY <3>1, <4>2
    <3>. QED  BY <3>2, <3>3
  <2>. QED  BY <2>2, <2>3
<1>. QED  BY <1>1, <1>2

\* The steps that leave readiness and the stream's history alone.
LEMMA ReadinessOther ==
  ASSUME TypeOK, ReadinessInv,
         \/ WorkerSend \/ WorkerClose \/ UNCHANGED vars
         \/ TimeOut \/ TakeProtocolError \/ TakePrompts \/ Interrupt
         \/ CompleteInterruptDelivery \/ DisableHandlers
  PROVE  ReadinessInv'
<1>. USE DEF ReadinessInv, ReadinessSpentOnce, FreshCompletion, CompletedWith
<1>1. CASE WorkerSend \/ WorkerClose \/ UNCHANGED vars
  BY <1>1 DEF WorkerSend, WorkerClose, vars, connection, request
<1>2. CASE TimeOut
  <2>1. UNCHANGED <<input, seen>> /\ ret'.value = "Timeout"
    BY <1>2 DEF TimeOut, Return, Returned, connection
  <2>. QED  BY <2>1 DEF Returned
<1>3. CASE TakeProtocolError
  <2>1. input \in InputStates
    BY DEF TypeOK
  <2>2. /\ input'.ready_for_input = input.ready_for_input
        /\ input_completion_ready(input') = input_completion_ready(input)
    BY <1>3, <2>1 DEF TakeProtocolError, take_protocol_error,
                      input_completion_ready, InputStates
  <2>3. seen' = seen /\ ret'.value = "Protocol"
    BY <1>3 DEF TakeProtocolError, Returned
  <2>. QED  BY <2>2, <2>3 DEF Returned
<1>4. CASE TakePrompts
  BY <1>4 DEF TakePrompts, request
<1>5. CASE Interrupt
  <2>1. UNCHANGED input /\ ret'.value = "Wait"
    BY <1>5 DEF Interrupt, Returned
  <2>2. seen'.ready = seen.ready
    BY <1>5 DEF Interrupt, TypeOK, Histories
  <2>. QED  BY <2>1, <2>2 DEF Returned
<1>6. CASE CompleteInterruptDelivery
  BY <1>6 DEF CompleteInterruptDelivery, connection
<1>7. CASE DisableHandlers
  BY <1>7 DEF DisableHandlers
<1>. QED  BY <1>1, <1>2, <1>3, <1>4, <1>5, <1>6, <1>7

\* A new connection starts without readiness.
LEMMA ReadinessInit == Init => ReadinessInv
BY DEF Init, ReadinessInv, ReadinessSpentOnce, FreshCompletion, CompletedWith,
       DefaultInputState, input_completion_ready, NoReturn, Returned

\* A replacement is a new connection.
LEMMA ReplaceInits == TypeOK /\ Replace => Init'
BY DEF Replace, Init, TypeOK

\* The readiness that admits a batch never completes it and never admits
\* another one: ready_for_input and a completion always stem from a message
\* read since the last batch was admitted.
THEOREM ReadinessCorrect == Spec => [](ReadinessSpentOnce /\ FreshCompletion)
<1>1. TypeOK /\ ReadinessInv /\ [Next]_vars => ReadinessInv'
  <2>. SUFFICES ASSUME TypeOK, ReadinessInv, [Next]_vars PROVE ReadinessInv'
    OBVIOUS
  <2>1. CASE ReaderStep
    BY <2>1, ReadinessReader
  <2>2. CASE (\E op \in Waits : Call(op)) \/ Wake
    BY <2>2, CallEffects, ReadinessCall
  <2>3. CASE Replace
    BY <2>3, ReplaceInits, ReadinessInit, PTL
  <2>. QED  BY <2>1, <2>2, <2>3, ReadinessOther DEF Next, CallerStep
<1>2. ReadinessInv => ReadinessSpentOnce /\ FreshCompletion
  BY DEF ReadinessInv
<1>. QED  BY <1>1, <1>2, ReadinessInit, TypeCorrect, PTL DEF Spec

-----------------------------------------------------------------------------
(* The interrupt transaction.                                              *)

\* The reader thread moves the transaction's fields only as far as the
\* stream has gone.
LEMMA InterruptReader ==
  ASSUME TypeOK, InterruptInv, ReaderStep
  PROVE  InterruptInv'
<1>. USE DEF InterruptInv, SettledInterrupt, CompletedWith, Admitted, request
<1>0. /\ seen.phase \in 0..3 /\ seen'.phase \in 0..3
      /\ inbox \in Inboxes /\ clock \in Nat
  <2>1. TypeOK'
    BY TypeReader
  <2>. QED  BY <2>1 DEF TypeOK, Histories
<1>1. CASE Quiet
  BY <1>0, <1>1 DEF Quiet
<1>2. ASSUME NEW w \in BOOLEAN, Readied(w) PROVE InterruptInv'
  BY <1>0, <1>2 DEF Readied
<1>3. CASE Armed
  <2>1. /\ inbox'.interrupt_started_at = inbox.interrupt_started_at
        /\ inbox'.interrupt_complete_at = inbox.interrupt_complete_at
        /\ inbox'.readiness_after_interrupt = inbox.readiness_after_interrupt
    BY <1>0, <1>3 DEF Armed, Inboxes
  <2>. QED  BY <1>0, <1>3, <2>1 DEF Armed
<1>4. CASE Observed
  <2>1. /\ inbox'.interrupt_started_at = inbox.interrupt_started_at
        /\ inbox'.interrupt_armed_at = inbox.interrupt_armed_at
        /\ ~inbox'.readiness_after_interrupt
    BY <1>0, <1>4 DEF Observed, Inboxes
  <2>2. inbox.interrupt_armed_at # None
    BY <1>4 DEF Observed, interrupt_transaction_armed
  <2>. QED  BY <1>0, <1>4, <2>1, <2>2 DEF Observed
<1>. QED  BY <1>1, <1>2, <1>3, <1>4, ReaderEffects

\* A transaction that no longer blocks has run its whole course.
LEMMA SettledPhase ==
  ASSUME InterruptInv, ~interrupt_transaction_blocks_request_completion(inbox)
  PROVE  seen.phase = 3
BY DEF InterruptInv, interrupt_transaction_blocks_request_completion,
       interrupt_transaction_pending, interrupt_transaction_settled

\* A call that returns leaves the transaction's fields within what the stream
\* has said, and reports a completion or admits a batch only in phase 3.
LEMMA InterruptCall ==
  ASSUME TypeOK, InterruptInv, NEW op \in Waits, Blocks(op) \/ Ends(op)
  PROVE  InterruptInv'
<1>. USE DEF SettledInterrupt, CompletedWith, Admitted
<1>1. CASE Blocks(op)
  <2>1. op = "begin_input_when_ready" /\ windows => ret = PendingOk
    BY <1>1 DEF Blocks, MayCall, PendingOk
  <2>. QED  BY <1>1, <2>1 DEF Blocks, Drained, InterruptInv
<1>2. CASE Ends(op)
  <2>. DEFINE value == Answer(op)
  <2>1. /\ ret' = Returned(op, value)
        /\ caller' \in {"idle", "dropped"}
        /\ seen'.phase = seen.phase
        /\ windows' = windows
    BY <1>2 DEF Ends, Drained, Return, CallerAfter, TypeOK, Histories
  <2>2. /\ inbox'.interrupt_armed_at = inbox.interrupt_armed_at
        /\ inbox'.interrupt_complete_at = inbox.interrupt_complete_at
        /\ inbox'.readiness_after_interrupt = inbox.readiness_after_interrupt
        /\ inbox'.interrupt_started_at =
             IF value = "Ok" /\ op = "wait_for_pending_interrupt_transaction"
             THEN None ELSE inbox.interrupt_started_at
    BY <1>2 DEF Ends, Drained
  <2>3. value = "Ok" /\ op = "wait_for_pending_interrupt_transaction" =>
          seen.phase = 3
    <3>1. SUFFICES ASSUME Answer("wait_for_pending_interrupt_transaction") = "Ok"
                   PROVE  seen.phase = 3
      OBVIOUS
    <3>2. FaultOr(InterruptFact("wait_for_pending_interrupt_transaction")) = "Ok"
      BY <3>1 DEF Answer, ReadinessWaits
    <3>3. InterruptFact("wait_for_pending_interrupt_transaction")
      BY <3>2 DEF FaultOr, Fault
    <3>4. \/ ~interrupt_transaction_pending(inbox)
          \/ interrupt_transaction_settled(inbox)
      BY <3>3 DEF InterruptFact
    <3>. QED  BY <3>4, SettledPhase DEF interrupt_transaction_blocks_request_completion
  <2>4. value = "Ok" /\ op = "wait_for_request_completion" => seen.phase = 3
    BY CompletionOk, SettledPhase DEF request_completion_ready
  <2>5. op = "begin_input_when_ready" => seen.phase = 3
    <3>1. SUFFICES ASSUME op = "begin_input_when_ready" PROVE seen.phase = 3
      OBVIOUS
    <3>2. caller = op \/ MayCall(op)
      BY <1>2 DEF Ends
    <3>3. windows => ret = PendingOk
      BY <3>1, <3>2 DEF InterruptInv, MayCall, PendingOk
    <3>. QED  BY <3>3 DEF InterruptInv, TypeOK
  <2>6. ret' = PendingOk => inbox'.interrupt_started_at = None
    BY <2>1, <2>2 DEF PendingOk, Returned
  <2>7. SettledInterrupt'
    BY <2>1, <2>4, <2>5 DEF Returned
  <2>. QED  BY <2>1, <2>2, <2>3, <2>6, <2>7 DEF InterruptInv
<1>. QED  BY <1>1, <1>2

\* An interrupt opens a transaction on Windows only; the remaining steps
\* leave it alone.
LEMMA InterruptOther ==
  ASSUME TypeOK, InterruptInv,
         \/ WorkerSend \/ WorkerClose \/ UNCHANGED vars
         \/ TimeOut \/ TakeProtocolError \/ TakePrompts \/ Interrupt
         \/ CompleteInterruptDelivery \/ DisableHandlers
  PROVE  InterruptInv'
<1>. USE DEF InterruptInv, SettledInterrupt, CompletedWith, Admitted, PendingOk
<1>1. CASE WorkerSend \/ WorkerClose \/ UNCHANGED vars
  BY <1>1 DEF WorkerSend, WorkerClose, vars, connection, request
<1>2. CASE TimeOut
  <2>1. /\ UNCHANGED <<inbox, windows>> /\ seen' = seen
        /\ ret'.value = "Timeout" /\ caller' \in {"idle", "dropped"}
    BY <1>2 DEF TimeOut, Return, Returned, connection, CallerAfter
  <2>. QED  BY <2>1 DEF Returned
<1>3. CASE TakeProtocolError
  <2>1. UNCHANGED <<inbox, seen, caller, windows>> /\ ret'.value = "Protocol" /\ caller = "idle"
    BY <1>3 DEF TakeProtocolError, Returned
  <2>. QED  BY <2>1 DEF Returned
<1>4. CASE TakePrompts
  <2>1. /\ inbox'.interrupt_started_at = inbox.interrupt_started_at
        /\ inbox'.interrupt_armed_at = inbox.interrupt_armed_at
        /\ inbox'.interrupt_complete_at = inbox.interrupt_complete_at
        /\ inbox'.readiness_after_interrupt = inbox.readiness_after_interrupt
    BY <1>4 DEF TakePrompts, TypeOK, Inboxes
  <2>. QED  BY <1>4, <2>1 DEF TakePrompts, request
<1>5. CASE Interrupt
  <2>1. ret' = Returned("interrupt", "Wait")
    BY <1>5 DEF Interrupt
  <2>2. CASE windows
    <3>1. /\ inbox'.interrupt_started_at = clock /\ clock # None
          /\ inbox'.interrupt_armed_at = None
          /\ inbox'.interrupt_complete_at = None
          /\ ~inbox'.readiness_after_interrupt
      <4>1. /\ inbox \in Inboxes /\ clock \in Nat
            /\ inbox' = begin_interrupt_transaction(inbox, clock)
        BY <1>5, <2>2 DEF Interrupt, TypeOK
      <4>. QED  BY <4>1 DEF begin_interrupt_transaction, Inboxes, None
    <3>2. caller' = "wait_for_interrupt_armed" /\ windows' = windows
      BY <1>5, <2>2 DEF Interrupt
    <3>. QED  BY <2>1, <2>2, <3>1, <3>2 DEF Returned
  <2>3. CASE ~windows
    <3>1. UNCHANGED <<inbox, caller, windows>> /\ seen'.phase = seen.phase
      BY <1>5, <2>3 DEF Interrupt, TypeOK, Histories
    <3>. QED  BY <2>1, <2>3, <3>1 DEF Returned
  <2>. QED  BY <2>2, <2>3
<1>6. CASE CompleteInterruptDelivery
  BY <1>6 DEF CompleteInterruptDelivery, connection
<1>7. CASE DisableHandlers
  BY <1>7 DEF DisableHandlers
<1>. QED  BY <1>1, <1>2, <1>3, <1>4, <1>5, <1>6, <1>7

\* A new connection has no transaction.
LEMMA InterruptInit == Init => InterruptInv
BY DEF Init, InterruptInv, SettledInterrupt, CompletedWith, Admitted, PendingOk,
       DefaultInbox, NoReturn, Returned, Unobserved, None

\* No request completes and no batch is admitted while an interrupt
\* transaction is open, whatever order the worker sends its messages in.
THEOREM InterruptCorrect == Spec => []SettledInterrupt
<1>1. TypeOK /\ InterruptInv /\ [Next]_vars => InterruptInv'
  <2>. SUFFICES ASSUME TypeOK, InterruptInv, [Next]_vars PROVE InterruptInv'
    OBVIOUS
  <2>1. CASE ReaderStep
    BY <2>1, InterruptReader
  <2>2. CASE (\E op \in Waits : Call(op)) \/ Wake
    BY <2>2, CallEffects, InterruptCall
  <2>3. CASE Replace
    BY <2>3, ReplaceInits, InterruptInit, PTL
  <2>. QED  BY <2>1, <2>2, <2>3, InterruptOther DEF Next, CallerStep
<1>2. InterruptInv => SettledInterrupt
  BY DEF InterruptInv
<1>. QED  BY <1>1, <1>2, InterruptInit, TypeCorrect, PTL DEF Spec

-----------------------------------------------------------------------------
(* The end of the session.                                                 *)

\* A step of the reader thread that reads no session_end: it calls for a
\* handler only while the session has not ended.
NoEnd ==
  /\ handler = NoEvent
  /\ UNCHANGED handled
  /\ input'.session_end = input.session_end
  /\ input'.session_end_final = input.session_end_final
  /\ inbox'.queued_session_end = inbox.queued_session_end
  /\ handler' # NoEvent => ~input.session_end_final /\ handler' # "session_end"

\* The one step that reads it.
EndRead ==
  /\ handler = NoEvent
  /\ UNCHANGED handled
  /\ ~input.session_end_final
  /\ input'.session_end /\ input'.session_end_final
  /\ inbox'.queued_session_end = inbox.queued_session_end + 1
  /\ handler' = "session_end"

\* Every step of the reader thread reads no session_end, reads one, or calls
\* the handler.
LEMMA SessionEffects ==
  ASSUME TypeOK, ReaderStep
  PROVE  NoEnd \/ EndRead \/ Dispatch
<1>0. input \in InputStates /\ inbox \in Inboxes
  BY DEF TypeOK
<1>a. ASSUME NEW m, Reading(m), Refuse,
             inbox'.queued_session_end = inbox.queued_session_end
      PROVE  NoEnd
  BY <1>0, <1>a DEF Reading, Refuse, latch_protocol_error, InputStates, NoEnd
<1>b. ASSUME NEW m, Fact(m), NEW event \in Handlers \union {NoEvent},
             event # "session_end", Accept(event),
             input'.session_end = input.session_end,
             input'.session_end_final = input.session_end_final,
             inbox'.queued_session_end = inbox.queued_session_end
      PROVE  NoEnd
  BY <1>b DEF Fact, Reading, Admissible, Accept, NoEnd
<1>1. CASE ReadRefused
  BY <1>1, <1>a DEF ReadRefused
<1>2. CASE ReadInputLine
  <2>1. PICK m : /\ Fact(m)
                 /\ \/ Refuse /\ UNCHANGED inbox
                    \/ /\ inbox' = [inbox EXCEPT
                            !.readline_result_count = @ + 1,
                            !.prompt_history = push_prompt_history(@, m.prompt),
                            !.input_line_events = @ + 1]
                       /\ Accept("input_line")
                       /\ UNCHANGED input
    BY <1>2 DEF ReadInputLine
  <2>2. inbox'.queued_session_end = inbox.queued_session_end
    BY <1>0, <2>1 DEF Inboxes
  <2>. QED  BY <1>a, <1>b, <2>1, <2>2 DEF Fact, Handlers
<1>3. CASE ReadInputWait
  <2>1. PICK m : /\ Fact(m)
                 /\ input' = record_ready_at(input, clock, TRUE)
                 /\ inbox' = [note_readiness(inbox) EXCEPT
                      !.prompt_history = push_prompt_history(@, m.prompt),
                      !.last_prompt = m.prompt]
                 /\ Accept("input_wait")
    BY <1>3 DEF ReadInputWait
  <2>2. /\ inbox'.queued_session_end = inbox.queued_session_end
        /\ input'.session_end = input.session_end
        /\ input'.session_end_final = input.session_end_final
    BY <1>0, <2>1 DEF Inboxes, note_readiness, InputStates, record_ready_at
  <2>. QED  BY <1>b, <2>1, <2>2 DEF Handlers
<1>4. CASE ReadReady
  <2>1. PICK m : /\ Fact(m)
                 /\ input' = record_ready_at(input, clock, FALSE)
                 /\ inbox' = [note_readiness(inbox) EXCEPT
                      !.last_prompt = NoPrompt,
                      !.prompt_history = << >>]
                 /\ Accept(NoEvent)
    BY <1>4 DEF ReadReady
  <2>2. /\ inbox'.queued_session_end = inbox.queued_session_end
        /\ input'.session_end = input.session_end
        /\ input'.session_end_final = input.session_end_final
    BY <1>0, <2>1 DEF Inboxes, note_readiness, InputStates, record_ready_at
  <2>. QED  BY <1>b, <2>1, <2>2 DEF NoEvent
<1>5. CASE ReadInterruptArmed
  <2>1. PICK m : /\ Fact(m)
                 /\ \/ Refuse /\ UNCHANGED inbox
                    \/ /\ inbox' = [inbox EXCEPT !.interrupt_armed_at = clock]
                       /\ Accept(NoEvent)
                       /\ UNCHANGED input
    BY <1>5 DEF ReadInterruptArmed
  <2>2. inbox'.queued_session_end = inbox.queued_session_end
    BY <1>0, <2>1 DEF Inboxes
  <2>. QED  BY <1>a, <1>b, <2>1, <2>2 DEF Fact, NoEvent
<1>6. CASE ReadInterruptComplete
  <2>1. PICK m : /\ Fact(m)
                 /\ \/ Refuse /\ UNCHANGED inbox
                    \/ /\ inbox' = [inbox EXCEPT !.interrupt_complete_at = clock,
                                                 !.readiness_after_interrupt = FALSE]
                       /\ Accept(NoEvent)
                       /\ UNCHANGED input
    BY <1>6 DEF ReadInterruptComplete
  <2>2. inbox'.queued_session_end = inbox.queued_session_end
    BY <1>0, <2>1 DEF Inboxes
  <2>. QED  BY <1>a, <1>b, <2>1, <2>2 DEF Fact, NoEvent
<1>7. CASE ReadSessionEnd
  <2>1. PICK m : /\ Fact(m)
                 /\ \/ /\ Refuse
                       /\ inbox' = [inbox EXCEPT !.startup_message_seen = TRUE]
                    \/ /\ input' = note_session_end(
                            IF FirstMessage /\ m.type = "startup_failure"
                            THEN latch_protocol_error(input, clock) ELSE input)
                       /\ inbox' = [inbox EXCEPT !.startup_message_seen = TRUE,
                                                 !.queued_session_end = @ + 1]
                       /\ Accept("session_end")
    BY <1>7 DEF ReadSessionEnd
  <2>2. CASE /\ Refuse
             /\ inbox' = [inbox EXCEPT !.startup_message_seen = TRUE]
    BY <1>0, <1>a, <2>1, <2>2 DEF Fact, Inboxes
  <2>3. CASE /\ input' = note_session_end(
                  IF FirstMessage /\ m.type = "startup_failure"
                  THEN latch_protocol_error(input, clock) ELSE input)
             /\ inbox' = [inbox EXCEPT !.startup_message_seen = TRUE,
                                       !.queued_session_end = @ + 1]
             /\ Accept("session_end")
    <3>1. input'.session_end /\ input'.session_end_final
      BY <1>0, <2>3 DEF note_session_end, latch_protocol_error, InputStates
    <3>2. inbox'.queued_session_end = inbox.queued_session_end + 1
      BY <1>0, <2>3 DEF Inboxes
    <3>3. EndRead
      BY <2>1, <2>3, <3>1, <3>2 DEF EndRead, Fact, Reading, Admissible, Accept
    <3>. QED  BY <3>3
  <2>. QED  BY <2>1, <2>2, <2>3
<1>8. CASE ReadOutput
  <2>1. PICK m : /\ Fact(m)
                 /\ Refuse \/ (Accept("output") /\ UNCHANGED input)
                 /\ UNCHANGED inbox
    BY <1>8 DEF ReadOutput
  <2>. QED  BY <1>a, <1>b, <2>1 DEF Fact, Handlers
<1>9. CASE ReadWorkerReady
  <2>1. PICK m : /\ Fact(m)
                 /\ inbox' = [inbox EXCEPT !.startup_message_seen = TRUE,
                                           !.queued_worker_ready = @ + 1]
                 /\ Accept(NoEvent)
                 /\ UNCHANGED input
    BY <1>9 DEF ReadWorkerReady
  <2>2. inbox'.queued_session_end = inbox.queued_session_end
    BY <1>0, <2>1 DEF Inboxes
  <2>. QED  BY <1>b, <2>1, <2>2 DEF NoEvent
<1>10. CASE ReadEof
  BY <1>0, <1>10 DEF ReadEof, NoEnd, Inboxes
<1>. QED  BY <1>1, <1>2, <1>3, <1>4, <1>5, <1>6, <1>7, <1>8, <1>9, <1>10
     DEF ReaderStep

\* The reader keeps the two records of a session end in step.
LEMMA SessionReader ==
  ASSUME TypeOK, SessionInv, ReaderStep
  PROVE  SessionInv'
<1>. USE DEF SessionInv, SessionEndOnce, NoEvent
<1>1. CASE NoEnd
  BY <1>1 DEF NoEnd
<1>2. CASE EndRead
  BY <1>2 DEF EndRead
<1>3. CASE Dispatch
  BY <1>3 DEF Dispatch
<1>. QED  BY <1>1, <1>2, <1>3, SessionEffects

\* A call that reports the session end takes the flag and the message; so does
\* the spawn when worker_ready was read before it.
LEMMA SessionQueue ==
  ASSUME TypeOK, SessionEndOnce, NEW op, NEW value, NEW box \in Inboxes,
         box.queued_session_end = inbox.queued_session_end,
         value = "SessionEnd" => input.session_end
  PROVE  InboxAfter(op, value, box).queued_session_end =
           IF /\ input.session_end /\ value # "SessionEnd"
              /\ ~(value = "Ok" /\ op = "wait_for_worker_ready")
           THEN 1 ELSE 0
<1>. DEFINE b == InboxAfter(op, value, box)
<1>0. inbox.queued_session_end = IF input.session_end THEN 1 ELSE 0
  BY DEF SessionEndOnce
<1>. USE DEF InboxAfter, ReadinessWaits
<1>1. CASE value = "SessionEnd"
  BY <1>0, <1>1 DEF take_session_end, Inboxes
<1>2. CASE value = "Ok" /\ op = "wait_for_worker_ready"
  <2>1. b = take_worker_ready(IF input.session_end THEN take_session_end(box) ELSE box)
    BY <1>2
  <2>2. \A c \in Inboxes :
          take_worker_ready(c).queued_session_end = c.queued_session_end
    BY DEF take_worker_ready, Inboxes
  <2>3. /\ take_session_end(box) \in Inboxes
        /\ input.session_end => take_session_end(box).queued_session_end = 0
    BY <1>0, InboxOperators DEF take_session_end, Inboxes
  <2>4. b.queued_session_end = 0
    BY <1>0, <2>1, <2>2, <2>3
  <2>. QED  BY <1>2, <2>4
<1>3. CASE value # "SessionEnd" /\ ~(value = "Ok" /\ op = "wait_for_worker_ready")
  <2>1. b.queued_session_end = box.queued_session_end
    BY <1>3 DEF start_request_records, reset_request_progress, Inboxes
  <2>. QED  BY <1>0, <1>3, <2>1
<1>. QED  BY <1>1, <1>2, <1>3

\* A call that reports a session end has one on record.
LEMMA SessionEndAnswer ==
  ASSUME NEW op, Answer(op) = "SessionEnd" PROVE input.session_end
<1>1. \A fact : FaultOr(fact) = "SessionEnd" => Fault = "SessionEnd"
  BY DEF FaultOr
<1>2. CompletionAnswer = "SessionEnd" \/ WorkerReadyAnswer = "SessionEnd" =>
        Fault = "SessionEnd"
  BY DEF CompletionAnswer, WorkerReadyAnswer
<1>3. Fault = "SessionEnd"
  BY <1>1, <1>2 DEF Answer
<1>. QED  BY <1>3 DEF Fault

\* A blocking call keeps them in step too.
LEMMA SessionCall ==
  ASSUME TypeOK, SessionInv, (\E op \in Waits : Call(op)) \/ Wake
  PROVE  SessionInv'
<1>0. inbox \in Inboxes /\ input \in InputStates
  BY DEF TypeOK
<1>1. ASSUME NEW op, NEW value, NEW box \in Inboxes, Drained(op, value),
             inbox' = InboxAfter(op, value, box),
             box.queued_session_end = inbox.queued_session_end,
             value = Answer(op)
      PROVE  SessionInv'
  <2>1. input'.session_end = (/\ input.session_end /\ value # "SessionEnd"
                              /\ ~(value = "Ok" /\ op = "wait_for_worker_ready"))
    BY <1>1 DEF Drained
  <2>2. SessionEndOnce'
    BY <1>1, <2>1, SessionQueue, SessionEndAnswer DEF SessionInv, SessionEndOnce
  <2>3. UNCHANGED <<handler, handled>> /\ input'.session_end_final = input.session_end_final
    BY <1>1 DEF Drained
  <2>. QED  BY <2>1, <2>2, <2>3 DEF SessionInv
<1>2. ASSUME NEW op \in Waits, Call(op) PROVE SessionInv'
  <2>1. /\ InboxOnEntry(op) \in Inboxes
        /\ InboxOnEntry(op).queued_session_end = inbox.queued_session_end
    BY <1>0, EntryType, EntryFacts
  <2>2. inbox' = InboxAfter(op, Answer(op), InboxOnEntry(op))
    BY <1>2 DEF Call
  <2>3. Drained(op, Answer(op))
    BY <1>2, CallDrains
  <2>. QED  BY <1>1, <2>1, <2>2, <2>3
<1>3. ASSUME Wake PROVE SessionInv'
  <2>1. inbox' = InboxAfter(caller, Answer(caller), inbox)
    BY <1>3 DEF Wake
  <2>2. Drained(caller, Answer(caller))
    BY <1>3, WakeDrains
  <2>. QED  BY <1>0, <1>1, <2>1, <2>2
<1>. QED  BY <1>2, <1>3

\* The other steps touch neither.
LEMMA SessionOther ==
  ASSUME TypeOK, SessionInv,
         \/ WorkerSend \/ WorkerClose \/ UNCHANGED vars
         \/ TimeOut \/ TakeProtocolError \/ TakePrompts \/ Interrupt
         \/ CompleteInterruptDelivery \/ DisableHandlers
  PROVE  SessionInv'
<1>1. UNCHANGED <<handler, handled>>
  BY DEF WorkerSend, WorkerClose, vars, TimeOut, TakeProtocolError, TakePrompts,
         Interrupt, CompleteInterruptDelivery, DisableHandlers, connection
<1>2. /\ input'.session_end = input.session_end
      /\ input'.session_end_final = input.session_end_final
  <2>1. input' \in {input, take_protocol_error(input)}
    BY DEF WorkerSend, WorkerClose, vars, TimeOut, TakeProtocolError, TakePrompts,
           Interrupt, CompleteInterruptDelivery, DisableHandlers, connection
  <2>. QED  BY <2>1 DEF TypeOK, InputStates, take_protocol_error
<1>3. inbox'.queued_session_end = inbox.queued_session_end
  <2>1. \/ inbox' = inbox
        \/ inbox' = [inbox EXCEPT !.last_prompt = NoPrompt, !.prompt_history = << >>]
        \/ inbox' = begin_interrupt_transaction(inbox, clock)
    BY DEF WorkerSend, WorkerClose, vars, TimeOut, TakeProtocolError, TakePrompts,
           Interrupt, CompleteInterruptDelivery, DisableHandlers, connection
  <2>. QED  BY <2>1 DEF TypeOK, Inboxes, begin_interrupt_transaction
<1>. QED  BY <1>1, <1>2, <1>3 DEF SessionInv, SessionEndOnce

\* A new connection's session has not ended.
LEMMA SessionInit == Init => SessionInv
BY DEF Init, SessionInv, SessionEndOnce, DefaultInputState, DefaultInbox, NoEvent

\* Every step keeps what is known of the session end.
LEMMA SessionStep ==
  ASSUME TypeOK, SessionInv, [Next]_vars PROVE SessionInv'
<1>1. CASE ReaderStep
  BY <1>1, SessionReader
<1>2. CASE (\E op \in Waits : Call(op)) \/ Wake
  BY <1>2, SessionCall
<1>3. CASE Replace
  BY <1>3, ReplaceInits, SessionInit, PTL
<1>. QED  BY <1>1, <1>2, <1>3, SessionOther DEF Next, CallerStep

\* The flag and the queued message of a session end are always taken
\* together, so no wait reports it twice and none finds half of it.
THEOREM SessionEndCorrect == Spec => []SessionEndOnce
<1>1. TypeOK /\ SessionInv /\ [Next]_vars => SessionInv'
  BY SessionStep
<1>2. SessionInv => SessionEndOnce
  BY DEF SessionInv
<1>. QED  BY <1>1, <1>2, SessionInit, TypeCorrect, PTL DEF Spec

\* Once session_end has reached its handler no other event of that
\* connection does, however many messages the worker still sends.
THEOREM SessionEndLast == Spec => NothingAfterSessionEnd
<1>1. TypeOK /\ SessionInv /\ [Next]_vars => SessionInv'
  BY SessionStep
<1>2. TypeOK /\ SessionInv /\ [Next]_vars =>
        [handled = "session_end" => handled' \in {"session_end", NoEvent}]_vars
  <2>. SUFFICES ASSUME TypeOK, SessionInv, Next, handled = "session_end"
                PROVE  handled' \in {"session_end", NoEvent}
    OBVIOUS
  <2>1. CASE ReaderStep
    BY <2>1, SessionEffects DEF NoEnd, EndRead, Dispatch, SessionInv
  <2>2. CASE (\E op \in Waits : Call(op)) \/ Wake
    BY <2>2 DEF Call, Wake
  <2>3. CASE Replace
    BY <2>3 DEF Replace
  <2>. QED  BY <2>1, <2>2, <2>3
       DEF Next, CallerStep, WorkerSend, WorkerClose, TimeOut, TakeProtocolError,
           TakePrompts, Interrupt, CompleteInterruptDelivery, DisableHandlers,
           connection
<1>. QED  BY <1>1, <1>2, SessionInit, TypeCorrect, PTL
     DEF Spec, NothingAfterSessionEnd

-----------------------------------------------------------------------------
(* A latched protocol error and the completion it must not hide.           *)

\* Once the reader thread has stopped, or has read session_end, it reports no
\* further fact.
LEMMA NothingNewAfterEnd ==
  ASSUME ReaderStep, reader = "stopped" \/ input.session_end_final
  PROVE  ReadRefused \/ ReadEof \/ Dispatch
<1>1. \A m : ~Fact(m)
  BY DEF Fact, Reading, Admissible
<1>. QED  BY <1>1 DEF ReaderStep, ReadInputLine, ReadInputWait, ReadReady,
       ReadInterruptArmed, ReadInterruptComplete, ReadSessionEnd, ReadOutput,
       ReadWorkerReady

\* The reader latches an error only with the step that ends its reports.
Latches ==
  /\ input'.protocol_error = clock
  /\ input'.completed_observed_at = input.completed_observed_at
  /\ reader' = "stopped" \/ input'.session_end_final

\* Otherwise it leaves the latched error alone.
Unlatched ==
  /\ input'.protocol_error = input.protocol_error
  /\ input'.completed_observed_at \in {input.completed_observed_at, clock}

\* What the reader does to a protocol error and to a completion.
LEMMA LatchEffects ==
  ASSUME TypeOK, ReaderStep
  PROVE  /\ UNCHANGED <<ret, clock>>
         /\ Latches \/ Unlatched
<1>0. input \in InputStates
  BY DEF TypeOK
<1>a. Refuse => Latches
  BY <1>0 DEF Refuse, Latches, latch_protocol_error, InputStates
<1>b. \A w : input' = record_ready_at(input, clock, w) => Unlatched
  BY <1>0 DEF Unlatched, record_ready_at, InputStates
<1>c. UNCHANGED input => Unlatched
  BY DEF Unlatched
<1>d. \A m : Reading(m) => UNCHANGED <<ret, clock>>
  BY DEF Reading, request
<1>1. CASE ReadRefused
  BY <1>1, <1>a, <1>d DEF ReadRefused
<1>2. CASE ReadInputLine \/ ReadInterruptArmed \/ ReadInterruptComplete \/ ReadOutput
  BY <1>2, <1>a, <1>c, <1>d
     DEF ReadInputLine, ReadInterruptArmed, ReadInterruptComplete, ReadOutput, Fact
<1>3. CASE ReadInputWait \/ ReadReady
  BY <1>3, <1>b, <1>d DEF ReadInputWait, ReadReady, Fact
<1>4. CASE ReadSessionEnd
  <2>1. PICK m : /\ Fact(m)
                 /\ \/ Refuse
                    \/ input' = note_session_end(
                            IF FirstMessage /\ m.type = "startup_failure"
                            THEN latch_protocol_error(input, clock) ELSE input)
    BY <1>4 DEF ReadSessionEnd
  <2>2. input' = note_session_end(latch_protocol_error(input, clock)) => Latches
    BY <1>0 DEF Latches, note_session_end, latch_protocol_error, InputStates
  <2>3. input' = note_session_end(input) => Unlatched
    BY <1>0 DEF Unlatched, note_session_end, InputStates
  <2>. QED  BY <1>a, <1>d, <2>1, <2>2, <2>3 DEF Fact
<1>5. CASE ReadWorkerReady
  BY <1>5, <1>c, <1>d DEF ReadWorkerReady, Fact
<1>6. CASE ReadEof \/ Dispatch
  BY <1>6, <1>c DEF ReadEof, Dispatch, request
<1>. QED  BY <1>1, <1>2, <1>3, <1>4, <1>5, <1>6 DEF ReaderStep

\* Neither an ended reader nor an ended session goes back.
LEMMA EndStays ==
  ASSUME TypeOK, ReaderStep, reader = "stopped" \/ input.session_end_final
  PROVE  /\ reader' = "stopped" \/ input'.session_end_final
         /\ input'.active = input.active
         /\ input'.completed_observed_at = input.completed_observed_at
         /\ inbox'.interrupt_started_at = inbox.interrupt_started_at
         /\ inbox'.interrupt_armed_at = inbox.interrupt_armed_at
         /\ inbox'.interrupt_complete_at = inbox.interrupt_complete_at
         /\ inbox'.readiness_after_interrupt = inbox.readiness_after_interrupt
<1>1. ReadRefused \/ ReadEof \/ Dispatch
  BY NothingNewAfterEnd
<1>2. CASE ReadRefused
  BY <1>2 DEF ReadRefused, Refuse, latch_protocol_error, TypeOK, InputStates
<1>3. CASE ReadEof
  BY <1>3 DEF ReadEof, TypeOK, Inboxes
<1>4. CASE Dispatch
  BY <1>4 DEF Dispatch
<1>. QED  BY <1>1, <1>2, <1>3, <1>4

\* Whether a completion may be reported depends on these fields only.
LEMMA CompletionFields ==
  ASSUME NEW s, NEW t, NEW b, NEW c,
         input_completion_ready(t) => input_completion_ready(s),
         c.interrupt_started_at = b.interrupt_started_at,
         c.interrupt_armed_at = b.interrupt_armed_at,
         c.interrupt_complete_at = b.interrupt_complete_at,
         c.readiness_after_interrupt = b.readiness_after_interrupt,
         request_completion_ready(t, c)
  PROVE  request_completion_ready(s, b)
BY DEF request_completion_ready, interrupt_transaction_blocks_request_completion,
       interrupt_transaction_pending, interrupt_transaction_settled,
       interrupt_transaction_armed

\* The reader keeps ErrorInv: with an error latched it brings no completion,
\* and an error it latches is not older than the completion on record.
LEMMA ErrorReader ==
  ASSUME TypeOK, ErrorInv, ReaderStep
  PROVE  ErrorInv'
<1>. DEFINE ended == reader = "stopped" \/ input.session_end_final
<1>0. /\ input.completed_observed_at \in Nat \union {None} /\ clock \in Nat
      /\ UNCHANGED <<ret, clock>>
  BY LatchEffects DEF TypeOK, InputStates, Option, Instant
<1>1. CASE ended
  <2>1. /\ ended'
        /\ input'.completed_observed_at = input.completed_observed_at
        /\ input'.protocol_error \in {input.protocol_error, clock}
    BY <1>1, EndStays, LatchEffects DEF Latches, Unlatched
  <2>2. CompletionNotHidden'
    <3>1. SUFFICES ASSUME CompletedWith("Protocol"), request_completion_ready(input, inbox)'
                   PROVE  FALSE
      BY <1>0 DEF CompletionNotHidden, CompletedWith
    <3>2. input_completion_ready(input') => input_completion_ready(input)
      BY <1>1, EndStays DEF input_completion_ready
    <3>3. request_completion_ready(input, inbox)
      BY <1>1, <3>1, <3>2, EndStays, CompletionFields
    <3>. QED  BY <3>1, <3>3 DEF ErrorInv, CompletionNotHidden
  <2>3. /\ input'.completed_observed_at # None =>
             input'.completed_observed_at <= clock'
        /\ input'.protocol_error # None /\ input'.completed_observed_at # None =>
             input'.completed_observed_at <= input'.protocol_error
    BY <1>0, <2>1 DEF ErrorInv
  <2>. QED  BY <2>1, <2>2, <2>3 DEF ErrorInv
<1>2. CASE ~ended
  <2>1. input.protocol_error = None /\ ~CompletedWith("Protocol")
    BY <1>2 DEF ErrorInv
  <2>2. ~CompletedWith("Protocol")'
    BY <1>0, <2>1 DEF CompletedWith
  <2>3. CASE Latches
    BY <1>0, <2>2, <2>3 DEF Latches, ErrorInv, CompletionNotHidden
  <2>4. CASE Unlatched
    BY <1>0, <2>1, <2>2, <2>4 DEF Unlatched, ErrorInv, CompletionNotHidden
  <2>. QED  BY <2>3, <2>4, LatchEffects
<1>. QED  BY <1>1, <1>2

\* wait_for_request_completion reports the error only when no completion
\* may be reported, because a completion on record is not newer than it.
LEMMA ProtocolAnswer ==
  ASSUME ErrorInv, Answer("wait_for_request_completion") = "Protocol"
  PROVE  /\ reader = "stopped" \/ input.session_end_final
         /\ ~request_completion_ready(input, inbox)
<1>1. CompletionAnswer = "Protocol"
  BY DEF Answer, ReadinessWaits
<1>2. /\ input.protocol_error # None
      /\ ~request_completion_precedes_latched_protocol_error(input, inbox)
  BY <1>1 DEF CompletionAnswer, Fault
<1>. QED  BY <1>2 DEF ErrorInv, request_completion_precedes_latched_protocol_error,
       input_completion_precedes_protocol_error, request_completion_ready,
       input_completion_ready

\* A blocking call keeps ErrorInv.
LEMMA ErrorCall ==
  ASSUME TypeOK, ErrorInv, NEW op \in Waits, Blocks(op) \/ Ends(op)
  PROVE  ErrorInv'
<1>1. ASSUME NEW value, Drained(op, value)
      PROVE  /\ UNCHANGED <<clock, reader>>
             /\ input'.session_end_final = input.session_end_final
             /\ input'.completed_observed_at \in {input.completed_observed_at, None}
             /\ input'.protocol_error \in {input.protocol_error, None}
  BY <1>1 DEF Drained
<1>2. ASSUME NEW value, Drained(op, value),
             ~(value = "Ok" /\ op = "wait_for_pending_interrupt_transaction"),
             ~request_completion_ready(input, inbox)
      PROVE  ~request_completion_ready(input', inbox')
  <2>1. /\ input_completion_ready(input') => input_completion_ready(input)
        /\ inbox'.interrupt_started_at = inbox.interrupt_started_at
        /\ inbox'.interrupt_armed_at = inbox.interrupt_armed_at
        /\ inbox'.interrupt_complete_at = inbox.interrupt_complete_at
        /\ inbox'.readiness_after_interrupt = inbox.readiness_after_interrupt
    BY <1>2 DEF Drained
  <2>. QED  BY <1>2, <2>1, CompletionFields
<1>3. CASE Blocks(op)
  <2>1. Drained(op, "Wait") /\ ret' = ret
    BY <1>3 DEF Blocks
  <2>2. CompletionNotHidden'
    BY <1>2, <2>1 DEF ErrorInv, CompletionNotHidden, CompletedWith
  <2>. QED  BY <1>1, <2>1, <2>2 DEF ErrorInv, CompletedWith
<1>4. CASE Ends(op)
  <2>1. Drained(op, Answer(op)) /\ ret' = Returned(op, Answer(op))
    BY <1>4 DEF Ends, Return
  <2>2. CompletedWith("Protocol")' =>
          op = "wait_for_request_completion" /\ Answer(op) = "Protocol"
    BY <2>1 DEF CompletedWith, Returned
  <2>3. CompletionNotHidden'
    BY <1>2, <2>1, <2>2, ProtocolAnswer DEF CompletionNotHidden
  <2>4. input'.protocol_error # None \/ CompletedWith("Protocol")' =>
          reader' = "stopped" \/ input'.session_end_final
    BY <1>1, <2>1, <2>2, ProtocolAnswer DEF ErrorInv
  <2>5. /\ input'.completed_observed_at # None =>
             input'.completed_observed_at <= clock'
        /\ input'.protocol_error # None /\ input'.completed_observed_at # None =>
             input'.completed_observed_at <= input'.protocol_error
    BY <1>1, <2>1 DEF ErrorInv
  <2>. QED  BY <2>3, <2>4, <2>5 DEF ErrorInv
<1>. QED  BY <1>3, <1>4

\* The other steps neither latch an error nor bring a completion.
LEMMA ErrorOther ==
  ASSUME TypeOK, ErrorInv,
         \/ WorkerSend \/ WorkerClose \/ UNCHANGED vars
         \/ TimeOut \/ TakeProtocolError \/ TakePrompts \/ Interrupt
         \/ CompleteInterruptDelivery \/ DisableHandlers
  PROVE  ErrorInv'
<1>0. /\ input \in InputStates /\ inbox \in Inboxes /\ clock \in Nat
      /\ input.completed_observed_at \in Nat \union {None}
  BY DEF TypeOK, InputStates, Option, Instant
<1>. USE DEF ErrorInv, CompletionNotHidden, CompletedWith
<1>1. CASE \/ WorkerSend \/ WorkerClose \/ UNCHANGED vars
           \/ CompleteInterruptDelivery \/ DisableHandlers
  <2>1. UNCHANGED <<input, inbox, reader, ret, clock>>
    BY <1>1 DEF WorkerSend, WorkerClose, vars, CompleteInterruptDelivery,
                DisableHandlers, connection, request
  <2>. QED  BY <2>1
<1>2. CASE TimeOut
  <2>1. UNCHANGED <<input, inbox, reader, clock>> /\ ret'.value = "Timeout"
    BY <1>2 DEF TimeOut, Return, Returned, connection
  <2>. QED  BY <2>1 DEF Returned
<1>3. CASE TakeProtocolError
  <2>1. /\ UNCHANGED <<reader, clock>> /\ ret'.op = "take_protocol_error"
        /\ input'.protocol_error = None
        /\ input'.completed_observed_at = input.completed_observed_at
    BY <1>0, <1>3 DEF TakeProtocolError, take_protocol_error, InputStates, Returned
  <2>. QED  BY <2>1 DEF Returned
<1>4. CASE TakePrompts
  <2>1. /\ inbox'.interrupt_started_at = inbox.interrupt_started_at
        /\ inbox'.interrupt_armed_at = inbox.interrupt_armed_at
        /\ inbox'.interrupt_complete_at = inbox.interrupt_complete_at
        /\ inbox'.readiness_after_interrupt = inbox.readiness_after_interrupt
        /\ UNCHANGED <<input, reader, ret, clock>>
    BY <1>0, <1>4 DEF TakePrompts, Inboxes, request
  <2>2. request_completion_ready(input', inbox') =>
          request_completion_ready(input, inbox)
    BY <2>1, CompletionFields
  <2>. QED  BY <2>1, <2>2
<1>5. CASE Interrupt
  <2>1. UNCHANGED <<input, reader>> /\ clock' = clock + 1 /\ ret'.op = "interrupt"
    BY <1>5 DEF Interrupt, Returned
  <2>. QED  BY <1>0, <2>1 DEF Returned
<1>. QED  BY <1>1, <1>2, <1>3, <1>4, <1>5

\* A new connection has no error.
LEMMA ErrorInit == Init => ErrorInv
BY DEF Init, ErrorInv, CompletionNotHidden, CompletedWith, DefaultInputState,
       NoReturn, Returned

\* A protocol error read after the readiness message that completed the
\* request never takes the completion away, and none that wait_for_request_
\* completion has reported is followed by a completion of that request.
THEOREM CompletionKept == Spec => []CompletionNotHidden
<1>1. TypeOK /\ ErrorInv /\ [Next]_vars => ErrorInv'
  <2>. SUFFICES ASSUME TypeOK, ErrorInv, [Next]_vars PROVE ErrorInv'
    OBVIOUS
  <2>1. CASE ReaderStep
    BY <2>1, ErrorReader
  <2>2. CASE (\E op \in Waits : Call(op)) \/ Wake
    BY <2>2, CallEffects, ErrorCall
  <2>3. CASE Replace
    BY <2>3, ReplaceInits, ErrorInit, PTL
  <2>. QED  BY <2>1, <2>2, <2>3, ErrorOther DEF Next, CallerStep
<1>2. ErrorInv => CompletionNotHidden
  BY DEF ErrorInv
<1>. QED  BY <1>1, <1>2, ErrorInit, TypeCorrect, PTL DEF Spec

-----------------------------------------------------------------------------
(* The prompt that answers an interrupt on Unix.                           *)

\* The reader keeps PromptInv.
LEMMA PromptReader ==
  ASSUME TypeOK, PromptInv, ReaderStep
  PROVE  PromptInv'
<1>. USE DEF PromptInv, FreshReadyAfterInterrupt
<1>0. input \in InputStates /\ inbox \in Inboxes /\ clock \in Nat
  BY DEF TypeOK
<1>1. CASE Quiet
  BY <1>1 DEF Quiet, request
<1>2. ASSUME NEW w \in BOOLEAN, Readied(w) PROVE PromptInv'
  <2>1. /\ input'.ready_from_input_wait = w
        /\ input'.ready_observed_at = clock
        /\ inbox'.last_prompt # NoPrompt => w
        /\ seen'.fresh /\ (w => seen'.last = "input_wait")
        /\ UNCHANGED <<ret, clock>>
    BY <1>0, <1>2 DEF Readied, record_ready_at, InputStates, request
  <2>. QED  BY <1>0, <2>1
<1>3. CASE Armed \/ Observed
  <2>1. inbox'.last_prompt = inbox.last_prompt
    BY <1>0, <1>3 DEF Armed, Observed, Inboxes
  <2>. QED  BY <1>3, <2>1 DEF Armed, Observed, request
<1>. QED  BY <1>1, <1>2, <1>3, ReaderEffects

\* The wait after a Unix interrupt ends well only on an input_wait or on a
\* readiness message read after the interrupt.
LEMMA PromptAnswer ==
  ASSUME PromptInv, Answer("wait_for_input_wait_or_fresh_ready") = "Ok"
  PROVE  seen.fresh \/ seen.last = "input_wait"
<1>. DEFINE op == "wait_for_input_wait_or_fresh_ready"
<1>1. FaultOr(ReadinessKnown(op)) = "Ok"
  BY DEF Answer, ReadinessWaits
<1>2. ReadinessKnown(op)
  BY <1>1 DEF FaultOr, Fault
<1>3. \/ inbox.last_prompt # NoPrompt
      \/ readiness_observed_after(input, sent_at)
      \/ input_wait_readiness_available(input)
  BY <1>2 DEF ReadinessKnown
<1>. QED  BY <1>3 DEF PromptInv, readiness_observed_after, input_wait_readiness_available

\* A blocking call keeps PromptInv.
LEMMA PromptCall ==
  ASSUME TypeOK, PromptInv, NEW op \in Waits, Blocks(op) \/ Ends(op)
  PROVE  PromptInv'
<1>1. ASSUME NEW value, Drained(op, value), seen'.fresh = seen.fresh, seen'.last = seen.last
      PROVE  /\ inbox'.last_prompt # NoPrompt => seen'.last = "input_wait"
             /\ input'.ready_for_input /\ input'.ready_from_input_wait =>
                  seen'.last = "input_wait"
             /\ input'.ready_observed_at # None => input'.ready_observed_at <= clock'
             /\ input'.ready_observed_at # None /\ input'.ready_observed_at > sent_at' =>
                  seen'.fresh
  BY <1>1 DEF Drained, PromptInv
<1>2. CASE Blocks(op)
  <2>1. UNCHANGED <<ret, seen>> /\ Drained(op, "Wait")
    BY <1>2 DEF Blocks
  <2>. QED  BY <1>1, <2>1 DEF PromptInv, FreshReadyAfterInterrupt
<1>3. CASE Ends(op)
  <2>1. /\ seen'.fresh = seen.fresh /\ seen'.last = seen.last
        /\ ret' = Returned(op, Answer(op)) /\ Drained(op, Answer(op))
    BY <1>3 DEF Ends, Return, TypeOK, Histories
  <2>2. FreshReadyAfterInterrupt'
    BY <2>1, PromptAnswer DEF FreshReadyAfterInterrupt, Returned
  <2>. QED  BY <1>1, <2>1, <2>2 DEF PromptInv
<1>. QED  BY <1>2, <1>3

\* An interrupt is newer than every readiness on record.
LEMMA PromptOther ==
  ASSUME TypeOK, PromptInv,
         \/ WorkerSend \/ WorkerClose \/ UNCHANGED vars
         \/ TimeOut \/ TakeProtocolError \/ TakePrompts \/ Interrupt
         \/ CompleteInterruptDelivery \/ DisableHandlers
  PROVE  PromptInv'
<1>0. /\ input \in InputStates /\ inbox \in Inboxes /\ clock \in Nat
      /\ input.ready_observed_at \in Nat \union {None} /\ seen \in Histories
  BY DEF TypeOK, InputStates, Option, Instant
<1>. USE DEF PromptInv, FreshReadyAfterInterrupt
<1>1. CASE \/ WorkerSend \/ WorkerClose \/ UNCHANGED vars
           \/ CompleteInterruptDelivery \/ DisableHandlers
  <2>1. UNCHANGED <<input, inbox, ret, clock, sent_at, seen>>
    BY <1>1 DEF WorkerSend, WorkerClose, vars, CompleteInterruptDelivery,
                DisableHandlers, connection, request
  <2>. QED  BY <2>1
<1>2. CASE TimeOut
  <2>1. /\ UNCHANGED <<input, inbox, clock, sent_at>> /\ seen' = seen
        /\ ret'.value = "Timeout"
    BY <1>2 DEF TimeOut, Return, Returned, connection
  <2>. QED  BY <2>1 DEF Returned
<1>3. CASE TakeProtocolError
  <2>1. /\ UNCHANGED <<inbox, clock, sent_at, seen>> /\ ret'.op = "take_protocol_error"
        /\ input'.ready_for_input = input.ready_for_input
        /\ input'.ready_from_input_wait = input.ready_from_input_wait
        /\ input'.ready_observed_at = input.ready_observed_at
    BY <1>0, <1>3 DEF TakeProtocolError, take_protocol_error, InputStates, Returned
  <2>. QED  BY <2>1 DEF Returned
<1>4. CASE TakePrompts
  <2>1. inbox'.last_prompt = NoPrompt /\ UNCHANGED <<input, ret, clock, sent_at, seen>>
    BY <1>0, <1>4 DEF TakePrompts, Inboxes, request
  <2>. QED  BY <2>1
<1>5. CASE Interrupt
  <2>1. /\ UNCHANGED input /\ clock' = clock + 1 /\ sent_at' = clock
        /\ ret'.op = "interrupt"
    BY <1>5 DEF Interrupt, Returned
  <2>2. inbox'.last_prompt = inbox.last_prompt
    BY <1>0, <1>5 DEF Interrupt, begin_interrupt_transaction, Inboxes
  <2>3. seen'.last = seen.last
    BY <1>0, <1>5 DEF Interrupt, Histories
  <2>. QED  BY <1>0, <2>1, <2>2, <2>3 DEF Returned, None
<1>. QED  BY <1>1, <1>2, <1>3, <1>4, <1>5

\* A new connection has no prompt.
LEMMA PromptInit == Init => PromptInv
BY DEF Init, PromptInv, FreshReadyAfterInterrupt, DefaultInputState, DefaultInbox,
       NoReturn, Returned

\* On Unix an interrupt at an idle prompt is answered by a pending input_wait
\* or by a readiness message read after it, never by a ready that was already
\* on record.
THEOREM PromptCorrect == Spec => []FreshReadyAfterInterrupt
<1>1. TypeOK /\ PromptInv /\ [Next]_vars => PromptInv'
  <2>. SUFFICES ASSUME TypeOK, PromptInv, [Next]_vars PROVE PromptInv'
    OBVIOUS
  <2>1. CASE ReaderStep
    BY <2>1, PromptReader
  <2>2. CASE (\E op \in Waits : Call(op)) \/ Wake
    BY <2>2, CallEffects, PromptCall
  <2>3. CASE Replace
    BY <2>3, ReplaceInits, PromptInit, PTL
  <2>. QED  BY <2>1, <2>2, <2>3, PromptOther DEF Next, CallerStep
<1>2. PromptInv => FreshReadyAfterInterrupt
  BY DEF PromptInv
<1>. QED  BY <1>1, <1>2, PromptInit, TypeCorrect, PTL DEF Spec

-----------------------------------------------------------------------------
(***************************************************************************)
(* Sideband: the R worker at the other end.                                *)
(***************************************************************************)
-----------------------------------------------------------------------------
(* Types of the variables that Sideband adds to ServerIpc.                 *)

ToWorkerMessages ==
  [type: {"input_batch"}, batch: Nat, lines: Nat]
    \union [type: {"interrupt", "shutdown"}]

LineRecords == [batch: Nat, number: Nat]

Places ==
  {"spawning", "seeding", "ready", "starting", "started", "awaiting",
   "resolving", "polling", "polled", "signalling", "interrupting",
   "prompting", "gone"}

MainPlaces ==
  {"setup", "read", "emit_line", "emit_wait", "wait", "eval", "exit",
   "ended", "gone"}

WorkerType ==
  /\ to_worker \in Seq(ToWorkerMessages)
  /\ ipc_thread \in {"running", "stopped"}
  /\ main \in MainPlaces
  /\ input_queue \in Seq(LineRecords)
  /\ line \in LineRecords
  /\ ran \in Seq(LineRecords)
  /\ active_input \in BOOLEAN
  /\ shutdown \in BOOLEAN
  /\ session_end_emitted \in BOOLEAN
  /\ protocol_failure \in BOOLEAN
  /\ manager \in Places
  /\ batch \in Nat
  /\ discarded \in Nat

SidebandType == TypeOK /\ WorkerType

-----------------------------------------------------------------------------
(* The inductive invariants.                                               *)

IsBatch(m) == m.type = "input_batch"

\* Lines and batches in flight keep the order in which they were written:
\* what R was given comes before the line it is about to be given, that one
\* before the queue and the queue before the batches on their way.
LineOrder ==
  /\ LinesRunInOrder
  /\ \A i, j \in DOMAIN input_queue :
       i < j => Before(input_queue[i], input_queue[j])
  /\ \A i \in DOMAIN ran, j \in DOMAIN input_queue : Before(ran[i], input_queue[j])
  /\ main = "emit_line" =>
       /\ \A i \in DOMAIN ran : Before(ran[i], line)
       /\ \A j \in DOMAIN input_queue : Before(line, input_queue[j])
  /\ \A k \in DOMAIN to_worker : IsBatch(to_worker[k]) =>
       /\ \A i \in DOMAIN ran : ran[i].batch < to_worker[k].batch
       /\ \A i \in DOMAIN input_queue : input_queue[i].batch < to_worker[k].batch
       /\ main = "emit_line" => line.batch < to_worker[k].batch
       /\ to_worker[k].batch <= batch
       /\ \A j \in DOMAIN to_worker :
            IsBatch(to_worker[j]) /\ j < k => to_worker[j].batch < to_worker[k].batch
  /\ \A i \in DOMAIN ran : ran[i].batch <= batch
  /\ \A i \in DOMAIN input_queue : input_queue[i].batch <= batch
  /\ main = "emit_line" => line.batch <= batch

\* A batch that no interrupt follows was written after the last interrupt.
DiscardInv ==
  /\ discarded <= batch
  /\ InterruptDiscards
  /\ \A k \in DOMAIN to_worker :
       /\ IsBatch(to_worker[k])
       /\ \A j \in DOMAIN to_worker : j > k => to_worker[j].type # "interrupt"
       => to_worker[k].batch > discarded
  /\ (\A i \in DOMAIN to_worker : to_worker[i].type # "interrupt") =>
       \A k \in DOMAIN input_queue : input_queue[k].batch > discarded

\* The request thread is at "starting" exactly for begin_input_when_ready.
PlaceInv ==
  /\ caller \in Waits => (manager = "starting" <=> caller = "begin_input_when_ready")
  /\ At("starting") => ret.op = "begin_input_when_ready"

-----------------------------------------------------------------------------
(* Whose turn it is.  As long as no Ctrl-C was sent, the turn to act on    *)
(* input is in one place: the readiness the server has on record, a batch  *)
(* it has admitted and not yet sent, a batch on its way, a worker that is  *)
(* not at rest, or an input_wait on its way back.                          *)

Resting ==
  /\ ~active_input
  /\ input_queue = << >>
  /\ main \in {"wait", "exit", "ended", "gone"} \/ (main = "read" /\ shutdown)

Ready == input.ready_for_input
Admitting == At("starting") /\ Got("Ok")
Sent == \E k \in DOMAIN to_worker : IsBatch(to_worker[k])
Told == \E k \in DOMAIN pipe : pipe[k].type = "input_wait"
Reported == \E k \in DOMAIN pipe : pipe[k].type = "input_line"
Turned == CompletedWith("Ok")

\* At most one batch is on its way, and nothing but the end of the session
\* follows an input_wait.
OneBatch ==
  \A i, j \in DOMAIN to_worker :
    IsBatch(to_worker[i]) /\ IsBatch(to_worker[j]) => i = j
WaitLast ==
  \A i, j \in DOMAIN pipe :
    pipe[i].type = "input_wait" /\ i < j => pipe[j].type = "session_end"

TurnInv ==
  /\ Ready \/ Admitting \/ Sent \/ Told => Resting
  /\ ~(Ready /\ Admitting) /\ ~(Ready /\ Sent) /\ ~(Ready /\ Told)
  /\ ~(Admitting /\ Sent) /\ ~(Admitting /\ Told) /\ ~(Sent /\ Told)
  /\ Admitting \/ Sent \/ Reported \/ main = "emit_line" \/ input_queue # << >> =>
       validate_active_input(input)
  /\ OneBatch
  /\ WaitLast
  /\ main = "emit_wait" => ~active_input /\ input_queue = << >>
  /\ Turned => input_queue = << >> /\ ~Sent

\* What the worker puts on the stream, in which order.
StreamInv ==
  /\ \A i \in DOMAIN pipe :
       /\ pipe[i].type \in
            {"worker_ready", "input_wait", "input_line", "output", "session_end"}
       /\ pipe[i].type = "session_end" => i = Len(pipe) /\ main \in {"ended", "gone"}
  /\ session_end_emitted => main \in {"ended", "gone"}
  /\ input.session_end_final => pipe = << >> /\ main \in {"ended", "gone"}
  /\ ~inbox.startup_message_seen =>
       IF pipe = << >> THEN main \in {"setup", "gone"}
       ELSE Head(pipe).type = "worker_ready"
  /\ input.protocol_error = None
  /\ ~protocol_failure

\* No interrupt is anywhere.
CalmInv ==
  /\ \A i \in DOMAIN to_worker : to_worker[i].type # "interrupt"
  /\ ~read_interrupted
  /\ manager \notin {"signalling", "interrupting", "prompting"}

SyncInv == clock = 0 => TurnInv /\ StreamInv /\ CalmInv

-----------------------------------------------------------------------------
(* Type correctness.                                                       *)

\* A message the worker sends is one the reader thread knows.
LEMMA SendType ==
  ASSUME TypeOK, NEW type \in {"worker_ready", "input_wait", "input_line",
                               "output", "session_end", "startup_failure"},
         R!Send(type)
  PROVE  /\ pipe' \in Seq(Messages)
         /\ \E m \in Messages : pipe' = Append(pipe, m) /\ m.type = type
<1>. DEFINE m == [type |-> type,
                  prompt |-> IF type \in {"input_wait", "input_line"} THEN Prompt
                             ELSE NoPrompt]
<1>1. pipe' = Append(pipe, m) /\ m.type = type
  BY DEF R!Send
<1>2. m \in Messages
  <2>1. type \in MessageTypes
    BY DEF MessageTypes, SessionEnds, Readiness
  <2>2. m \in Message(type)
    BY SidebandAssumption DEF Message
  <2>. QED  BY <2>1, <2>2 DEF Messages
<1>. QED  BY <1>1, <1>2 DEF TypeOK

\* The worker's own threads keep the types of the connection and leave the
\* server alone.
LEMMA WorkerSends ==
  ASSUME TypeOK, WorkerIpc \/ WorkerMain \/ WorkerCrash
  PROVE  /\ TypeOK'
         /\ UNCHANGED <<server, manage>>
<1>1. UNCHANGED <<server, manage>>
  BY DEF WorkerIpc, WorkerMain, WorkerCrash
<1>2. pipe' \in Seq(Messages)
  <2>1. pipe' = pipe \/ \E type \in {"worker_ready", "input_wait", "input_line",
                               "output", "session_end", "startup_failure"} : R!Send(type)
    <3>1. CASE R!IpcThread
      BY <3>1 DEF R!IpcThread, R!ReceiveInputBatch, R!ReceiveInterrupt, R!ReceiveShutdown,
        R!record_protocol_failure
    <3>2. CASE R!MainThread
      <4>1. CASE R!FinishSessionEnd
        BY <4>1 DEF R!FinishSessionEnd
      <4>. QED  BY <3>2, <4>1 DEF R!MainThread, R!Setup, R!ReadInterrupted, R!ReadPopLine,
        R!EmitInputLine, R!ReadShutdown, R!ReadWait, R!EmitInputWait, R!WaitEnds,
        R!Evaluate, R!Interrupted, R!Quit, R!Exit, R!Die
    <3>3. CASE R!Crash
      BY <3>3 DEF R!Crash, R!Die
    <3>. QED  BY <3>1, <3>2, <3>3 DEF WorkerIpc, WorkerMain, WorkerCrash
  <2>. QED  BY <2>1, SendType DEF TypeOK
<1>3. peer' \in {"open", "closed"}
  <2>1. CASE WorkerIpc
    BY <2>1 DEF WorkerIpc, R!IpcThread, R!ReceiveInputBatch, R!ReceiveInterrupt,
      R!ReceiveShutdown, R!Receive, TypeOK
  <2>2. CASE WorkerMain
    BY <2>2 DEF WorkerMain, R!MainThread, R!Setup, R!ReadInterrupted, R!ReadPopLine,
        R!EmitInputLine, R!ReadShutdown, R!ReadWait, R!EmitInputWait, R!WaitEnds,
        R!Evaluate, R!Interrupted, R!Quit, R!FinishSessionEnd, R!Exit, R!Die, TypeOK
  <2>3. CASE WorkerCrash
    BY <2>3 DEF WorkerCrash, R!Crash, R!Die
  <2>. QED  BY <2>1, <2>2, <2>3
<1>. QED  BY <1>1, <1>2, <1>3 DEF TypeOK, server, connection, request

\* The request thread keeps the types of the connection.
LEMMA ManagerConnectionType ==
  ASSUME TypeOK, ManagerStep
  PROVE  TypeOK'
<1>1. ASSUME NEW op \in Waits, Call(op) PROVE TypeOK'
  BY <1>1, TypeCaller DEF CallerStep
<1>2. CASE Resume
  BY <1>2, TypeCaller DEF Resume, CallerStep
<1>3. CASE SendInterrupt
  BY <1>3, TypeCaller DEF SendInterrupt, CallerStep
<1>4. ASSUME UNCHANGED <<pipe, peer, connection, ret, sent_at, delivery, clock, windows, seen>>,
             caller' \in {caller, "dropped"}
      PROVE  TypeOK'
  BY <1>4 DEF TypeOK, connection
<1>5. CASE SeedImmediate
  <2>1. inbox' \in Inboxes
    BY <1>5 DEF SeedImmediate, TypeOK, Inboxes
  <2>. QED  BY <1>5, <2>1 DEF SeedImmediate, TypeOK, request
<1>6. CASE PollFails
  <2>1. input' \in InputStates
    BY <1>6, InputOperators DEF PollFails, TypeOK
  <2>. QED  BY <1>6, <2>1 DEF PollFails, TypeOK, request
<1>7. CASE SpawnFails \/ SendBatch \/ SendSignal
  BY <1>4, <1>7 DEF SpawnFails, SendBatch, SendSignal, server, request
<1>8. CASE SeedReadiness \/ Write \/ AwaitCompletion \/ Poll \/ PollWait \/ AwaitInterrupted
  <2>1. \E op \in Waits : Call(op)
    BY <1>8 DEF SeedReadiness, Write, AwaitCompletion, Poll, PollWait, AwaitInterrupted,
      Go, Waits, ReadinessWaits
  <2>. QED  BY <1>1, <2>1
<1>9. CASE \/ Seeded \/ StartFails \/ Resolved \/ PollZero \/ Completed \/ StillPending
           \/ CompletionEnds \/ InterruptAnswered \/ WorkerLost
  <2>1. GiveUp \/ UNCHANGED <<pipe, peer, server>>
    <3>1. CASE Resolved
      BY <3>1 DEF Resolved, Advance
    <3>. QED  BY <1>9, <3>1 DEF Seeded, StartFails, PollZero, Completed, StillPending, CompletionEnds,
      InterruptAnswered, WorkerLost, Advance
  <2>. QED  BY <1>4, <2>1 DEF GiveUp, server, request
<1>10. CASE Restart
  BY <1>4, <1>10 DEF Restart
<1>. QED  BY <1>2, <1>3, <1>5, <1>6, <1>7, <1>8, <1>9, <1>10 DEF ManagerStep

\* The lines of a batch are line records.
LEMMA LinesType ==
  ASSUME NEW m \in ToWorkerMessages, IsBatch(m)
  PROVE  /\ R!Lines(m) \in Seq(LineRecords)
         /\ m.lines \in Nat /\ m.batch \in Nat
         /\ Len(R!Lines(m)) = m.lines
         /\ \A i \in 1..m.lines : R!Lines(m)[i] = [batch |-> m.batch, number |-> i]
<1>1. m.lines \in Nat /\ m.batch \in Nat
  BY DEF ToWorkerMessages, IsBatch
<1>2. \A i \in 1..m.lines : [batch |-> m.batch, number |-> i] \in LineRecords
  BY <1>1 DEF LineRecords
<1>3. R!Lines(m) = [i \in 1..m.lines |-> [batch |-> m.batch, number |-> i]]
  BY DEF R!Lines
<1>4. R!Lines(m) \in [1..m.lines -> LineRecords]
  BY <1>2, <1>3
<1>5. R!Lines(m) \in Seq(LineRecords) /\ Len(R!Lines(m)) = m.lines
  BY <1>1, <1>4
<1>. QED  BY <1>1, <1>3, <1>5

\* The queue of a worker that starts is empty.
LEMMA NoLines == << >> \in Seq(LineRecords)
OBVIOUS

\* The worker's IPC thread keeps the types.
LEMMA WorkerTypeIpc ==
  ASSUME WorkerType, WorkerIpc
  PROVE  WorkerType'
<1>. USE DEF WorkerType
<1>0. UNCHANGED manage /\ to_worker # << >> /\ to_worker' \in Seq(ToWorkerMessages)
      /\ Head(to_worker) \in ToWorkerMessages
      /\ UNCHANGED <<main, line, ran>>
  BY DEF WorkerIpc, R!IpcThread, R!ReceiveInputBatch, R!ReceiveInterrupt,
      R!ReceiveShutdown, R!Receive, R!thread
<1>. USE <1>0 DEF manage
<1>1. CASE R!ReceiveInputBatch
  <2>1. CASE R!record_protocol_failure /\ ipc_thread' = "stopped"
    BY <2>1, NoLines DEF R!record_protocol_failure, R!inner
  <2>2. CASE /\ active_input' = TRUE
             /\ input_queue' = input_queue \o R!Lines(Head(to_worker))
             /\ UNCHANGED <<pipe, ipc_thread, shutdown, waiting_for_input,
                       read_interrupted, session_end_emitted, protocol_failure>>
    <3>1. R!Lines(Head(to_worker)) \in Seq(LineRecords)
      BY <1>1, LinesType DEF R!ReceiveInputBatch, IsBatch
    <3>. QED  BY <2>2, <3>1
  <2>. QED  BY <1>1, <2>1, <2>2 DEF R!ReceiveInputBatch
<1>2. CASE R!ReceiveInterrupt
  BY <1>2 DEF R!ReceiveInterrupt
<1>3. CASE R!ReceiveShutdown
  BY <1>3 DEF R!ReceiveShutdown
<1>. QED  BY <1>1, <1>2, <1>3 DEF WorkerIpc, R!IpcThread

\* R's main thread keeps the types, and so does a crash.
LEMMA WorkerTypeMain ==
  ASSUME WorkerType, WorkerMain \/ WorkerCrash
  PROVE  WorkerType'
<1>. USE DEF WorkerType, manage, R!inner, MainPlaces
<1>0. UNCHANGED manage
  BY DEF WorkerMain, WorkerCrash
<1>. USE <1>0
<1>1. CASE R!Setup \/ R!ReadShutdown \/ R!EmitInputWait \/ R!Evaluate \/ R!Interrupted \/ R!Quit
  BY <1>1 DEF R!Setup, R!ReadShutdown, R!EmitInputWait, R!Evaluate, R!Interrupted, R!Quit
<1>2. CASE R!ReadInterrupted \/ R!WaitEnds \/ R!ReadWait
  BY <1>2 DEF R!ReadInterrupted, R!WaitEnds, R!ReadWait, R!StartWaiting
<1>3. CASE R!ReadPopLine
  BY <1>3 DEF R!ReadPopLine, R!pop_front
<1>4. CASE R!EmitInputLine
  BY <1>4 DEF R!EmitInputLine
<1>5. CASE R!FinishSessionEnd
  BY <1>5, NoLines DEF R!FinishSessionEnd
<1>6. CASE R!Exit \/ R!Crash
  BY <1>6 DEF R!Exit, R!Crash, R!Die
<1>. QED  BY <1>1, <1>2, <1>3, <1>4, <1>5, <1>6 DEF WorkerMain, WorkerCrash, R!MainThread

\* What the request thread does to the worker: it sends a message, or a
\* signal, or leaves it alone.
ToWorkerOnly ==
  UNCHANGED <<ipc_thread, main, input_queue, active_input, shutdown,
              waiting_for_input, read_interrupted, session_end_emitted,
              protocol_failure, line, ran>>

\* The manager reaches the worker through the stream only.
LEMMA ManagerLeavesWorker ==
  ASSUME ManagerStep
  PROVE  /\ ToWorkerOnly
         /\ ~SendBatch => batch' = batch
         /\ ~SendInterrupt => discarded' = discarded
         /\ ~(SendBatch \/ SendInterrupt \/ Restart) => to_worker' = to_worker
         /\ manager' \in Places \union {manager}
<1>. USE DEF ToWorkerOnly, WorkerUntouched, worker, Advance, GiveUp, Go, Places
<1>1. CASE \/ SpawnFails \/ SeedImmediate \/ SeedReadiness \/ Seeded \/ Write \/ StartFails
           \/ AwaitCompletion \/ Poll
  BY <1>1 DEF SpawnFails, SeedImmediate, SeedReadiness, Seeded, Write, StartFails,
    AwaitCompletion, Poll
<1>2. CASE Resolved
  BY <1>2 DEF Resolved
<1>3. CASE PollWait \/ PollZero \/ Completed \/ StillPending \/ CompletionEnds \/ PollFails
  BY <1>3 DEF PollWait, PollZero, Completed, StillPending, CompletionEnds, PollFails
<1>4. CASE AwaitInterrupted \/ InterruptAnswered \/ WorkerLost \/ SendSignal
  BY <1>4 DEF AwaitInterrupted, InterruptAnswered, WorkerLost, SendSignal
<1>5. CASE SendBatch \/ SendInterrupt \/ Restart
  BY <1>5 DEF SendBatch, SendInterrupt, Restart
<1>6. CASE Resume
  BY <1>6 DEF Resume, manage
<1>. QED  BY <1>1, <1>2, <1>3, <1>4, <1>5, <1>6 DEF ManagerStep

\* The manager's steps keep the types.
LEMMA WorkerTypeManager ==
  ASSUME WorkerType, ManagerStep
  PROVE  WorkerType'
<1>1. to_worker' \in Seq(ToWorkerMessages) /\ batch' \in Nat /\ discarded' \in Nat
  <2>1. CASE SendBatch
    <3>1. [type |-> "input_batch", batch |-> batch + 1, lines |-> BatchLines]
            \in ToWorkerMessages
      BY SidebandAssumption DEF ToWorkerMessages, WorkerType
    <3>. QED  BY <2>1, <3>1 DEF SendBatch, ToWorker, WorkerType
  <2>2. CASE SendInterrupt
    <3>1. [type |-> "interrupt"] \in ToWorkerMessages
      BY DEF ToWorkerMessages
    <3>. QED  BY <2>2, <3>1 DEF SendInterrupt, ToWorker, WorkerType
  <2>3. CASE Restart
    <3>1. [type |-> "shutdown"] \in ToWorkerMessages
      BY DEF ToWorkerMessages
    <3>. QED  BY <2>3, <3>1 DEF Restart, ToWorker, WorkerType
  <2>. QED  BY <2>1, <2>2, <2>3, ManagerLeavesWorker DEF WorkerType
<1>. QED  BY <1>1, ManagerLeavesWorker DEF WorkerType, ToWorkerOnly

\* Every step of the composition keeps the types.
LEMMA SidebandTypeStep ==
  ASSUME SidebandType, [SidebandNext]_sidebandVars
  PROVE  SidebandType'
<1>1. CASE ManagerStep
  BY <1>1, ManagerConnectionType, WorkerTypeManager DEF SidebandType
<1>2. CASE ServerReader
  BY <1>2, TypeReader DEF SidebandType, ServerReader, WorkerType, worker, manage
<1>3. CASE WorkerIpc \/ WorkerMain \/ WorkerCrash
  BY <1>3, WorkerSends, WorkerTypeIpc, WorkerTypeMain DEF SidebandType
<1>4. CASE UNCHANGED sidebandVars
  BY <1>4 DEF sidebandVars, SidebandType, TypeOK, WorkerType, server, worker, manage,
    connection, request
<1>. QED  BY <1>1, <1>2, <1>3, <1>4 DEF SidebandNext, Finished

\* The initial state has the types.
LEMMA SidebandTypeInit == SidebandInit => SidebandType
<1>1. SidebandInit => TypeOK
  BY TypeInit DEF SidebandInit
<1>2. SidebandInit => WorkerType
  <2>1. << >> \in Seq(ToWorkerMessages) /\ R!NoLine \in LineRecords
    BY DEF R!NoLine, LineRecords
  <2>. SUFFICES ASSUME SidebandInit PROVE WorkerType
    OBVIOUS
  <2>2. /\ to_worker \in Seq(ToWorkerMessages) /\ line \in LineRecords
        /\ input_queue \in Seq(LineRecords) /\ ran \in Seq(LineRecords)
    BY <2>1, NoLines DEF SidebandInit, R!Init
  <2>. QED  BY <2>2 DEF SidebandInit, R!Init, WorkerType, MainPlaces, Places
<1>. QED  BY <1>1, <1>2 DEF SidebandType

-----------------------------------------------------------------------------
(* The order of the lines.                                                 *)

\* Receiving the first message keeps the order of the rest, and so does
\* sending one that is no batch.
LEMMA QueueMoves ==
  ASSUME NEW t \in Seq(ToWorkerMessages), NEW u \in Seq(ToWorkerMessages),
         \/ u = t
         \/ t # << >> /\ u = Tail(t)
         \/ \E m \in ToWorkerMessages : ~IsBatch(m) /\ u = Append(t, m)
  PROVE  \E d \in {0, 1} :
           \A k \in DOMAIN u : IsBatch(u[k]) => k + d \in DOMAIN t /\ u[k] = t[k + d]
<1>1. CASE u = t
  BY <1>1
<1>2. CASE t # << >> /\ u = Tail(t)
  <2>1. \A k \in DOMAIN u : k + 1 \in DOMAIN t /\ u[k] = t[k + 1]
    BY <1>2
  <2>. QED  BY <2>1
<1>3. ASSUME NEW m \in ToWorkerMessages, ~IsBatch(m), u = Append(t, m)
      PROVE  \A k \in DOMAIN u : IsBatch(u[k]) => k + 0 \in DOMAIN t /\ u[k] = t[k + 0]
  BY <1>3
<1>. QED  BY <1>1, <1>2, <1>3

\* A step that only takes lines and batches away keeps the order.
LEMMA OrderShrinks ==
  ASSUME WorkerType, WorkerType', LineOrder,
         ran' = ran, batch' = batch, input_queue' \in {input_queue, << >>},
         main' = "emit_line" => main = "emit_line" /\ line' = line,
         \/ to_worker' = to_worker
         \/ to_worker # << >> /\ to_worker' = Tail(to_worker)
         \/ \E m \in ToWorkerMessages : ~IsBatch(m) /\ to_worker' = Append(to_worker, m)
  PROVE  LineOrder'
<1>1. PICK d \in {0, 1} :
        \A k \in DOMAIN to_worker' : IsBatch(to_worker'[k]) =>
          k + d \in DOMAIN to_worker /\ to_worker'[k] = to_worker[k + d]
  BY QueueMoves DEF WorkerType
<1>2. DOMAIN input_queue' \subseteq DOMAIN input_queue
      /\ \A i \in DOMAIN input_queue' : input_queue'[i] = input_queue[i]
  BY DEF WorkerType
<1>3. \A j, k \in DOMAIN to_worker' : j < k => j + d < k + d
  BY <1>1 DEF WorkerType
<1>4. \A k \in DOMAIN to_worker' : IsBatch(to_worker'[k]) =>
       /\ \A i \in DOMAIN ran : ran[i].batch < to_worker'[k].batch
       /\ \A i \in DOMAIN input_queue' : input_queue'[i].batch < to_worker'[k].batch
       /\ main' = "emit_line" => line'.batch < to_worker'[k].batch
       /\ to_worker'[k].batch <= batch
       /\ \A j \in DOMAIN to_worker' :
            IsBatch(to_worker'[j]) /\ j < k => to_worker'[j].batch < to_worker'[k].batch
  BY <1>1, <1>2, <1>3 DEF LineOrder
<1>. QED  BY <1>2, <1>4 DEF LineOrder, LinesRunInOrder

\* A batch is written behind every line written before it.
LEMMA OrderManager ==
  ASSUME WorkerType, LineOrder, ManagerStep
  PROVE  LineOrder'
<1>0. WorkerType' /\ ToWorkerOnly
  BY WorkerTypeManager, ManagerLeavesWorker
<1>1. CASE SendBatch
  <2>. DEFINE m == [type |-> "input_batch", batch |-> batch + 1, lines |-> BatchLines]
  <2>1. /\ to_worker' = Append(to_worker, m)
        /\ batch' = batch + 1
        /\ m.batch = batch + 1
    BY <1>1 DEF SendBatch, ToWorker
  <2>. HIDE DEF m
  <2>2. \A k \in DOMAIN to_worker' :
          \/ k \in DOMAIN to_worker /\ to_worker'[k] = to_worker[k]
          \/ k = Len(to_worker) + 1 /\ to_worker'[k] = m
    BY <2>1 DEF WorkerType
  <2>3. /\ \A i \in DOMAIN ran : ran[i] \in LineRecords
        /\ \A i \in DOMAIN input_queue : input_queue[i] \in LineRecords
        /\ line \in LineRecords
        /\ DOMAIN to_worker = 1..Len(to_worker) /\ Len(to_worker) \in Nat
    BY DEF WorkerType
  <2>. USE DEF LineRecords
  <2>4. \A k \in DOMAIN to_worker' : IsBatch(to_worker'[k]) =>
       /\ \A i \in DOMAIN ran : ran[i].batch < to_worker'[k].batch
       /\ \A i \in DOMAIN input_queue : input_queue[i].batch < to_worker'[k].batch
       /\ main = "emit_line" => line.batch < to_worker'[k].batch
       /\ to_worker'[k].batch <= batch'
       /\ \A j \in DOMAIN to_worker' :
            IsBatch(to_worker'[j]) /\ j < k => to_worker'[j].batch < to_worker'[k].batch
    <3>1. SUFFICES ASSUME NEW k \in DOMAIN to_worker', IsBatch(to_worker'[k])
          PROVE /\ \A i \in DOMAIN ran : ran[i].batch < to_worker'[k].batch
                /\ \A i \in DOMAIN input_queue : input_queue[i].batch < to_worker'[k].batch
                /\ main = "emit_line" => line.batch < to_worker'[k].batch
                /\ to_worker'[k].batch <= batch'
                /\ \A j \in DOMAIN to_worker' :
                     IsBatch(to_worker'[j]) /\ j < k => to_worker'[j].batch < to_worker'[k].batch
      OBVIOUS
    <3>2. \A j \in DOMAIN to_worker : IsBatch(to_worker[j]) =>
            to_worker[j].batch \in Nat /\ to_worker[j].batch <= batch
      <4>1. \A j \in DOMAIN to_worker : to_worker[j] \in ToWorkerMessages
        BY DEF WorkerType
      <4>2. \A x \in ToWorkerMessages : IsBatch(x) => x.batch \in Nat
        BY DEF ToWorkerMessages, IsBatch
      <4>. QED  BY <4>1, <4>2 DEF LineOrder
    <3>3. CASE k \in DOMAIN to_worker /\ to_worker'[k] = to_worker[k]
      <4>1. \A j \in DOMAIN to_worker' : j < k => j \in DOMAIN to_worker /\ to_worker'[j] = to_worker[j]
        BY <2>2, <2>3, <3>3
      <4>2. to_worker'[k].batch <= batch'
        BY <2>1, <3>1, <3>2, <3>3 DEF WorkerType
      <4>. QED  BY <3>1, <3>3, <4>1, <4>2 DEF LineOrder
    <3>4. CASE k = Len(to_worker) + 1 /\ to_worker'[k] = m
      <4>1. \A j \in DOMAIN to_worker' : j < k => j \in DOMAIN to_worker /\ to_worker'[j] = to_worker[j]
        BY <2>2, <2>3, <3>4
      <4>2. /\ \A i \in DOMAIN ran : ran[i].batch < batch + 1
            /\ \A i \in DOMAIN input_queue : input_queue[i].batch < batch + 1
            /\ main = "emit_line" => line.batch < batch + 1
        BY <2>3 DEF LineOrder, WorkerType
      <4>3. \A j \in DOMAIN to_worker : IsBatch(to_worker[j]) => to_worker[j].batch < batch + 1
        BY <3>2 DEF WorkerType
      <4>4. batch + 1 <= batch'
        BY <2>1 DEF WorkerType
      <4>. QED  BY <2>1, <3>4, <4>1, <4>2, <4>3, <4>4
    <3>. QED  BY <2>2, <3>3, <3>4
  <2>5. /\ \A i \in DOMAIN ran : ran[i].batch <= batch'
        /\ \A i \in DOMAIN input_queue : input_queue[i].batch <= batch'
        /\ main = "emit_line" => line.batch <= batch'
    BY <2>1, <2>3 DEF LineOrder, WorkerType
  <2>. QED  BY <1>0, <2>4, <2>5 DEF LineOrder, LinesRunInOrder, ToWorkerOnly
<1>2. CASE SendInterrupt
  <2>1. [type |-> "interrupt"] \in ToWorkerMessages /\ ~IsBatch([type |-> "interrupt"])
    BY DEF ToWorkerMessages, IsBatch
  <2>2. to_worker' = Append(to_worker, [type |-> "interrupt"]) /\ batch' = batch
    BY <1>2 DEF SendInterrupt, ToWorker
  <2>. QED  BY <1>0, <2>1, <2>2, OrderShrinks DEF ToWorkerOnly
<1>3. CASE Restart
  <2>1. [type |-> "shutdown"] \in ToWorkerMessages /\ ~IsBatch([type |-> "shutdown"])
    BY DEF ToWorkerMessages, IsBatch
  <2>2. to_worker' = Append(to_worker, [type |-> "shutdown"]) /\ batch' = batch
    BY <1>3 DEF Restart, ToWorker
  <2>. QED  BY <1>0, <2>1, <2>2, OrderShrinks DEF ToWorkerOnly
<1>4. CASE ~(SendBatch \/ SendInterrupt \/ Restart)
  BY <1>0, <1>4, ManagerLeavesWorker, OrderShrinks DEF ToWorkerOnly
<1>. QED  BY <1>1, <1>2, <1>3, <1>4

\* The IPC thread moves a batch from the stream to the queue, or clears the
\* queue.
LEMMA OrderIpc ==
  ASSUME WorkerType, LineOrder, WorkerIpc
  PROVE  LineOrder'
<1>0. /\ WorkerType' /\ UNCHANGED <<main, line, ran, batch>>
      /\ to_worker # << >> /\ to_worker' = Tail(to_worker)
  BY WorkerTypeIpc DEF WorkerIpc, R!IpcThread, R!ReceiveInputBatch, R!ReceiveInterrupt,
      R!ReceiveShutdown, R!Receive, R!thread, manage
<1>1. CASE input_queue' \in {input_queue, << >>}
  BY <1>0, <1>1, OrderShrinks
<1>2. CASE /\ IsBatch(Head(to_worker))
           /\ input_queue' = input_queue \o R!Lines(Head(to_worker))
  <2>. DEFINE m == Head(to_worker)
              n == Len(input_queue)
  <2>1. /\ m = to_worker[1] /\ 1 \in DOMAIN to_worker
        /\ m \in ToWorkerMessages
        /\ \A k \in DOMAIN to_worker' : k + 1 \in DOMAIN to_worker
              /\ to_worker'[k] = to_worker[k + 1] /\ 1 < k + 1
        /\ n \in Nat /\ DOMAIN input_queue = 1..n
    BY <1>0 DEF WorkerType
  <2>2. /\ R!Lines(m) \in Seq(LineRecords)
        /\ m.lines \in Nat /\ m.batch \in Nat
        /\ Len(R!Lines(m)) = m.lines
        /\ \A i \in 1..m.lines : R!Lines(m)[i] = [batch |-> m.batch, number |-> i]
    BY <1>2, <2>1, LinesType
  <2>3. \A i \in DOMAIN input_queue' :
          \/ i \in DOMAIN input_queue /\ input_queue'[i] = input_queue[i]
          \/ i > n /\ input_queue'[i] = [batch |-> m.batch, number |-> i - n]
    <3>1. SUFFICES ASSUME NEW i \in DOMAIN input_queue', i \notin DOMAIN input_queue
          PROVE i > n /\ input_queue'[i] = [batch |-> m.batch, number |-> i - n]
      BY <1>2, <2>2 DEF WorkerType
    <3>2. i > n /\ i - n \in 1..m.lines /\ input_queue'[i] = R!Lines(m)[i - n]
      BY <1>2, <2>1, <2>2, <3>1 DEF WorkerType
    <3>. QED  BY <2>2, <3>2
  <2>4. /\ \A i \in DOMAIN ran : ran[i].batch < m.batch
        /\ \A i \in DOMAIN input_queue : input_queue[i].batch < m.batch
        /\ main = "emit_line" => line.batch < m.batch
        /\ m.batch <= batch
    BY <1>2, <2>1 DEF LineOrder
  <2>. HIDE DEF m, n
  <2>5. \A i, j \in DOMAIN input_queue' : i < j => Before(input_queue'[i], input_queue'[j])
    <3>1. SUFFICES ASSUME NEW i \in DOMAIN input_queue', NEW j \in DOMAIN input_queue', i < j
                   PROVE  Before(input_queue'[i], input_queue'[j])
      OBVIOUS
    <3>2. i \in Nat /\ j \in Nat
      BY <1>0 DEF WorkerType
    <3>3. CASE j \in DOMAIN input_queue /\ input_queue'[j] = input_queue[j]
      <4>1. i \in DOMAIN input_queue /\ input_queue'[i] = input_queue[i]
        BY <2>1, <2>3, <3>1, <3>2, <3>3 DEF n
      <4>. QED  BY <3>1, <3>3, <4>1 DEF LineOrder
    <3>4. CASE j > n /\ input_queue'[j] = [batch |-> m.batch, number |-> j - n]
      <4>1. CASE i \in DOMAIN input_queue /\ input_queue'[i] = input_queue[i]
        BY <2>4, <3>4, <4>1 DEF Before
      <4>2. CASE i > n /\ input_queue'[i] = [batch |-> m.batch, number |-> i - n]
        <5>1. i - n < j - n
          BY <2>1, <3>1, <3>2 DEF n
        <5>. QED  BY <3>4, <4>2, <5>1 DEF Before
      <4>. QED  BY <2>3, <4>1, <4>2
    <3>. QED  BY <2>3, <3>3, <3>4
  <2>6. \A i \in DOMAIN ran, j \in DOMAIN input_queue' : Before(ran[i], input_queue'[j])
    BY <2>3, <2>4 DEF LineOrder, Before
  <2>7. main = "emit_line" =>
          /\ \A i \in DOMAIN ran : Before(ran[i], line)
          /\ \A j \in DOMAIN input_queue' : Before(line, input_queue'[j])
    BY <2>3, <2>4 DEF LineOrder, Before
  <2>8. \A k \in DOMAIN to_worker' : IsBatch(to_worker'[k]) =>
       /\ \A i \in DOMAIN ran : ran[i].batch < to_worker'[k].batch
       /\ \A i \in DOMAIN input_queue' : input_queue'[i].batch < to_worker'[k].batch
       /\ main = "emit_line" => line.batch < to_worker'[k].batch
       /\ to_worker'[k].batch <= batch
       /\ \A j \in DOMAIN to_worker' :
            IsBatch(to_worker'[j]) /\ j < k => to_worker'[j].batch < to_worker'[k].batch
    <3>1. SUFFICES ASSUME NEW k \in DOMAIN to_worker', IsBatch(to_worker'[k])
          PROVE /\ \A i \in DOMAIN ran : ran[i].batch < to_worker'[k].batch
                /\ \A i \in DOMAIN input_queue' : input_queue'[i].batch < to_worker'[k].batch
                /\ main = "emit_line" => line.batch < to_worker'[k].batch
                /\ to_worker'[k].batch <= batch
                /\ \A j \in DOMAIN to_worker' :
                     IsBatch(to_worker'[j]) /\ j < k => to_worker'[j].batch < to_worker'[k].batch
      OBVIOUS
    <3>2. /\ \A i \in DOMAIN ran : ran[i].batch < to_worker'[k].batch
          /\ \A i \in DOMAIN input_queue : input_queue[i].batch < to_worker'[k].batch
          /\ main = "emit_line" => line.batch < to_worker'[k].batch
          /\ to_worker'[k].batch <= batch
          /\ m.batch < to_worker'[k].batch
      BY <1>2, <2>1, <3>1 DEF LineOrder, m
    <3>3. \A i \in DOMAIN input_queue' : input_queue'[i].batch < to_worker'[k].batch
      BY <2>3, <3>2
    <3>4. \A j \in DOMAIN to_worker' : j < k => j + 1 < k + 1
      BY <1>0, <3>1 DEF WorkerType
    <3>5. \A j \in DOMAIN to_worker' :
            IsBatch(to_worker'[j]) /\ j < k => to_worker'[j].batch < to_worker'[k].batch
      BY <2>1, <3>1, <3>4 DEF LineOrder
    <3>. QED  BY <3>2, <3>3, <3>5
  <2>9. \A i \in DOMAIN input_queue' : input_queue'[i].batch <= batch
    BY <2>3, <2>4 DEF LineOrder
  <2>. QED  BY <1>0, <2>5, <2>6, <2>7, <2>8, <2>9 DEF LineOrder, LinesRunInOrder
<1>. QED  BY <1>1, <1>2 DEF WorkerIpc, R!IpcThread, R!ReceiveInputBatch, R!ReceiveInterrupt,
       R!ReceiveShutdown, R!record_protocol_failure, R!inner, IsBatch

\* R's thread takes the first line of the queue.
LEMMA OrderMain ==
  ASSUME WorkerType, LineOrder, WorkerMain \/ WorkerCrash
  PROVE  LineOrder'
<1>0. WorkerType' /\ UNCHANGED <<to_worker, batch>>
  BY WorkerTypeMain DEF WorkerMain, WorkerCrash, manage, R!MainThread, R!Setup, R!ReadInterrupted,
    R!ReadPopLine, R!EmitInputLine, R!ReadShutdown, R!ReadWait, R!EmitInputWait, R!WaitEnds,
    R!Evaluate, R!Interrupted, R!Quit, R!FinishSessionEnd, R!Exit, R!Crash, R!Die
<1>1. CASE R!ReadPopLine
  <2>1. /\ main' = "emit_line" /\ ran' = ran
        /\ line' = input_queue[1] /\ 1 \in DOMAIN input_queue
        /\ \A i \in DOMAIN input_queue' : i + 1 \in DOMAIN input_queue
              /\ input_queue'[i] = input_queue[i + 1] /\ 1 < i + 1
        /\ \A i, j \in DOMAIN input_queue' : i < j => i + 1 < j + 1
    BY <1>1 DEF R!ReadPopLine, R!pop_front, WorkerType
  <2>. QED  BY <1>0, <2>1 DEF LineOrder, LinesRunInOrder
<1>2. CASE R!EmitInputLine
  <2>1. /\ main = "emit_line" /\ main' = "eval" /\ UNCHANGED input_queue
        /\ \A i \in DOMAIN ran' :
             \/ i \in DOMAIN ran /\ ran'[i] = ran[i]
             \/ i = Len(ran) + 1 /\ ran'[i] = line
        /\ \A i, j \in DOMAIN ran' : i < j => i \in DOMAIN ran /\ ran'[i] = ran[i]
    BY <1>2 DEF R!EmitInputLine, WorkerType, R!inner
  <2>2. \A i, j \in DOMAIN ran' : i < j => Before(ran'[i], ran'[j])
    BY <2>1 DEF LineOrder, LinesRunInOrder
  <2>. QED  BY <1>0, <2>1, <2>2 DEF LineOrder, LinesRunInOrder
<1>3. CASE R!FinishSessionEnd
  BY <1>0, <1>3, OrderShrinks DEF R!FinishSessionEnd
<1>4. CASE ~(R!ReadPopLine \/ R!EmitInputLine \/ R!FinishSessionEnd)
  <2>1. UNCHANGED <<ran, input_queue, line>> /\ (main' = "emit_line" => main = "emit_line")
    BY <1>4 DEF WorkerMain, WorkerCrash, R!MainThread, R!Setup, R!ReadInterrupted,
      R!ReadShutdown, R!ReadWait, R!EmitInputWait, R!WaitEnds, R!inner, R!StartWaiting,
      R!Evaluate, R!Interrupted, R!Quit, R!Exit, R!Crash, R!Die
  <2>. QED  BY <1>0, <2>1, OrderShrinks
<1>. QED  BY <1>1, <1>2, <1>3, <1>4

\* Every step keeps the order of the lines.
LEMMA OrderStep ==
  ASSUME SidebandType, LineOrder, [SidebandNext]_sidebandVars
  PROVE  LineOrder'
<1>1. WorkerType /\ WorkerType'
  BY SidebandTypeStep DEF SidebandType
<1>2. CASE ManagerStep
  BY <1>1, <1>2, OrderManager
<1>3. CASE WorkerIpc \/ WorkerMain \/ WorkerCrash
  BY <1>1, <1>3, OrderIpc, OrderMain
<1>4. CASE ServerReader \/ UNCHANGED sidebandVars
  BY <1>1, <1>4, OrderShrinks DEF ServerReader, sidebandVars, worker, manage
<1>. QED  BY <1>2, <1>3, <1>4 DEF SidebandNext, Finished

\* R runs the lines the client wrote in the order it wrote them, each at most
\* once, whatever is interrupted, discarded or lost meanwhile.
THEOREM LinesCorrect == SidebandSpec => []LinesRunInOrder
<1>1. SidebandInit => LineOrder
  BY DEF SidebandInit, R!Init, LineOrder, LinesRunInOrder
<1>2. SidebandType /\ LineOrder /\ [SidebandNext]_sidebandVars => SidebandType' /\ LineOrder'
  BY SidebandTypeStep, OrderStep
<1>3. LineOrder => LinesRunInOrder
  BY DEF LineOrder
<1>. QED  BY <1>1, <1>2, <1>3, SidebandTypeInit, PTL DEF SidebandSpec

-----------------------------------------------------------------------------
(* What an interrupt discards.                                             *)

IsInterrupt(m) == m.type = "interrupt"

\* Once the first message is received, the others are as before.
LEMMA BatchesLeft ==
  ASSUME WorkerType, DiscardInv, to_worker # << >>, to_worker' = Tail(to_worker),
         NEW k \in DOMAIN to_worker', IsBatch(to_worker'[k]),
         \A j \in DOMAIN to_worker' : j > k => to_worker'[j].type # "interrupt"
  PROVE  to_worker'[k].batch > discarded
<1>1. k + 1 \in DOMAIN to_worker /\ to_worker'[k] = to_worker[k + 1]
  BY DEF WorkerType
<1>2. \A j \in DOMAIN to_worker : j > k + 1 =>
        j - 1 \in DOMAIN to_worker' /\ j - 1 > k /\ to_worker'[j - 1] = to_worker[j]
  BY DEF WorkerType
<1>3. \A j \in DOMAIN to_worker : j > k + 1 => to_worker[j].type # "interrupt"
  BY <1>2
<1>. QED  BY <1>1, <1>3 DEF DiscardInv

\* A step that sends nothing and queues nothing keeps DiscardInv.
LEMMA DiscardShrinks ==
  ASSUME WorkerType, WorkerType', DiscardInv,
         UNCHANGED <<batch, discarded>>,
         \/ UNCHANGED to_worker
         \/ to_worker # << >> /\ to_worker' = Tail(to_worker) /\ ~IsInterrupt(Head(to_worker))
         \/ \E m \in ToWorkerMessages :
              ~IsBatch(m) /\ ~IsInterrupt(m) /\ to_worker' = Append(to_worker, m),
         \A k \in DOMAIN input_queue' : \E j \in DOMAIN input_queue : input_queue'[k] = input_queue[j]
  PROVE  DiscardInv'
<1>. USE DEF IsInterrupt
<1>1. (\A i \in DOMAIN to_worker' : to_worker'[i].type # "interrupt") =>
        (\A i \in DOMAIN to_worker : to_worker[i].type # "interrupt")
  <2>1. CASE UNCHANGED to_worker
    BY <2>1
  <2>2. CASE to_worker # << >> /\ to_worker' = Tail(to_worker) /\ ~IsInterrupt(Head(to_worker))
    <3>1. SUFFICES ASSUME \A i \in DOMAIN to_worker' : to_worker'[i].type # "interrupt",
                          NEW i \in DOMAIN to_worker
                   PROVE  to_worker[i].type # "interrupt"
      OBVIOUS
    <3>2. i = 1 \/ (i - 1 \in DOMAIN to_worker' /\ to_worker'[i - 1] = to_worker[i])
      BY <2>2 DEF WorkerType
    <3>. QED  BY <2>2, <3>1, <3>2 DEF WorkerType
  <2>3. ASSUME NEW m \in ToWorkerMessages,
               ~IsBatch(m) /\ ~IsInterrupt(m) /\ to_worker' = Append(to_worker, m)
        PROVE  \A i \in DOMAIN to_worker : i \in DOMAIN to_worker' /\ to_worker'[i] = to_worker[i]
    BY <2>3 DEF WorkerType
  <2>. QED  BY <2>1, <2>2, <2>3
<1>2. ASSUME NEW k \in DOMAIN to_worker', IsBatch(to_worker'[k]),
             \A j \in DOMAIN to_worker' : j > k => to_worker'[j].type # "interrupt"
      PROVE  to_worker'[k].batch > discarded
  <2>1. CASE UNCHANGED to_worker
    BY <1>2, <2>1 DEF DiscardInv
  <2>2. CASE to_worker # << >> /\ to_worker' = Tail(to_worker)
    BY <1>2, <2>2, BatchesLeft
  <2>3. ASSUME NEW m \in ToWorkerMessages,
               ~IsBatch(m) /\ to_worker' = Append(to_worker, m)
        PROVE  to_worker'[k].batch > discarded
    <3>1. k \in DOMAIN to_worker /\ to_worker'[k] = to_worker[k]
      BY <1>2, <2>3 DEF WorkerType
    <3>2. \A j \in DOMAIN to_worker : j \in DOMAIN to_worker' /\ to_worker'[j] = to_worker[j]
      BY <2>3 DEF WorkerType
    <3>. QED  BY <1>2, <3>1, <3>2 DEF DiscardInv
  <2>. QED  BY <2>1, <2>2, <2>3
<1>3. (\A i \in DOMAIN to_worker' : to_worker'[i].type # "interrupt") =>
        \A k \in DOMAIN input_queue' : input_queue'[k].batch > discarded
  BY <1>1 DEF DiscardInv
<1>4. InterruptDiscards'
  <2>1. \A k \in DOMAIN input_queue' : input_queue'[k] \in LineRecords
    BY DEF WorkerType
  <2>2. \A k \in DOMAIN input_queue' : input_queue'[k].batch \in Nat
    BY <2>1 DEF LineRecords
  <2>. QED  BY <1>3, <2>2 DEF InterruptDiscards, Unread, WorkerType
<1>. QED  BY <1>2, <1>3, <1>4 DEF DiscardInv

\* Ctrl-C puts the interrupt behind every line written before it.
LEMMA DiscardManager ==
  ASSUME WorkerType, DiscardInv, ManagerStep
  PROVE  DiscardInv'
<1>0. WorkerType' /\ ToWorkerOnly
  BY WorkerTypeManager, ManagerLeavesWorker
<1>1. CASE SendBatch
  <2>. DEFINE m == [type |-> "input_batch", batch |-> batch + 1, lines |-> BatchLines]
  <2>1. /\ to_worker' = Append(to_worker, m) /\ UNCHANGED discarded
        /\ batch' = batch + 1 /\ m.batch = batch + 1 /\ m.type = "input_batch"
    BY <1>1 DEF SendBatch, ToWorker
  <2>. HIDE DEF m
  <2>2. \A j \in DOMAIN to_worker : j \in DOMAIN to_worker' /\ to_worker'[j] = to_worker[j]
    BY <2>1 DEF WorkerType
  <2>3. \A k \in DOMAIN to_worker' : k \in DOMAIN to_worker \/ to_worker'[k] = m
    BY <2>1 DEF WorkerType
  <2>4. m.batch > discarded /\ discarded <= batch'
    BY <2>1 DEF DiscardInv, WorkerType
  <2>5. UNCHANGED input_queue
    BY <1>0 DEF ToWorkerOnly
  <2>6. InterruptDiscards'
    BY <2>1, <2>2, <2>5 DEF DiscardInv, InterruptDiscards, Unread
  <2>. QED  BY <2>1, <2>2, <2>3, <2>4, <2>5, <2>6 DEF DiscardInv
<1>2. CASE SendInterrupt
  <2>. DEFINE m == [type |-> "interrupt"]
  <2>1. /\ to_worker' = Append(to_worker, m) /\ m.type = "interrupt"
        /\ batch' = batch /\ discarded' = batch
    BY <1>2 DEF SendInterrupt, ToWorker
  <2>. HIDE DEF m
  <2>2. /\ Len(to_worker) + 1 \in DOMAIN to_worker' /\ to_worker'[Len(to_worker) + 1] = m
        /\ \A k \in DOMAIN to_worker' : k < Len(to_worker) + 1 \/ to_worker'[k] = m
    BY <2>1 DEF WorkerType
  <2>3. ~(\A i \in DOMAIN to_worker' : to_worker'[i].type # "interrupt")
    BY <2>1, <2>2
  <2>4. \A k \in DOMAIN to_worker' : IsBatch(to_worker'[k]) =>
          Len(to_worker) + 1 > k
    BY <1>0, <2>1, <2>2 DEF IsBatch, WorkerType
  <2>5. UNCHANGED input_queue /\ discarded' <= batch'
    BY <1>0, <2>1 DEF ToWorkerOnly, WorkerType
  <2>6. InterruptDiscards'
    BY <2>3 DEF InterruptDiscards
  <2>. QED  BY <2>1, <2>2, <2>3, <2>4, <2>5, <2>6 DEF DiscardInv
<1>3. CASE Restart
  <2>1. /\ [type |-> "shutdown"] \in ToWorkerMessages
        /\ ~IsBatch([type |-> "shutdown"]) /\ ~IsInterrupt([type |-> "shutdown"])
    BY DEF ToWorkerMessages, IsBatch, IsInterrupt
  <2>2. to_worker' = Append(to_worker, [type |-> "shutdown"]) /\ UNCHANGED <<batch, discarded>>
    BY <1>3 DEF Restart, ToWorker
  <2>. QED  BY <1>0, <2>1, <2>2, DiscardShrinks DEF ToWorkerOnly
<1>4. CASE ~(SendBatch \/ SendInterrupt \/ Restart)
  BY <1>0, <1>4, ManagerLeavesWorker, DiscardShrinks DEF ToWorkerOnly
<1>. QED  BY <1>1, <1>2, <1>3, <1>4

\* The interrupt, once received, clears the queue.
LEMMA DiscardIpc ==
  ASSUME WorkerType, DiscardInv, WorkerIpc
  PROVE  DiscardInv'
<1>0. /\ WorkerType' /\ UNCHANGED <<batch, discarded>>
      /\ to_worker # << >> /\ to_worker' = Tail(to_worker)
  BY WorkerTypeIpc DEF WorkerIpc, R!IpcThread, R!ReceiveInputBatch, R!ReceiveInterrupt,
      R!ReceiveShutdown, R!Receive, R!thread, manage
<1>1. CASE input_queue' = << >>
  <2>1. \A k \in DOMAIN input_queue' : FALSE
    BY <1>1
  <2>2. InterruptDiscards'
    BY <2>1 DEF InterruptDiscards, Unread
  <2>3. ASSUME NEW k \in DOMAIN to_worker', IsBatch(to_worker'[k]),
               \A j \in DOMAIN to_worker' : j > k => to_worker'[j].type # "interrupt"
        PROVE  to_worker'[k].batch > discarded
    BY <1>0, <2>3, BatchesLeft
  <2>. QED  BY <1>0, <2>1, <2>2, <2>3 DEF DiscardInv
<1>2. CASE ~IsInterrupt(Head(to_worker)) /\ input_queue' = input_queue
  BY <1>0, <1>2, DiscardShrinks
<1>3. CASE /\ IsBatch(Head(to_worker))
           /\ input_queue' = input_queue \o R!Lines(Head(to_worker))
  <2>. DEFINE m == Head(to_worker)
  <2>1. /\ m = to_worker[1] /\ 1 \in DOMAIN to_worker /\ m \in ToWorkerMessages
        /\ \A k \in DOMAIN to_worker : k > 1 =>
             k - 1 \in DOMAIN to_worker' /\ to_worker'[k - 1] = to_worker[k]
        /\ \A k \in DOMAIN to_worker : k = 1 \/ k > 1
    BY <1>0 DEF WorkerType
  <2>2. /\ R!Lines(m) \in Seq(LineRecords)
        /\ m.lines \in Nat /\ m.batch \in Nat
        /\ Len(R!Lines(m)) = m.lines
        /\ \A i \in 1..m.lines : R!Lines(m)[i] = [batch |-> m.batch, number |-> i]
    BY <1>3, <2>1, LinesType
  <2>3. \A i \in DOMAIN input_queue' :
          (\E j \in DOMAIN input_queue : input_queue'[i] = input_queue[j])
          \/ input_queue'[i].batch = m.batch
    <3>1. SUFFICES ASSUME NEW i \in DOMAIN input_queue', i \notin DOMAIN input_queue
          PROVE input_queue'[i].batch = m.batch
      BY <1>3, <2>2 DEF WorkerType
    <3>2. i - Len(input_queue) \in 1..m.lines
          /\ input_queue'[i] = R!Lines(m)[i - Len(input_queue)]
      BY <1>3, <2>1, <2>2, <3>1 DEF WorkerType
    <3>. HIDE DEF m
    <3>3. input_queue'[i] = [batch |-> m.batch, number |-> i - Len(input_queue)]
      BY <2>2, <3>2
    <3>. QED  BY <3>3
  <2>. HIDE DEF m
  <2>4. ASSUME \A i \in DOMAIN to_worker' : to_worker'[i].type # "interrupt"
        PROVE  /\ m.batch > discarded
               /\ \A k \in DOMAIN input_queue : input_queue[k].batch > discarded
    <3>1. \A k \in DOMAIN to_worker : to_worker[k].type # "interrupt"
      BY <1>3, <2>1, <2>4 DEF IsBatch, m
    <3>. QED  BY <1>3, <2>1, <3>1 DEF DiscardInv, m
  <2>5. (\A i \in DOMAIN to_worker' : to_worker'[i].type # "interrupt") =>
          \A k \in DOMAIN input_queue' : input_queue'[k].batch > discarded
    BY <2>3, <2>4
  <2>6. InterruptDiscards'
    <3>1. \A k \in DOMAIN input_queue' : input_queue'[k] \in LineRecords
      BY <1>0 DEF WorkerType
    <3>2. \A k \in DOMAIN input_queue' : input_queue'[k].batch \in Nat
      BY <3>1 DEF LineRecords
    <3>. QED  BY <1>0, <2>5, <3>2 DEF InterruptDiscards, Unread, WorkerType
  <2>7. ASSUME NEW k \in DOMAIN to_worker', IsBatch(to_worker'[k]),
               \A j \in DOMAIN to_worker' : j > k => to_worker'[j].type # "interrupt"
        PROVE  to_worker'[k].batch > discarded
    BY <1>0, <2>7, BatchesLeft
  <2>. QED  BY <1>0, <2>5, <2>6, <2>7 DEF DiscardInv
<1>. QED  BY <1>1, <1>2, <1>3 DEF WorkerIpc, R!IpcThread, R!ReceiveInputBatch, R!ReceiveInterrupt,
       R!ReceiveShutdown, R!record_protocol_failure, R!inner, IsBatch, IsInterrupt

\* R's thread adds no line to the queue.
LEMMA DiscardMain ==
  ASSUME WorkerType, DiscardInv, WorkerMain \/ WorkerCrash
  PROVE  DiscardInv'
<1>0. WorkerType' /\ UNCHANGED <<to_worker, batch, discarded>>
  BY WorkerTypeMain DEF WorkerMain, WorkerCrash, manage, R!MainThread, R!Setup, R!ReadInterrupted,
    R!ReadPopLine, R!EmitInputLine, R!ReadShutdown, R!ReadWait, R!EmitInputWait, R!WaitEnds,
    R!Evaluate, R!Interrupted, R!Quit, R!FinishSessionEnd, R!Exit, R!Crash, R!Die
<1>1. CASE R!ReadPopLine
  <2>1. \A i \in DOMAIN input_queue' : i + 1 \in DOMAIN input_queue
              /\ input_queue'[i] = input_queue[i + 1]
    BY <1>1 DEF R!ReadPopLine, R!pop_front, WorkerType
  <2>. QED  BY <1>0, <2>1, DiscardShrinks
<1>2. CASE input_queue' \in {input_queue, << >>}
  <2>1. \A i \in DOMAIN input_queue' : i \in DOMAIN input_queue
              /\ input_queue'[i] = input_queue[i]
    BY <1>2
  <2>. QED  BY <1>0, <2>1, DiscardShrinks
<1>. QED  BY <1>1, <1>2 DEF WorkerMain, WorkerCrash, R!MainThread, R!Setup, R!ReadInterrupted,
      R!ReadShutdown, R!ReadWait, R!EmitInputWait, R!WaitEnds, R!inner, R!StartWaiting,
      R!EmitInputLine, R!FinishSessionEnd,
      R!Evaluate, R!Interrupted, R!Quit, R!Exit, R!Crash, R!Die

\* Every step keeps DiscardInv.
LEMMA DiscardStep ==
  ASSUME SidebandType, DiscardInv, [SidebandNext]_sidebandVars
  PROVE  DiscardInv'
<1>1. WorkerType /\ WorkerType'
  BY SidebandTypeStep DEF SidebandType
<1>2. CASE ManagerStep
  BY <1>1, <1>2, DiscardManager
<1>3. CASE WorkerIpc \/ WorkerMain \/ WorkerCrash
  BY <1>1, <1>3, DiscardIpc, DiscardMain
<1>4. CASE ServerReader \/ UNCHANGED sidebandVars
  BY <1>1, <1>4, DiscardShrinks DEF ServerReader, sidebandVars, worker, manage
<1>. QED  BY <1>2, <1>3, <1>4 DEF SidebandNext, Finished

\* When the worker has received every interrupt, no line written before the
\* last one is left in its queue, however batches and interrupts were mixed
\* on the stream.
THEOREM DiscardCorrect == SidebandSpec => []InterruptDiscards
<1>1. SidebandInit => DiscardInv
  BY DEF SidebandInit, R!Init, DiscardInv, InterruptDiscards, Unread
<1>2. SidebandType /\ DiscardInv /\ [SidebandNext]_sidebandVars => SidebandType' /\ DiscardInv'
  BY SidebandTypeStep, DiscardStep
<1>3. DiscardInv => InterruptDiscards
  BY DEF DiscardInv
<1>. QED  BY <1>1, <1>2, <1>3, SidebandTypeInit, PTL DEF SidebandSpec

-----------------------------------------------------------------------------
(* Where the request thread is.                                            *)

\* A call blocks or returns.
LEMMA CallPlaces ==
  ASSUME NEW op, Call(op)
  PROVE  /\ caller = "idle"
         /\ \/ caller' = op /\ ret' = ret
            \/ caller' \in {"idle", "dropped"} /\ ret'.op = op
BY DEF Call, Return, CallerAfter, Returned

\* The manager's program point agrees with the call it has open.
LEMMA PlaceStep ==
  ASSUME SidebandType, PlaceInv, [SidebandNext]_sidebandVars
  PROVE  PlaceInv'
<1>. USE DEF PlaceInv, At
<1>1. ASSUME UNCHANGED <<caller, ret, manager>> PROVE PlaceInv'
  BY <1>1
<1>2. ASSUME caller' \in {"idle", "dropped"}, manager' # "starting" PROVE PlaceInv'
  BY <1>2 DEF Waits, ReadinessWaits, InterruptWaits
<1>3. CASE Write
  BY <1>3, CallPlaces DEF Write, Go, Waits, ReadinessWaits, InterruptWaits
<1>4. CASE SeedReadiness \/ AwaitCompletion \/ Poll \/ PollWait \/ AwaitInterrupted
  <2>1. \E op \in Waits \ {"begin_input_when_ready"} : Call(op)
    BY <1>4 DEF SeedReadiness, AwaitCompletion, Poll, PollWait, AwaitInterrupted, Go, Waits,
      ReadinessWaits
  <2>2. manager' # "starting"
    BY <1>4 DEF SeedReadiness, AwaitCompletion, Poll, PollWait, AwaitInterrupted, Go
  <2>. QED  BY <2>1, <2>2, CallPlaces
<1>5. CASE Resume
  <2>1. /\ caller \in Waits /\ manager' = manager
        /\ caller' \in {"idle", "dropped"} /\ ret'.op = caller
    BY <1>5 DEF Resume, Wake, TimeOut, Return, CallerAfter, Returned, manage
  <2>. QED  BY <2>1 DEF Waits, ReadinessWaits, InterruptWaits
<1>6. CASE SendInterrupt
  <2>1. manager' = "signalling" /\ caller' # "begin_input_when_ready"
    BY <1>6 DEF SendInterrupt, Interrupt
  <2>. QED  BY <2>1
<1>7. CASE \/ SpawnFails \/ SeedImmediate \/ SendBatch \/ PollFails \/ SendSignal \/ Restart
  BY <1>2, <1>7 DEF SpawnFails, SeedImmediate, SendBatch, PollFails, SendSignal, Restart, At,
    server, request
<1>8. CASE \/ Seeded \/ StartFails \/ PollZero \/ Completed \/ StillPending
           \/ CompletionEnds \/ InterruptAnswered \/ WorkerLost
  BY <1>2, <1>8 DEF Seeded, StartFails, PollZero, Completed, StillPending, CompletionEnds,
    InterruptAnswered, WorkerLost, Advance, GiveUp, server, request
<1>9. CASE Resolved
  BY <1>2, <1>9 DEF Resolved, Advance, GiveUp, server, request
<1>10. CASE ServerReader
  <2>1. UNCHANGED request /\ UNCHANGED manager
    BY <1>10, ReaderEffects DEF ServerReader, manage, SidebandType, Quiet, Readied, Armed, Observed
  <2>. QED  BY <1>1, <2>1 DEF request
<1>11. CASE WorkerIpc \/ WorkerMain \/ WorkerCrash
  BY <1>1, <1>11 DEF WorkerIpc, WorkerMain, WorkerCrash, server, request, manage
<1>12. CASE UNCHANGED sidebandVars
  BY <1>1, <1>12 DEF sidebandVars, server, request, manage
<1>. QED  BY <1>3, <1>4, <1>5, <1>6, <1>7, <1>8, <1>9, <1>10, <1>11, <1>12
     DEF SidebandNext, ManagerStep, Finished

-----------------------------------------------------------------------------
(* What a step of the server changes that the turn depends on.             *)

\* Neither readiness nor an admitted batch comes or goes.
Keeps ==
  /\ input'.ready_for_input = input.ready_for_input
  /\ validate_active_input(input') = validate_active_input(input)
  /\ input'.protocol_error \in {input.protocol_error, None}
  /\ input'.session_end_final = input.session_end_final
  /\ inbox'.startup_message_seen = inbox.startup_message_seen
  /\ UNCHANGED <<pipe, clock>>

\* The readiness is spent on a batch.
Admits ==
  /\ input.ready_for_input /\ ~input'.ready_for_input
  /\ validate_active_input(input')
  /\ input'.protocol_error \in {input.protocol_error, None}
  /\ input'.session_end_final = input.session_end_final
  /\ inbox'.startup_message_seen = inbox.startup_message_seen
  /\ UNCHANGED <<pipe, clock>>

\* What a returning call leaves of them.
AfterKept(op, value, in, box, t, b) ==
  /\ b.startup_message_seen = box.startup_message_seen
  /\ t.protocol_error \in {in.protocol_error, None}
  /\ t.session_end_final = in.session_end_final
  /\ value = "Ok" /\ op = "begin_input_when_ready" =>
       ~t.ready_for_input /\ validate_active_input(t)
  /\ ~(value = "Ok" /\ op = "begin_input_when_ready") =>
       /\ t.ready_for_input = in.ready_for_input
       /\ validate_active_input(t) =
            (/\ validate_active_input(in)
             /\ ~(value = "Ok" /\ op = "wait_for_request_completion"))

\* What a returning call leaves in the inbox of what it does not wait for.
LEMMA AfterKeeps ==
  ASSUME NEW op, NEW value \in Values, NEW in \in InputStates, NEW box \in Inboxes
  PROVE  AfterKept(op, value, in, box, InputAfter(op, value, in), InboxAfter(op, value, box))
<1>. SUFFICES
       LET t == InputAfter(op, value, in) IN
         /\ InboxAfter(op, value, box).startup_message_seen = box.startup_message_seen
         /\ t.protocol_error \in {in.protocol_error, None}
         /\ t.session_end_final = in.session_end_final
         /\ value = "Ok" /\ op = "begin_input_when_ready" =>
              ~t.ready_for_input /\ validate_active_input(t)
         /\ ~(value = "Ok" /\ op = "begin_input_when_ready") =>
              /\ t.ready_for_input = in.ready_for_input
              /\ validate_active_input(t) =
                   (/\ validate_active_input(in)
                    /\ ~(value = "Ok" /\ op = "wait_for_request_completion"))
  BY DEF AfterKept
<1>. DEFINE t == InputAfter(op, value, in)
<1>0. InboxAfter(op, value, box).startup_message_seen = box.startup_message_seen
  BY DEF InboxAfter, take_session_end, start_request_records, reset_request_progress,
    take_worker_ready, Inboxes
<1>00. validate_active_input(in) \in BOOLEAN
  BY DEF validate_active_input, InputStates
<1>1. CASE value = "Protocol"
  BY <1>0, <1>1 DEF InputAfter, take_protocol_error, validate_active_input,
              InputStates, Option, Instant, None
<1>2. CASE value = "SessionEnd"
  BY <1>0, <1>2 DEF InputAfter, take_session_end_flag, validate_active_input, InputStates
<1>3. CASE value = "Ok" /\ op = "begin_input_when_ready"
  BY <1>0, <1>3 DEF InputAfter, begin_input, validate_active_input, InputStates
<1>4. CASE value = "Ok" /\ op = "wait_for_request_completion"
  BY <1>0, <1>4 DEF InputAfter, clear_request_progress, validate_active_input, InputStates
<1>5. CASE value = "Ok" /\ op = "wait_for_worker_ready"
  BY <1>0, <1>5 DEF InputAfter, take_session_end_flag, validate_active_input, InputStates
<1>6. CASE /\ value \notin {"Protocol", "SessionEnd"}
           /\ ~ (value = "Ok" /\ op \in {"begin_input_when_ready",
                "wait_for_request_completion", "wait_for_worker_ready"})
  <2>1. t = in
    BY <1>6 DEF InputAfter
  <2>2. ~(value = "Ok" /\ op = "wait_for_request_completion")
        /\ ~(value = "Ok" /\ op = "begin_input_when_ready")
    BY <1>6
  <2>. QED  BY <1>0, <1>00, <2>1, <2>2
<1>. QED  BY <1>1, <1>2, <1>3, <1>4, <1>5, <1>6

\* No wait for a completion returns Ok while an input_line could still be
\* accepted, and no batch is admitted without readiness.
LEMMA OkMeans ==
  ASSUME TypeOK
  PROVE  /\ Answer("wait_for_request_completion") = "Ok" => ~validate_active_input(input)
         /\ Answer("begin_input_when_ready") = "Ok" => input.ready_for_input
<1>1. Answer("wait_for_request_completion") = "Ok" => ~validate_active_input(input)
  BY CompletionOk DEF request_completion_ready, input_completion_ready, validate_active_input
<1>2. Answer("begin_input_when_ready") = FaultOr(input.ready_for_input)
  BY DEF Answer, ReadinessWaits
<1>3. FaultOr(input.ready_for_input) = "Ok" => input.ready_for_input
  BY DEF FaultOr, Fault
<1>. QED  BY <1>1, <1>2, <1>3

\* A call that blocks or returns keeps the turn where it is, unless it admits
\* a batch.
Serves(op) ==
  \/ /\ Keeps
     /\ ret' \in {ret, Returned(op, Answer(op))}
     /\ CompletedWith("Ok")' => CompletedWith("Ok") \/ ~validate_active_input(input)
     /\ op = "begin_input_when_ready" /\ caller' = "idle" => ret'.value # "Ok"
  \/ /\ op = "begin_input_when_ready"
     /\ Admits
     /\ ret' = Returned(op, "Ok") /\ caller' = "idle"

\* A call that returns at its first look answers the wait it was made for.
LEMMA CallServes ==
  ASSUME TypeOK, NEW op \in Waits, Call(op)
  PROVE  Serves(op)
<1>. DEFINE in == InputOnEntry(op)
            box == InboxOnEntry(op)
            value == Answer(op)
<1>0. input \in InputStates /\ inbox \in Inboxes
  BY DEF TypeOK
<1>1. /\ input' = InputAfter(op, value, in)
      /\ inbox' = InboxAfter(op, value, box)
      /\ UNCHANGED <<pipe, clock>>
      /\ \/ value = "Wait" /\ caller' = op /\ ret' = ret
         \/ value # "Wait" /\ Return(op, value)
      /\ MayCall(op)
  BY DEF Call
<1>2. in \in InputStates /\ box \in Inboxes /\ value \in Values
  BY <1>0, EntryType, AnswerType
<1>3. /\ in.protocol_error = input.protocol_error
      /\ in.session_end_final = input.session_end_final
      /\ in.ready_for_input = input.ready_for_input
      /\ box.startup_message_seen = inbox.startup_message_seen
      /\ validate_active_input(in) = validate_active_input(input)
  <2>1. CASE op = "begin_input_when_ready"
    <3>1. ~input.active
      BY <1>1, <2>1 DEF MayCall
    <3>. QED  BY <1>0, <2>1, <3>1 DEF InputOnEntry, InboxOnEntry, clear_request_progress,
           reset_after_completed_request, reset_request_progress, InputStates, Inboxes,
           validate_active_input
  <2>2. CASE op # "begin_input_when_ready"
    BY <2>2 DEF InputOnEntry, InboxOnEntry
  <2>. QED  BY <2>1, <2>2
<1>5. /\ value = "Ok" /\ op = "wait_for_request_completion" => ~validate_active_input(input)
      /\ value = "Ok" /\ op = "begin_input_when_ready" => input.ready_for_input
  BY OkMeans
<1>. HIDE DEF in, box, value
<1>4. AfterKept(op, value, input, inbox, input', inbox')
  <2>1. AfterKept(op, value, in, box, InputAfter(op, value, in), InboxAfter(op, value, box))
    BY <1>2, AfterKeeps
  <2>. QED  BY <1>1, <1>3, <2>1 DEF AfterKept
<1>. USE DEF AfterKept
<1>6. value # "Wait" => ret' = Returned(op, value) /\ caller' = CallerAfter(op, value)
  BY <1>1 DEF Return
<1>7. value = "Wait" => ret' = ret /\ caller' = op
  BY <1>1 DEF Return
<1>8. validate_active_input(input) \in BOOLEAN
  BY <1>0 DEF validate_active_input, InputStates
<1>9. CASE value = "Ok" /\ op = "begin_input_when_ready"
  BY <1>1, <1>4, <1>5, <1>6, <1>9 DEF Serves, Admits, CallerAfter
<1>10. CASE ~(value = "Ok" /\ op = "begin_input_when_ready")
  <2>1. Keeps
    BY <1>1, <1>4, <1>5, <1>8, <1>10 DEF Keeps
  <2>2. ret' \in {ret, Returned(op, value)}
    BY <1>6, <1>7
  <2>4. CompletedWith("Ok")' => CompletedWith("Ok") \/ ~validate_active_input(input)
    BY <1>5, <1>6, <1>7 DEF CompletedWith, Returned
  <2>5. op = "begin_input_when_ready" /\ caller' = "idle" => ret'.value # "Ok"
    BY <1>6, <1>7, <1>10 DEF Returned
  <2>. QED  BY <2>1, <2>2, <2>4, <2>5 DEF Serves, value
<1>. QED  BY <1>9, <1>10

\* A call that returns later answers the wait it was made for.
LEMMA WakeServes ==
  ASSUME TypeOK, Wake
  PROVE  Serves(caller)
<1>. DEFINE value == Answer(caller)
<1>0. input \in InputStates /\ inbox \in Inboxes
  BY DEF TypeOK
<1>1. /\ input' = InputAfter(caller, value, input)
      /\ inbox' = InboxAfter(caller, value, inbox)
      /\ UNCHANGED <<pipe, clock>>
      /\ value # "Wait" /\ Return(caller, value)
      /\ caller \in Waits
  BY DEF Wake
<1>2. value \in Values
  BY AnswerType
<1>5. /\ value = "Ok" /\ caller = "wait_for_request_completion" => ~validate_active_input(input)
      /\ value = "Ok" /\ caller = "begin_input_when_ready" => input.ready_for_input
  BY OkMeans
<1>. HIDE DEF value
<1>4. AfterKept(caller, value, input, inbox, input', inbox')
  <2>1. AfterKept(caller, value, input, inbox, InputAfter(caller, value, input),
                  InboxAfter(caller, value, inbox))
    BY <1>0, <1>2, AfterKeeps
  <2>. QED  BY <1>1, <2>1
<1>. USE DEF AfterKept
<1>6. ret' = Returned(caller, value) /\ caller' = CallerAfter(caller, value)
  BY <1>1 DEF Return
<1>8. validate_active_input(input) \in BOOLEAN
  BY <1>0 DEF validate_active_input, InputStates
<1>9. CASE value = "Ok" /\ caller = "begin_input_when_ready"
  BY <1>1, <1>4, <1>5, <1>6, <1>9 DEF Serves, Admits, CallerAfter
<1>10. CASE ~(value = "Ok" /\ caller = "begin_input_when_ready")
  <2>1. Keeps
    BY <1>1, <1>4, <1>5, <1>8, <1>10 DEF Keeps
  <2>2. ret' \in {ret, Returned(caller, value)}
    BY <1>6
  <2>4. CompletedWith("Ok")' => CompletedWith("Ok") \/ ~validate_active_input(input)
    BY <1>5, <1>6 DEF CompletedWith, Returned
  <2>5. caller = "begin_input_when_ready" /\ caller' = "idle" => ret'.value # "Ok"
    BY <1>6, <1>10 DEF Returned
  <2>. QED  BY <2>1, <2>2, <2>4, <2>5 DEF Serves, value
<1>. QED  BY <1>9, <1>10

\* A step of the request thread leaves the turn where it is ...
Holds ==
  /\ Keeps
  /\ to_worker' = to_worker \/ to_worker' = Append(to_worker, [type |-> "shutdown"])
  /\ Admitting' => Admitting
  /\ Turned' => Turned \/ ~validate_active_input(input)

\* ... or takes it from the readiness on record to a batch ...
Takes ==
  /\ Admits
  /\ UNCHANGED to_worker
  /\ Admitting' /\ ~Turned'

\* ... or passes it on to the worker.
Passes ==
  /\ UNCHANGED <<pipe, server>>
  /\ to_worker' = Append(to_worker, [type |-> "input_batch", batch |-> batch + 1,
                                     lines |-> BatchLines])
  /\ Admitting /\ ~Admitting' /\ ~Turned'

\* Without Ctrl-C the manager leaves the turn where it is, takes it, or passes
\* it on.
LEMMA ManagerTurn ==
  ASSUME SidebandType, PlaceInv, ManagerStep, clock' = 0
  PROVE  Holds \/ Takes \/ Passes
<1>0. TypeOK /\ clock \in Nat /\ input \in InputStates /\ inbox \in Inboxes
  BY DEF SidebandType, TypeOK
<1>1. ASSUME UNCHANGED <<pipe, connection, clock, ret>>, UNCHANGED to_worker,
             ~Admitting' \/ Admitting
      PROVE  Holds
  BY <1>1 DEF Holds, Keeps, connection, Turned, CompletedWith
<1>2. CASE Write
  <2>1. /\ Call("begin_input_when_ready") /\ manager' = "starting" /\ UNCHANGED to_worker
    BY <1>2 DEF Write, Go, worker
  <2>2. Serves("begin_input_when_ready")
    BY <1>0, <2>1, CallServes DEF Waits
  <2>3. CASE /\ Admits
             /\ ret' = Returned("begin_input_when_ready", "Ok") /\ caller' = "idle"
    BY <2>1, <2>3 DEF Takes, Admitting, At, Got, Turned, CompletedWith, Returned
  <2>4. CASE /\ Keeps
             /\ CompletedWith("Ok")' => CompletedWith("Ok") \/ ~validate_active_input(input)
             /\ caller' = "idle" => ret'.value # "Ok"
    BY <2>1, <2>4 DEF Holds, Admitting, At, Got, Turned
  <2>. QED  BY <2>2, <2>3, <2>4 DEF Serves
<1>3. CASE SeedReadiness \/ AwaitCompletion \/ Poll \/ PollWait \/ AwaitInterrupted
  <2>1. PICK op \in Waits \ {"begin_input_when_ready"} : Call(op)
    BY <1>3 DEF SeedReadiness, AwaitCompletion, Poll, PollWait, AwaitInterrupted, Go, Waits,
      ReadinessWaits
  <2>2. manager' # "starting" /\ UNCHANGED to_worker
    BY <1>3 DEF SeedReadiness, AwaitCompletion, Poll, PollWait, AwaitInterrupted, Go, worker
  <2>3. Serves(op)
    BY <1>0, <2>1, CallServes
  <2>. QED  BY <2>1, <2>2, <2>3 DEF Serves, Holds, Admitting, At, Turned
<1>4. CASE Resume
  <2>1. UNCHANGED <<to_worker, manager>>
    BY <1>4 DEF Resume, worker, manage
  <2>2. CASE Wake
    <3>1. Serves(caller) /\ caller \in Waits
      BY <1>0, <2>2, WakeServes DEF Wake
    <3>2. manager = "starting" => caller = "begin_input_when_ready"
      BY <3>1 DEF PlaceInv
    <3>3. CASE /\ caller = "begin_input_when_ready" /\ Admits
               /\ ret' = Returned(caller, "Ok") /\ caller' = "idle"
      <4>1. manager = "starting"
        BY <3>1, <3>3 DEF PlaceInv
      <4>. QED  BY <2>1, <3>3, <4>1 DEF Takes, Admitting, At, Got, Turned, CompletedWith, Returned
    <3>4. CASE /\ Keeps
               /\ CompletedWith("Ok")' => CompletedWith("Ok") \/ ~validate_active_input(input)
               /\ caller = "begin_input_when_ready" /\ caller' = "idle" => ret'.value # "Ok"
      BY <2>1, <3>2, <3>4 DEF Holds, Admitting, At, Got, Turned
    <3>. QED  BY <3>1, <3>3, <3>4 DEF Serves
  <2>3. CASE TimeOut
    <3>1. ret'.value = "Timeout" /\ UNCHANGED <<pipe, connection, clock>>
      BY <2>3 DEF TimeOut, Return, Returned
    <3>. QED  BY <2>1, <3>1 DEF Holds, Keeps, connection, Admitting, Got, Turned, CompletedWith, Returned
  <2>. QED  BY <1>4, <2>2, <2>3 DEF Resume
<1>5. CASE SendInterrupt
  <2>1. clock' = clock + 1
    BY <1>5 DEF SendInterrupt, Interrupt
  <2>. QED  BY <1>0, <2>1
<1>6. CASE SendBatch
  <2>1. At("starting") /\ Got("Ok") /\ manager' = "started" /\ UNCHANGED <<pipe, server>>
    BY <1>6 DEF SendBatch
  <2>2. ret' = ret /\ ret.op = "begin_input_when_ready"
    BY <2>1 DEF PlaceInv, server, request
  <2>. QED  BY <1>6, <2>1, <2>2 DEF Passes, SendBatch, ToWorker, Admitting, At, Turned, CompletedWith, Returned
<1>7. CASE SeedImmediate
  <2>1. /\ inbox'.startup_message_seen = inbox.startup_message_seen
        /\ UNCHANGED <<pipe, input, clock, ret, to_worker>> /\ manager' = "ready"
    BY <1>0, <1>7 DEF SeedImmediate, Inboxes, request, worker
  <2>. QED  BY <2>1 DEF Holds, Keeps, Admitting, At, Turned, CompletedWith
<1>8. CASE PollFails
  <2>1. /\ UNCHANGED <<pipe, inbox, clock, ret, to_worker>> /\ manager' = "ready"
        /\ input' = take_protocol_error(input)
    BY <1>8 DEF PollFails, request, worker
  <2>2. Keeps
    BY <1>0, <2>1 DEF Keeps, take_protocol_error, validate_active_input, InputStates
  <2>. QED  BY <2>1, <2>2 DEF Holds, Admitting, At, Turned, CompletedWith
<1>9. CASE Restart
  BY <1>9 DEF Restart, ToWorker, Holds, Keeps, connection, Admitting, At, Turned, CompletedWith
<1>10. CASE SpawnFails \/ SendSignal
  BY <1>1, <1>10 DEF SpawnFails, SendSignal, server, request, worker, Admitting, At
<1>11. CASE \/ Seeded \/ StartFails \/ PollZero \/ Completed \/ StillPending
            \/ CompletionEnds \/ InterruptAnswered \/ WorkerLost
  BY <1>1, <1>11 DEF Seeded, StartFails, PollZero, Completed, StillPending, CompletionEnds,
    InterruptAnswered, WorkerLost, Advance, GiveUp, server, request, worker, Admitting, At
<1>12. CASE Resolved
  BY <1>1, <1>12 DEF Resolved, Advance, GiveUp, server, request, worker, Admitting, At
<1>. QED  BY <1>2, <1>3, <1>4, <1>5, <1>6, <1>7, <1>8, <1>9, <1>10, <1>11, <1>12 DEF ManagerStep

\* As long as nobody pressed Ctrl-C, the request thread is nowhere on its way.
LEMMA CalmManager ==
  ASSUME SidebandType, CalmInv, ManagerStep, clock' = 0
  PROVE  manager' \notin {"signalling", "interrupting", "prompting"}
<1>0. clock \in Nat
  BY DEF SidebandType, TypeOK
<1>. USE DEF CalmInv, At, Advance, GiveUp, Go
<1>1. CASE SendInterrupt
  <2>1. clock' = clock + 1
    BY <1>1 DEF SendInterrupt, Interrupt
  <2>. QED  BY <1>0, <2>1
<1>2. CASE Resolved
  BY <1>2 DEF Resolved
<1>3. CASE SendSignal \/ AwaitInterrupted \/ InterruptAnswered
  BY <1>3 DEF SendSignal, AwaitInterrupted, InterruptAnswered
<1>4. CASE \/ SpawnFails \/ SeedImmediate \/ SeedReadiness \/ Seeded \/ Write \/ StartFails
           \/ AwaitCompletion \/ Poll \/ PollWait \/ PollZero \/ Completed \/ StillPending
           \/ CompletionEnds \/ PollFails \/ WorkerLost \/ Restart \/ SendBatch
  BY <1>4 DEF SpawnFails, SeedImmediate, SeedReadiness, Seeded, Write, StartFails,
    AwaitCompletion, Poll, PollWait, PollZero, Completed, StillPending, CompletionEnds, PollFails,
    WorkerLost, Restart, SendBatch
<1>5. CASE Resume
  BY <1>5 DEF Resume, manage
<1>. QED  BY <1>1, <1>2, <1>3, <1>4, <1>5 DEF ManagerStep

-----------------------------------------------------------------------------
(* The reader thread.                                                      *)

\* It takes one message off the stream, and none is refused.
Consumes ==
  /\ pipe # << >> /\ pipe' = Tail(pipe)
  /\ UNCHANGED request
  /\ input'.protocol_error = None
  /\ inbox'.startup_message_seen
  /\ input'.session_end_final = (Head(pipe).type = "session_end")
  /\ IF Head(pipe).type = "input_wait"
     THEN input'.ready_for_input /\ ~validate_active_input(input')
     ELSE /\ input'.ready_for_input = input.ready_for_input
          /\ validate_active_input(input') = validate_active_input(input)

\* The server's reader takes the readiness that is in the stream, or leaves the
\* turn.
LEMMA ReaderTurn ==
  ASSUME SidebandType, TurnInv, StreamInv, ReaderStep
  PROVE  Consumes \/ (Keeps /\ UNCHANGED <<caller, ret>>)
<1>0. /\ input \in InputStates /\ inbox \in Inboxes /\ clock \in Nat
      /\ pipe \in Seq(Messages)
  BY DEF SidebandType, TypeOK
<1>1. ASSUME NEW m, Reading(m)
      PROVE  /\ pipe # << >> /\ pipe' = Tail(pipe) /\ m = Head(pipe) /\ UNCHANGED request
             /\ ~input.session_end_final
             /\ m.type \in {"worker_ready", "input_wait", "input_line", "output", "session_end"}
             /\ FirstMessage => m.type = "worker_ready"
             /\ Admissible(m)
             /\ m.type = "input_line" => validate_active_input(input)
  <2>1. /\ pipe # << >> /\ pipe' = Tail(pipe) /\ m = Head(pipe) /\ UNCHANGED request
        /\ m = pipe[1] /\ 1 \in DOMAIN pipe
    BY <1>0, <1>1 DEF Reading
  <2>2. /\ ~input.session_end_final
        /\ m.type \in {"worker_ready", "input_wait", "input_line", "output", "session_end"}
        /\ FirstMessage => m.type = "worker_ready"
    BY <2>1 DEF StreamInv, FirstMessage
  <2>3. Admissible(m)
    BY <2>2 DEF Admissible, SessionEnds
  <2>4. m.type = "input_line" => validate_active_input(input)
    BY <2>1 DEF TurnInv, Reported
  <2>. QED  BY <2>1, <2>2, <2>3, <2>4
<1>. USE DEF Fact
<1>2. CASE ReadRefused
  BY <1>1, <1>2 DEF ReadRefused
<1>3. ASSUME NEW m, Reading(m), m.type # "input_wait",
             input' = IF m.type = "session_end" THEN note_session_end(input) ELSE input,
             inbox'.startup_message_seen
      PROVE  Consumes
  <2>1. input.protocol_error = None /\ ~input.session_end_final
    BY <1>1, <1>3 DEF StreamInv
  <2>2. /\ input'.protocol_error = None
        /\ input'.ready_for_input = input.ready_for_input
        /\ validate_active_input(input') = validate_active_input(input)
    BY <1>0, <1>3, <2>1 DEF note_session_end, validate_active_input, InputStates
  <2>3. input'.session_end_final = (m.type = "session_end")
    <3>1. CASE m.type = "session_end"
      BY <1>0, <1>3, <3>1 DEF note_session_end, InputStates
    <3>2. CASE m.type # "session_end"
      BY <1>0, <1>3, <2>1, <3>2 DEF InputStates
    <3>. QED  BY <3>1, <3>2
  <2>. QED  BY <1>1, <1>3, <2>2, <2>3 DEF Consumes
<1>4. CASE ReadInputLine
  <2>1. PICK m \in Message("input_line") :
          /\ Fact(m)
          /\ \/ ~validate_active_input(input)
             \/ /\ inbox' = [inbox EXCEPT
                     !.readline_result_count = @ + 1,
                     !.prompt_history = push_prompt_history(@, m.prompt),
                     !.input_line_events = @ + 1]
                /\ UNCHANGED input
    BY <1>4 DEF ReadInputLine
  <2>2. m.type = "input_line"
    BY DEF Message
  <2>3. UNCHANGED input /\ inbox'.startup_message_seen = inbox.startup_message_seen
    BY <1>0, <1>1, <2>1, <2>2 DEF Inboxes
  <2>4. inbox.startup_message_seen
    BY <1>1, <2>1, <2>2 DEF FirstMessage
  <2>. QED  BY <1>3, <2>1, <2>2, <2>3, <2>4
<1>5. CASE ReadInputWait
  <2>1. PICK m \in Message("input_wait") :
          /\ Fact(m)
          /\ input' = record_ready_at(input, clock, TRUE)
          /\ inbox' = [note_readiness(inbox) EXCEPT
               !.prompt_history = push_prompt_history(@, m.prompt),
               !.last_prompt = m.prompt]
    BY <1>5 DEF ReadInputWait
  <2>2. m.type = "input_wait"
    BY DEF Message
  <2>3. note_readiness(inbox) \in Inboxes
        /\ note_readiness(inbox).startup_message_seen = inbox.startup_message_seen
    BY <1>0, InboxOperators DEF note_readiness, Inboxes
  <2>4. inbox'.startup_message_seen = inbox.startup_message_seen
    BY <2>1, <2>3 DEF Inboxes
  <2>5. inbox.startup_message_seen /\ input.protocol_error = None /\ ~input.session_end_final
    BY <1>1, <2>1, <2>2 DEF FirstMessage, StreamInv
  <2>6. /\ input'.protocol_error = input.protocol_error
        /\ input'.session_end_final = input.session_end_final
        /\ input'.ready_for_input /\ ~validate_active_input(input')
    BY <1>0, <2>1 DEF record_ready_at, validate_active_input, InputStates, None
  <2>7. input'.session_end_final = (m.type = "session_end")
    BY <1>0, <2>2, <2>5, <2>6 DEF InputStates
  <2>. QED  BY <1>1, <2>1, <2>2, <2>4, <2>5, <2>6, <2>7 DEF Consumes
<1>6. CASE ReadReady \/ ReadInterruptArmed \/ ReadInterruptComplete
  <2>1. PICK m \in Message("ready") \union Message("interrupt_armed")
                     \union Message("interrupt_complete") : Fact(m)
    BY <1>6 DEF ReadReady, ReadInterruptArmed, ReadInterruptComplete
  <2>2. m.type \in {"ready", "interrupt_armed", "interrupt_complete"}
    BY DEF Message
  <2>. QED  BY <1>1, <2>1, <2>2
<1>7. CASE ReadSessionEnd
  <2>1. PICK m \in UNION {Message(type) : type \in SessionEnds} :
          /\ Fact(m)
          /\ \/ m.type = "invalid_end"
             \/ /\ input' = note_session_end(
                     IF FirstMessage /\ m.type = "startup_failure"
                     THEN latch_protocol_error(input, clock) ELSE input)
                /\ inbox' = [inbox EXCEPT !.startup_message_seen = TRUE,
                                          !.queued_session_end = @ + 1]
    BY <1>7 DEF ReadSessionEnd
  <2>2. m.type = "session_end"
    <3>1. m.type \in SessionEnds
      BY DEF Message
    <3>. QED  BY <1>1, <2>1, <3>1 DEF SessionEnds
  <2>3. input' = note_session_end(input)
    BY <2>1, <2>2
  <2>4. inbox'.startup_message_seen
    BY <1>0, <2>1, <2>2 DEF Inboxes
  <2>. QED  BY <1>3, <2>1, <2>2, <2>3, <2>4
<1>8. CASE ReadOutput
  <2>1. PICK m \in Message("output") \union Message("invalid_payload") :
          /\ Fact(m)
          /\ m.type = "invalid_payload" \/ UNCHANGED input
          /\ UNCHANGED inbox
    BY <1>8 DEF ReadOutput
  <2>2. m.type = "output" /\ inbox.startup_message_seen
    <3>1. m.type \in {"output", "invalid_payload"}
      BY DEF Message
    <3>. QED  BY <1>1, <2>1, <3>1 DEF FirstMessage
  <2>. QED  BY <1>3, <2>1, <2>2
<1>9. CASE ReadWorkerReady
  <2>1. PICK m \in Message("worker_ready") :
          /\ Fact(m)
          /\ inbox' = [inbox EXCEPT !.startup_message_seen = TRUE,
                                    !.queued_worker_ready = @ + 1]
          /\ UNCHANGED input
    BY <1>9 DEF ReadWorkerReady
  <2>2. m.type = "worker_ready"
    BY DEF Message
  <2>3. inbox'.startup_message_seen
    BY <1>0, <2>1 DEF Inboxes
  <2>. QED  BY <1>3, <2>1, <2>2, <2>3
<1>10. CASE ReadEof \/ Dispatch
  <2>1. UNCHANGED <<pipe, input, request>>
        /\ inbox'.startup_message_seen = inbox.startup_message_seen
    BY <1>0, <1>10 DEF ReadEof, Dispatch, Inboxes
  <2>. QED  BY <2>1 DEF Keeps, request
<1>. QED  BY <1>2, <1>4, <1>5, <1>6, <1>7, <1>8, <1>9, <1>10 DEF ReaderStep

-----------------------------------------------------------------------------
(* The turn is never in two places.                                        *)

\* A step that brings nothing new keeps TurnInv.
LEMMA TurnCarries ==
  ASSUME TurnInv,
         Resting => Resting',
         Ready' => Ready, Admitting' => Admitting, Sent' => Sent, Told' => Told,
         Reported' \/ main' = "emit_line" \/ input_queue' # << >> =>
           Reported \/ main = "emit_line" \/ input_queue # << >>,
         validate_active_input(input) => validate_active_input(input'),
         OneBatch', WaitLast',
         main' = "emit_wait" => ~active_input' /\ input_queue' = << >>,
         Turned' => Turned \/ ~validate_active_input(input),
         input_queue = << >> => input_queue' = << >>
  PROVE  TurnInv'
BY DEF TurnInv

\* What becomes of the stream to the server, and of the stream to the worker.
LEMMA PipeTail ==
  ASSUME TypeOK, pipe # << >>, pipe' = Tail(pipe)
  PROVE  /\ Told' => Told
         /\ Reported' => Reported
         /\ WaitLast => WaitLast'
         /\ Head(pipe).type = "input_wait" /\ WaitLast => Told /\ ~Told' /\ ~Reported'
<1>1. /\ \A k \in DOMAIN pipe' : k + 1 \in DOMAIN pipe /\ pipe'[k] = pipe[k + 1]
      /\ Head(pipe) = pipe[1] /\ 1 \in DOMAIN pipe
      /\ \A i, j \in DOMAIN pipe' : i < j => i + 1 < j + 1
      /\ \A i \in DOMAIN pipe' : 1 < i + 1
  BY DEF TypeOK
<1>. QED  BY <1>1 DEF Told, Reported, WaitLast

\* What a message appended to the stream changes of what is on its way to the
\* server.
LEMMA PipeAppend ==
  ASSUME TypeOK, NEW m \in Messages, pipe' = Append(pipe, m)
  PROVE  /\ Told' <=> Told \/ m.type = "input_wait"
         /\ Reported' <=> Reported \/ m.type = "input_line"
         /\ WaitLast /\ (Told => m.type = "session_end") => WaitLast'
<1>1. /\ \A k \in DOMAIN pipe : k \in DOMAIN pipe' /\ pipe'[k] = pipe[k]
      /\ Len(pipe) + 1 \in DOMAIN pipe' /\ pipe'[Len(pipe) + 1] = m
      /\ \A k \in DOMAIN pipe' : k \in DOMAIN pipe \/ (k = Len(pipe) + 1 /\ pipe'[k] = m)
      /\ \A i, j \in DOMAIN pipe' : i < j => i \in DOMAIN pipe
  BY DEF TypeOK
<1>. QED  BY <1>1 DEF Told, Reported, WaitLast

\* Taking a message from the stream to the worker takes at most its one batch.
LEMMA ToWorkerTail ==
  ASSUME WorkerType, to_worker # << >>, to_worker' = Tail(to_worker)
  PROVE  /\ Sent' => Sent
         /\ OneBatch => OneBatch'
         /\ IsBatch(Head(to_worker)) /\ OneBatch => Sent /\ ~Sent'
<1>1. /\ \A k \in DOMAIN to_worker' : k + 1 \in DOMAIN to_worker /\ to_worker'[k] = to_worker[k + 1]
      /\ Head(to_worker) = to_worker[1] /\ 1 \in DOMAIN to_worker
      /\ \A i, j \in DOMAIN to_worker' : i + 1 = j + 1 => i = j
      /\ \A i \in DOMAIN to_worker' : 1 # i + 1
  BY DEF WorkerType
<1>. QED  BY <1>1 DEF Sent, OneBatch

\* Appending a message keeps the one batch on its way the only one.
LEMMA ToWorkerAppend ==
  ASSUME WorkerType, NEW m, to_worker' = Append(to_worker, m)
  PROVE  /\ ~IsBatch(m) => Sent' = Sent
         /\ OneBatch /\ (Sent => ~IsBatch(m)) => OneBatch'
         /\ IsBatch(m) => Sent'
<1>1. /\ \A k \in DOMAIN to_worker : k \in DOMAIN to_worker' /\ to_worker'[k] = to_worker[k]
      /\ Len(to_worker) + 1 \in DOMAIN to_worker' /\ to_worker'[Len(to_worker) + 1] = m
      /\ \A k \in DOMAIN to_worker' :
           \/ k \in DOMAIN to_worker /\ to_worker'[k] = to_worker[k]
           \/ k = Len(to_worker) + 1 /\ to_worker'[k] = m
  BY DEF WorkerType
<1>. QED  BY <1>1 DEF Sent, OneBatch

\* The manager's steps keep the turn in one place.
LEMMA TurnManager ==
  ASSUME SidebandType, TurnInv, ToWorkerOnly, Holds \/ Takes \/ Passes
  PROVE  TurnInv'
<1>0. TypeOK /\ WorkerType
  BY DEF SidebandType
<1>1. /\ Resting' = Resting /\ main' = main /\ input_queue' = input_queue
      /\ active_input' = active_input
  BY DEF ToWorkerOnly, Resting
<1>2. pipe' = pipe /\ Told' = Told /\ Reported' = Reported /\ (WaitLast => WaitLast')
  BY DEF Holds, Takes, Passes, Keeps, Admits, Told, Reported, WaitLast
<1>3. CASE Holds
  <2>1. Sent' = Sent /\ (OneBatch => OneBatch')
    <3>1. CASE to_worker' = to_worker
      BY <3>1 DEF Sent, OneBatch
    <3>2. CASE to_worker' = Append(to_worker, [type |-> "shutdown"])
      <4>1. ~IsBatch([type |-> "shutdown"])
        BY DEF IsBatch
      <4>. QED  BY <1>0, <3>2, <4>1, ToWorkerAppend
    <3>. QED  BY <1>3, <3>1, <3>2 DEF Holds
  <2>2. Ready' = Ready /\ (validate_active_input(input) => validate_active_input(input'))
    BY <1>3 DEF Holds, Keeps, Ready
  <2>3. OneBatch' /\ WaitLast'
    BY <1>2, <2>1 DEF TurnInv
  <2>4. (Admitting' => Admitting) /\ (Turned' => Turned \/ ~validate_active_input(input))
    BY <1>3 DEF Holds
  <2>5. main' = "emit_wait" => ~active_input' /\ input_queue' = << >>
    BY <1>1 DEF TurnInv
  <2>. QED  BY <1>1, <1>2, <2>1, <2>2, <2>3, <2>4, <2>5, TurnCarries
<1>4. CASE Takes
  <2>1. Ready /\ ~Ready' /\ validate_active_input(input') /\ Admitting' /\ ~Turned'
    BY <1>4 DEF Takes, Admits, Ready
  <2>2. Sent' = Sent /\ OneBatch' = OneBatch
    BY <1>4 DEF Takes, Sent, OneBatch
  <2>. QED  BY <1>1, <1>2, <2>1, <2>2 DEF TurnInv
<1>5. CASE Passes
  <2>. DEFINE m == [type |-> "input_batch", batch |-> batch + 1, lines |-> BatchLines]
  <2>1. to_worker' = Append(to_worker, m) /\ IsBatch(m)
    BY <1>5 DEF Passes, IsBatch
  <2>. HIDE DEF m
  <2>2. ~Sent /\ Resting /\ ~Ready /\ ~Told /\ OneBatch /\ WaitLast
    BY <1>5 DEF Passes, TurnInv
  <2>3. Sent' /\ OneBatch' /\ WaitLast'
    BY <1>0, <1>2, <2>1, <2>2, ToWorkerAppend
  <2>4. input' = input /\ ~Admitting' /\ ~Turned' /\ Admitting
    BY <1>5 DEF Passes, server, connection
  <2>. QED  BY <1>1, <1>2, <2>2, <2>3, <2>4 DEF TurnInv, Ready
<1>. QED  BY <1>3, <1>4, <1>5

\* The server's reader keeps the turn in one place.
LEMMA TurnReader ==
  ASSUME SidebandType, TurnInv, StreamInv, ServerReader
  PROVE  TurnInv'
<1>0. TypeOK /\ UNCHANGED <<worker, manage>> /\ (Consumes \/ (Keeps /\ UNCHANGED <<caller, ret>>))
  BY ReaderTurn DEF ServerReader, SidebandType
<1>1. /\ Resting' = Resting /\ main' = main /\ input_queue' = input_queue
      /\ active_input' = active_input /\ to_worker' = to_worker
      /\ Sent' = Sent /\ OneBatch' = OneBatch
      /\ Admitting' = Admitting /\ Turned' = Turned
  BY <1>0 DEF worker, manage, Resting, Sent, OneBatch, Admitting, At, Got, Turned, CompletedWith,
    Consumes, request
<1>2. main' = "emit_wait" => ~active_input' /\ input_queue' = << >>
  BY <1>1 DEF TurnInv
<1>3. CASE Keeps
  <2>1. Told' = Told /\ Reported' = Reported /\ (WaitLast => WaitLast')
    BY <1>3 DEF Keeps, Told, Reported, WaitLast
  <2>2. Ready' = Ready /\ (validate_active_input(input) => validate_active_input(input'))
    BY <1>3 DEF Keeps, Ready
  <2>3. OneBatch' /\ WaitLast'
    BY <1>1, <2>1 DEF TurnInv
  <2>. QED  BY <1>1, <1>2, <2>1, <2>2, <2>3, TurnCarries
<1>4. CASE Consumes /\ Head(pipe).type # "input_wait"
  <2>1. (Told' => Told) /\ (Reported' => Reported) /\ (WaitLast => WaitLast')
    BY <1>0, <1>4, PipeTail DEF Consumes
  <2>2. Ready' = Ready /\ (validate_active_input(input) => validate_active_input(input'))
    BY <1>4 DEF Consumes, Ready
  <2>3. OneBatch' /\ WaitLast'
    BY <1>1, <2>1 DEF TurnInv
  <2>. QED  BY <1>1, <1>2, <2>1, <2>2, <2>3, TurnCarries
<1>5. CASE Consumes /\ Head(pipe).type = "input_wait"
  <2>1. Told /\ ~Told' /\ ~Reported' /\ WaitLast'
    BY <1>0, <1>5, PipeTail DEF Consumes, TurnInv
  <2>2. Resting /\ ~Admitting /\ ~Sent
    BY <2>1 DEF TurnInv
  <2>. QED  BY <1>1, <1>2, <2>1, <2>2 DEF TurnInv, Resting
<1>. QED  BY <1>0, <1>3, <1>4, <1>5

\* The worker's IPC thread keeps the turn in one place.
LEMMA TurnIpc ==
  ASSUME SidebandType, TurnInv, CalmInv, WorkerIpc
  PROVE  /\ TurnInv'
         /\ UNCHANGED <<pipe, session_end_emitted, protocol_failure, main, read_interrupted>>
            \/ (UNCHANGED <<pipe, session_end_emitted, protocol_failure, main>> /\ ~read_interrupted')
<1>0. /\ TypeOK /\ WorkerType /\ UNCHANGED <<server, manage, main>>
      /\ to_worker # << >> /\ to_worker' = Tail(to_worker)
  BY DEF SidebandType, WorkerIpc, R!IpcThread, R!ReceiveInputBatch, R!ReceiveInterrupt,
      R!ReceiveShutdown, R!Receive, R!thread
<1>1. /\ Ready' = Ready /\ Admitting' = Admitting /\ Turned' = Turned /\ input' = input
  BY <1>0 DEF server, connection, request, manage, Ready, Admitting, At, Got, Turned, CompletedWith
<1>2. /\ Sent' => Sent
      /\ OneBatch'
      /\ IsBatch(Head(to_worker)) => Sent /\ ~Sent'
  BY <1>0, ToWorkerTail DEF TurnInv
<1>3. CASE R!ReceiveInputBatch
  <2>1. Sent /\ ~Sent'
    BY <1>2, <1>3 DEF R!ReceiveInputBatch, IsBatch
  <2>2. Resting /\ ~Ready /\ ~Admitting /\ ~Told /\ ~Turned /\ validate_active_input(input)
    BY <2>1 DEF TurnInv
  <2>3. /\ active_input' = TRUE
        /\ UNCHANGED <<pipe, shutdown, read_interrupted, session_end_emitted, protocol_failure>>
    BY <1>3, <2>2 DEF R!ReceiveInputBatch, Resting
  <2>4. Told' = Told /\ Reported' = Reported /\ WaitLast'
    BY <2>3 DEF Told, Reported, WaitLast, TurnInv
  <2>5. main' # "emit_wait"
    BY <1>0, <2>2 DEF Resting
  <2>. QED  BY <1>0, <1>1, <1>2, <2>1, <2>2, <2>3, <2>4, <2>5 DEF TurnInv
<1>4. CASE R!ReceiveInterrupt
  <2>1. 1 \in DOMAIN to_worker /\ Head(to_worker) = to_worker[1]
    BY <1>0 DEF WorkerType
  <2>. QED  BY <1>4, <2>1 DEF R!ReceiveInterrupt, CalmInv
<1>5. CASE R!ReceiveShutdown
  <2>1. /\ UNCHANGED <<pipe, input_queue, active_input, session_end_emitted, protocol_failure>>
        /\ shutdown' = TRUE /\ read_interrupted' = FALSE
    BY <1>5 DEF R!ReceiveShutdown
  <2>2. Resting => Resting'
    BY <1>0, <2>1 DEF Resting
  <2>3. Told' = Told /\ Reported' = Reported /\ WaitLast'
    BY <2>1 DEF Told, Reported, WaitLast, TurnInv
  <2>4. main' = "emit_wait" => ~active_input' /\ input_queue' = << >>
    BY <1>0, <2>1 DEF TurnInv
  <2>5. TurnInv'
    BY <1>0, <1>1, <1>2, <2>1, <2>2, <2>3, <2>4, TurnCarries
  <2>. QED  BY <1>0, <2>1, <2>5
<1>. QED  BY <1>3, <1>4, <1>5 DEF WorkerIpc, R!IpcThread

\* R's thread keeps the turn in one place.
LEMMA TurnMain ==
  ASSUME SidebandType, TurnInv, CalmInv, StreamInv, WorkerMain \/ WorkerCrash
  PROVE  TurnInv'
<1>0. /\ TypeOK /\ WorkerType /\ UNCHANGED <<server, manage, to_worker>>
  BY DEF SidebandType, WorkerMain, WorkerCrash, manage, R!MainThread, R!Setup, R!ReadInterrupted,
    R!ReadPopLine, R!EmitInputLine, R!ReadShutdown, R!ReadWait, R!EmitInputWait, R!WaitEnds,
    R!Evaluate, R!Interrupted, R!Quit, R!FinishSessionEnd, R!Exit, R!Crash, R!Die
<1>1. /\ Ready' = Ready /\ Admitting' = Admitting /\ Turned' = Turned /\ input' = input
      /\ Sent' = Sent /\ OneBatch'
  BY <1>0 DEF server, connection, request, manage, Ready, Admitting, At, Got, Turned, CompletedWith,
    Sent, OneBatch, TurnInv
<1>2. ~read_interrupted
  BY DEF CalmInv
<1>3. ASSUME pipe' = pipe PROVE (Told' <=> Told) /\ (Reported' <=> Reported) /\ WaitLast'
  BY <1>3 DEF Told, Reported, WaitLast, TurnInv
<1>4. CASE R!Setup
  <2>1. R!Send("worker_ready") /\ main = "setup" /\ main' = "read"
        /\ UNCHANGED <<input_queue, active_input, shutdown>>
    BY <1>4 DEF R!Setup, R!inner
  <2>2. PICK m \in Messages : pipe' = Append(pipe, m) /\ m.type = "worker_ready"
    BY <1>0, <2>1, SendType
  <2>3. ~Resting /\ ~Told
    BY <2>1 DEF Resting, TurnInv
  <2>4. (Told' <=> Told) /\ (Reported' <=> Reported) /\ WaitLast'
    BY <1>0, <2>2, <2>3, PipeAppend DEF TurnInv
  <2>. QED  BY <1>1, <2>1, <2>3, <2>4, TurnCarries
<1>5. CASE R!ReadInterrupted
  BY <1>2, <1>5 DEF R!ReadInterrupted
<1>6. CASE R!ReadPopLine
  <2>1. /\ main = "read" /\ main' = "emit_line" /\ input_queue # << >>
        /\ UNCHANGED <<pipe, active_input, shutdown>>
    BY <1>6 DEF R!ReadPopLine
  <2>2. ~Resting /\ ~Turned
    BY <2>1 DEF Resting, TurnInv
  <2>3. (Told' <=> Told) /\ (Reported' <=> Reported) /\ WaitLast'
    BY <1>3, <2>1
  <2>. QED  BY <1>1, <2>1, <2>2, <2>3, TurnCarries
<1>7. CASE R!EmitInputLine
  <2>1. R!Send("input_line") /\ main = "emit_line" /\ main' = "eval"
        /\ UNCHANGED <<input_queue, active_input, shutdown>>
    BY <1>7 DEF R!EmitInputLine, R!inner
  <2>2. PICK m \in Messages : pipe' = Append(pipe, m) /\ m.type = "input_line"
    BY <1>0, <2>1, SendType
  <2>3. ~Resting /\ ~Told
    BY <2>1 DEF Resting, TurnInv
  <2>4. (Told' <=> Told) /\ WaitLast'
    BY <1>0, <2>2, <2>3, PipeAppend DEF TurnInv
  <2>. QED  BY <1>1, <2>1, <2>3, <2>4, TurnCarries
<1>8. CASE R!ReadShutdown \/ R!Quit
  <2>1. /\ main \in {"read", "eval"} /\ main' = "exit"
        /\ UNCHANGED <<pipe, input_queue, active_input, shutdown>>
    BY <1>8 DEF R!ReadShutdown, R!Quit, R!inner
  <2>2. Resting => Resting'
    BY <2>1 DEF Resting
  <2>. QED  BY <1>1, <1>3, <2>1, <2>2, TurnCarries
<1>9. CASE R!ReadWait
  <2>1. /\ main = "read" /\ main' = "emit_wait" /\ ~shutdown /\ input_queue = << >>
        /\ ~active_input' /\ UNCHANGED <<pipe, input_queue>>
    BY <1>9 DEF R!ReadWait, R!MayWait, R!StartWaiting
  <2>2. ~Resting
    BY <2>1 DEF Resting
  <2>. QED  BY <1>1, <1>3, <2>1, <2>2, TurnCarries
<1>10. CASE R!EmitInputWait
  <2>1. R!Send("input_wait") /\ main = "emit_wait" /\ main' = "wait"
        /\ UNCHANGED <<input_queue, active_input, shutdown>>
    BY <1>10 DEF R!EmitInputWait, R!inner
  <2>2. PICK m \in Messages : pipe' = Append(pipe, m) /\ m.type = "input_wait"
    BY <1>0, <2>1, SendType
  <2>3. /\ ~Resting /\ ~Told /\ ~Ready /\ ~Admitting /\ ~Sent
        /\ ~active_input /\ input_queue = << >>
    BY <2>1 DEF Resting, TurnInv
  <2>4. Told' /\ (Reported' <=> Reported) /\ WaitLast'
    BY <1>0, <2>2, <2>3, PipeAppend DEF TurnInv
  <2>5. Resting'
    BY <2>1, <2>3 DEF Resting
  <2>. QED  BY <1>1, <2>1, <2>3, <2>4, <2>5 DEF TurnInv
<1>11. CASE R!WaitEnds
  <2>1. /\ main = "wait" /\ main' = "read"
        /\ input_queue # << >> \/ shutdown
        /\ UNCHANGED <<pipe, input_queue, active_input, shutdown>>
    BY <1>2, <1>11 DEF R!WaitEnds
  <2>2. Resting => Resting'
    BY <2>1 DEF Resting
  <2>. QED  BY <1>1, <1>3, <2>1, <2>2, TurnCarries
<1>12. CASE R!Evaluate
  <2>1. R!Send("output") \/ UNCHANGED pipe
    BY <1>12 DEF R!Evaluate
  <2>2. main = "eval" /\ main' = "read" /\ UNCHANGED <<input_queue, active_input, shutdown>>
    BY <1>12 DEF R!Evaluate, R!inner
  <2>3. ~Resting /\ ~Told
    BY <2>2 DEF Resting, TurnInv
  <2>4. (Told' <=> Told) /\ (Reported' <=> Reported) /\ WaitLast'
    <3>1. CASE R!Send("output")
      <4>1. PICK m \in Messages : pipe' = Append(pipe, m) /\ m.type = "output"
        BY <1>0, <3>1, SendType
      <4>. QED  BY <1>0, <2>3, <4>1, PipeAppend DEF TurnInv
    <3>. QED  BY <1>3, <2>1, <3>1
  <2>. QED  BY <1>1, <2>2, <2>3, <2>4, TurnCarries
<1>13. CASE R!Interrupted
  <2>1. main = "eval" /\ main' = "read" /\ UNCHANGED <<pipe, input_queue, active_input, shutdown>>
    BY <1>13 DEF R!Interrupted, R!inner
  <2>2. ~Resting
    BY <2>1 DEF Resting
  <2>. QED  BY <1>1, <1>3, <2>1, <2>2, TurnCarries
<1>14. CASE R!FinishSessionEnd
  <2>1. /\ main = "exit" /\ main' = "ended" /\ input_queue' = << >> /\ active_input' = FALSE
        /\ pipe' = pipe \/ R!Send("session_end")
    BY <1>14 DEF R!FinishSessionEnd, StreamInv
  <2>2. Resting'
    BY <2>1 DEF Resting
  <2>3. (Told' <=> Told) /\ (Reported' <=> Reported) /\ WaitLast'
    <3>1. CASE R!Send("session_end")
      <4>1. PICK m \in Messages : pipe' = Append(pipe, m) /\ m.type = "session_end"
        BY <1>0, <3>1, SendType
      <4>. QED  BY <1>0, <4>1, PipeAppend DEF TurnInv
    <3>. QED  BY <1>3, <2>1, <3>1
  <2>. QED  BY <1>1, <2>1, <2>2, <2>3, TurnCarries
<1>15. CASE R!Exit \/ R!Crash
  <2>1. main' = "gone" /\ UNCHANGED <<pipe, input_queue, active_input, shutdown>>
    BY <1>15 DEF R!Exit, R!Crash, R!Die, R!inner
  <2>2. Resting => Resting'
    BY <2>1 DEF Resting
  <2>. QED  BY <1>1, <1>3, <2>1, <2>2, TurnCarries
<1>. QED  BY <1>4, <1>5, <1>6, <1>7, <1>8, <1>9, <1>10, <1>11, <1>12, <1>13, <1>14, <1>15
     DEF WorkerMain, WorkerCrash, R!MainThread

-----------------------------------------------------------------------------
(* The worker keeps to the protocol.                                       *)

\* A message added to a stream that has not ended.
LEMMA StreamAppend ==
  ASSUME SidebandType, StreamInv, NEW m \in Messages, pipe' = Append(pipe, m),
         UNCHANGED <<input, inbox>>, main \notin {"ended", "gone"}, ~protocol_failure',
         m.type \in {"worker_ready", "input_wait", "input_line", "output", "session_end"},
         m.type = "session_end" => main' = "ended",
         session_end_emitted' => session_end_emitted \/ main' = "ended",
         main = "setup" => m.type = "worker_ready"
  PROVE  StreamInv'
<1>0. pipe \in Seq(Messages)
  BY DEF SidebandType, TypeOK
<1>1. /\ \A k \in DOMAIN pipe : k \in DOMAIN pipe' /\ pipe'[k] = pipe[k]
      /\ \A k \in DOMAIN pipe' : k \in DOMAIN pipe \/ (k = Len(pipe') /\ pipe'[k] = m)
      /\ pipe' # << >>
      /\ pipe = << >> => Head(pipe') = m
      /\ pipe # << >> => Head(pipe') = Head(pipe)
  BY <1>0
<1>2. \A i \in DOMAIN pipe :
        pipe[i].type # "session_end"
        /\ pipe[i].type \in {"worker_ready", "input_wait", "input_line", "output", "session_end"}
  BY DEF StreamInv
<1>3. \A i \in DOMAIN pipe' :
       /\ pipe'[i].type \in
            {"worker_ready", "input_wait", "input_line", "output", "session_end"}
       /\ pipe'[i].type = "session_end" => i = Len(pipe') /\ main' \in {"ended", "gone"}
  BY <1>1, <1>2
<1>4. session_end_emitted' => main' \in {"ended", "gone"}
  BY DEF StreamInv
<1>5. ~input'.session_end_final
  BY DEF StreamInv
<1>6. ~inbox'.startup_message_seen => Head(pipe').type = "worker_ready"
  <2>1. CASE pipe = << >>
    <3>1. ~inbox.startup_message_seen => main = "setup"
      BY <2>1 DEF StreamInv
    <3>. QED  BY <1>1, <2>1, <3>1
  <2>2. CASE pipe # << >>
    BY <1>1, <2>2 DEF StreamInv
  <2>. QED  BY <2>1, <2>2
<1>7. input'.protocol_error = None
  BY DEF StreamInv
<1>. QED  BY <1>1, <1>3, <1>4, <1>5, <1>6, <1>7 DEF StreamInv

\* A step of the worker that sends nothing.
LEMMA StreamStays ==
  ASSUME StreamInv, UNCHANGED <<pipe, input, inbox, protocol_failure>>,
         session_end_emitted' => session_end_emitted \/ main' = "ended",
         main = "ended" => main' \in {"ended", "gone"},
         main = "gone" => main' = "gone",
         main' = main \/ main # "setup" \/ main' = "gone"
  PROVE  StreamInv'
BY DEF StreamInv

\* R's thread sends its messages in the order the server accepts.
LEMMA StreamMain ==
  ASSUME SidebandType, TurnInv, CalmInv, StreamInv, WorkerMain \/ WorkerCrash
  PROVE  StreamInv' /\ ~read_interrupted'
<1>0. /\ TypeOK /\ UNCHANGED <<input, inbox>> /\ ~read_interrupted /\ ~protocol_failure
  BY DEF SidebandType, WorkerMain, WorkerCrash, server, connection, CalmInv, StreamInv
<1>1. ASSUME NEW type \in {"worker_ready", "input_wait", "input_line", "output", "session_end"},
             R!Send(type), main \notin {"ended", "gone"}, UNCHANGED protocol_failure,
             type = "session_end" => main' = "ended",
             session_end_emitted' => session_end_emitted \/ main' = "ended",
             main = "setup" => type = "worker_ready"
      PROVE  StreamInv'
  <2>1. PICK m \in Messages : pipe' = Append(pipe, m) /\ m.type = type
    BY <1>0, <1>1, SendType
  <2>. QED  BY <1>0, <1>1, <2>1, StreamAppend
<1>2. CASE R!Setup \/ R!EmitInputLine \/ R!EmitInputWait
  BY <1>0, <1>1, <1>2 DEF R!Setup, R!EmitInputLine, R!EmitInputWait, R!inner
<1>3. CASE R!ReadInterrupted
  BY <1>0, <1>3 DEF R!ReadInterrupted
<1>4. CASE R!ReadPopLine \/ R!ReadShutdown \/ R!ReadWait \/ R!WaitEnds \/ R!Interrupted \/ R!Quit
  BY <1>0, <1>4, StreamStays DEF R!ReadPopLine, R!ReadShutdown, R!ReadWait, R!WaitEnds,
    R!Interrupted, R!Quit, R!inner
<1>5. CASE R!Evaluate
  BY <1>0, <1>1, <1>5, StreamStays DEF R!Evaluate, R!inner
<1>6. CASE R!FinishSessionEnd
  <2>1. /\ main = "exit" /\ main' = "ended" /\ UNCHANGED <<read_interrupted, protocol_failure>>
        /\ pipe' = pipe \/ R!Send("session_end")
    BY <1>0, <1>6 DEF R!FinishSessionEnd
  <2>. QED  BY <1>0, <1>1, <2>1, StreamStays
<1>7. CASE R!Exit \/ R!Crash
  BY <1>0, <1>7, StreamStays DEF R!Exit, R!Crash, R!Die, R!inner
<1>. QED  BY <1>2, <1>3, <1>4, <1>5, <1>6, <1>7 DEF WorkerMain, WorkerCrash, R!MainThread

\* The server's reader leaves such a stream behind.
LEMMA StreamReader ==
  ASSUME SidebandType, TurnInv, StreamInv, ServerReader
  PROVE  StreamInv'
<1>0. /\ pipe \in Seq(Messages) /\ UNCHANGED <<main, session_end_emitted, protocol_failure>>
      /\ Consumes \/ Keeps
  BY ReaderTurn DEF ServerReader, SidebandType, TypeOK, worker
<1>1. CASE Keeps
  BY <1>0, <1>1 DEF Keeps, StreamInv
<1>2. CASE Consumes
  <2>1. /\ \A k \in DOMAIN pipe' : k + 1 \in DOMAIN pipe /\ pipe'[k] = pipe[k + 1]
        /\ Len(pipe) = Len(pipe') + 1 /\ Len(pipe) \in Nat /\ Len(pipe') \in Nat
        /\ Head(pipe) = pipe[1] /\ 1 \in DOMAIN pipe
        /\ \A k \in DOMAIN pipe' : k \in Nat
        /\ Len(pipe') = 0 => pipe' = << >>
    BY <1>0, <1>2 DEF Consumes
  <2>2. \A i \in DOMAIN pipe' :
       /\ pipe'[i].type \in
            {"worker_ready", "input_wait", "input_line", "output", "session_end"}
       /\ pipe'[i].type = "session_end" => i = Len(pipe') /\ main' \in {"ended", "gone"}
    BY <1>0, <2>1 DEF StreamInv
  <2>3. input'.session_end_final => pipe' = << >> /\ main' \in {"ended", "gone"}
    <3>1. SUFFICES ASSUME pipe[1].type = "session_end"
                   PROVE  pipe' = << >> /\ main' \in {"ended", "gone"}
      BY <1>2, <2>1 DEF Consumes
    <3>2. 1 = Len(pipe) /\ main \in {"ended", "gone"}
      BY <2>1, <3>1 DEF StreamInv
    <3>. QED  BY <1>0, <2>1, <3>2
  <2>. QED  BY <1>0, <1>2, <2>2, <2>3 DEF Consumes, StreamInv
<1>. QED  BY <1>0, <1>1, <1>2

\* The manager does not touch the stream.
LEMMA StreamManager ==
  ASSUME StreamInv, ToWorkerOnly, Holds \/ Takes \/ Passes
  PROVE  StreamInv'
BY DEF StreamInv, ToWorkerOnly, Holds, Takes, Passes, Keeps, Admits, server, connection

\* Every step before the first Ctrl-C keeps SyncInv.
LEMMA SyncStep ==
  ASSUME SidebandType, PlaceInv, SyncInv, [SidebandNext]_sidebandVars
  PROVE  SyncInv'
<1>. SUFFICES ASSUME clock' = 0 PROVE TurnInv' /\ StreamInv' /\ CalmInv'
  BY DEF SyncInv
<1>0. TypeOK /\ WorkerType
  BY DEF SidebandType
<1>1. CASE ManagerStep
  <2>1. Holds \/ Takes \/ Passes
    BY <1>1, ManagerTurn
  <2>2. clock = 0
    BY <2>1 DEF Holds, Takes, Passes, Keeps, Admits, server, request
  <2>3. TurnInv /\ StreamInv /\ CalmInv /\ ToWorkerOnly
    BY <1>1, <2>2, ManagerLeavesWorker DEF SyncInv
  <2>4. TurnInv' /\ StreamInv'
    BY <2>1, <2>3, TurnManager, StreamManager
  <2>5. \A i \in DOMAIN to_worker' : to_worker'[i].type # "interrupt"
    <3>1. to_worker' = to_worker \/ \E m : to_worker' = Append(to_worker, m) /\ m.type # "interrupt"
      BY <2>1 DEF Holds, Takes, Passes
    <3>. QED  BY <1>0, <2>3, <3>1 DEF CalmInv, WorkerType
  <2>. QED  BY <1>1, <2>3, <2>4, <2>5, CalmManager DEF CalmInv, ToWorkerOnly
<1>2. CASE ServerReader
  <2>1. UNCHANGED <<worker, manage>> /\ clock' = clock
    BY <1>0, <1>2, ReaderEffects DEF ServerReader, Quiet, Readied, Armed, Observed, request
  <2>2. TurnInv /\ StreamInv /\ CalmInv
    BY <2>1 DEF SyncInv
  <2>3. CalmInv'
    BY <2>1, <2>2 DEF CalmInv, worker, manage
  <2>. QED  BY <1>2, <2>2, <2>3, TurnReader, StreamReader
<1>3. CASE WorkerIpc
  <2>1. UNCHANGED <<server, manage>> /\ to_worker # << >> /\ to_worker' = Tail(to_worker)
    BY <1>3 DEF WorkerIpc, R!IpcThread, R!ReceiveInputBatch, R!ReceiveInterrupt,
      R!ReceiveShutdown, R!Receive
  <2>2. TurnInv /\ StreamInv /\ CalmInv
    BY <2>1 DEF SyncInv, server, request
  <2>3. /\ TurnInv' /\ ~read_interrupted'
        /\ UNCHANGED <<pipe, session_end_emitted, protocol_failure, main>>
    BY <1>3, <2>2, TurnIpc DEF CalmInv
  <2>4. StreamInv'
    BY <2>1, <2>2, <2>3, StreamStays DEF server, connection
  <2>5. \A k \in DOMAIN to_worker' : k + 1 \in DOMAIN to_worker /\ to_worker'[k] = to_worker[k + 1]
    BY <1>0, <2>1 DEF WorkerType
  <2>. QED  BY <2>1, <2>2, <2>3, <2>4, <2>5 DEF CalmInv, manage
<1>4. CASE WorkerMain \/ WorkerCrash
  <2>1. UNCHANGED <<server, manage, to_worker>>
    BY <1>4 DEF WorkerMain, WorkerCrash, R!MainThread, R!Setup, R!ReadInterrupted,
      R!ReadPopLine, R!EmitInputLine, R!ReadShutdown, R!ReadWait, R!EmitInputWait, R!WaitEnds,
      R!Evaluate, R!Interrupted, R!Quit, R!FinishSessionEnd, R!Exit, R!Crash, R!Die
  <2>2. TurnInv /\ StreamInv /\ CalmInv
    BY <2>1 DEF SyncInv, server, request
  <2>3. TurnInv' /\ StreamInv' /\ ~read_interrupted'
    BY <1>4, <2>2, TurnMain, StreamMain
  <2>. QED  BY <2>1, <2>2, <2>3 DEF CalmInv, manage
<1>5. CASE UNCHANGED sidebandVars
  <2>. USE <1>5 DEF sidebandVars, server, connection, request, worker, manage
  <2>1. TurnInv /\ StreamInv /\ CalmInv
    BY DEF SyncInv
  <2>2. CalmInv' /\ StreamInv'
    BY <2>1 DEF CalmInv, StreamInv
  <2>3. TurnInv'
    BY <2>1 DEF TurnInv, Resting, Ready, Admitting, At, Got, Sent, Told, Reported, Turned,
      CompletedWith, OneBatch, WaitLast
  <2>. QED  BY <2>2, <2>3
<1>. QED  BY <1>1, <1>2, <1>3, <1>4, <1>5 DEF SidebandNext, Finished

\* The turn is with the starting worker at first.
LEMMA SyncInit == SidebandInit => PlaceInv /\ SyncInv
<1>. SUFFICES ASSUME SidebandInit PROVE PlaceInv /\ SyncInv
  OBVIOUS
<1>. USE DEF SidebandInit, Init, R!Init
<1>1. PlaceInv
  BY DEF PlaceInv, At, Waits
<1>2. CalmInv
  BY DEF CalmInv
<1>3. StreamInv
  BY DEF StreamInv, DefaultInputState, DefaultInbox
<1>4. TurnInv
  BY DEF TurnInv, Ready, Admitting, At, Sent, Told, Reported, Turned, CompletedWith, OneBatch,
    WaitLast, NoReturn, Returned, DefaultInputState
<1>. QED  BY <1>1, <1>2, <1>3, <1>4 DEF SyncInv

\* As long as no Ctrl-C is pressed, a batch the server reports complete has
\* been read by R to its last line, the server refuses nothing the worker
\* sends and the worker never receives a batch while one is active: between
\* the two ends the turn is always in exactly one place.
THEOREM CompletionCorrect == SidebandSpec => []CompletedMeansRead
<1>1. /\ SidebandType /\ PlaceInv /\ SyncInv /\ [SidebandNext]_sidebandVars
      => SidebandType' /\ PlaceInv' /\ SyncInv'
  BY SidebandTypeStep, PlaceStep, SyncStep
<1>2. SidebandType /\ SyncInv => CompletedMeansRead
  <2>. SUFFICES ASSUME SyncInv, clock = 0
       PROVE  CompletionMeansRead /\ input.protocol_error = None /\ ~protocol_failure
    BY DEF CompletedMeansRead
  <2>1. TurnInv /\ StreamInv
    BY DEF SyncInv
  <2>2. CompletedWith("Ok") => input_queue = << >> /\ ~Sent
    BY <2>1 DEF TurnInv, Turned
  <2>3. CompletionMeansRead
    BY <2>2 DEF CompletionMeansRead, InFlight, Unread, Sent, IsBatch
  <2>. QED  BY <2>1, <2>3 DEF StreamInv
<1>. QED  BY <1>1, <1>2, SidebandTypeInit, SyncInit, PTL DEF SidebandSpec
=============================================================================
