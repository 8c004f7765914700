----------------------------- MODULE ServerInbox -----------------------------
(***************************************************************************)
(* The mailbox one worker connection shares between its reader thread and  *)
(* the request thread (struct ServerIpcInbox) and the helper functions     *)
(* both run while they hold its lock.  The InputState inside it is kept as *)
(* a record of its own, so a helper that touches both is given as a pair   *)
(* of operators, one per record.                                           *)
(*                                                                         *)
(* queue is a VecDeque that is only ever searched for the first message of *)
(* one type, so it is the number of messages of each type.  The image-id   *)
(* fields are read and written by assign_output_image_id alone and are     *)
(* left out.  protocol_warnings is only ever cleared; it is left out too.  *)
(***************************************************************************)
EXTENDS InputState, Sequences

CONSTANTS
  Prompts,           \* prompt texts a worker may report
  NoPrompt,          \* Option::None for a prompt
  MaxPromptHistory   \* MAX_PROMPT_HISTORY (16 in the code)

ASSUME PromptAssumption ==
  NoPrompt \notin Prompts /\ MaxPromptHistory \in Nat \ {0}

Inboxes ==
  [queued_worker_ready: Nat,
   queued_session_end: Nat,
   startup_message_seen: BOOLEAN,
   last_prompt: Prompts \union {NoPrompt},
   prompt_history: Seq(Prompts),
   input_line_events: Nat,
   readline_result_count: Nat,
   interrupt_started_at: Option(Instant),
   interrupt_armed_at: Option(Instant),
   interrupt_complete_at: Option(Instant),
   readiness_after_interrupt: BOOLEAN,
   disconnected: BOOLEAN]

DefaultInbox ==
  [queued_worker_ready |-> 0,
   queued_session_end |-> 0,
   startup_message_seen |-> FALSE,
   last_prompt |-> NoPrompt,
   prompt_history |-> << >>,
   input_line_events |-> 0,
   readline_result_count |-> 0,
   interrupt_started_at |-> None,
   interrupt_armed_at |-> None,
   interrupt_complete_at |-> None,
   readiness_after_interrupt |-> FALSE,
   disconnected |-> FALSE]

-----------------------------------------------------------------------------
(* The history of prompts of one request: no two equal neighbours, and the *)
(* oldest one goes when the limit is passed.                               *)

push_prompt_history(history, prompt) ==
  IF history # << >> /\ history[Len(history)] = prompt THEN history
  ELSE IF Len(history) >= MaxPromptHistory THEN Append(Tail(history), prompt)
  ELSE Append(history, prompt)

-----------------------------------------------------------------------------
(* The interrupt transaction of built-in Windows workers.                  *)

begin_interrupt_transaction(box, started_at) ==
  [box EXCEPT !.interrupt_started_at = started_at,
              !.interrupt_armed_at = None,
              !.interrupt_complete_at = None,
              !.readiness_after_interrupt = FALSE]

interrupt_transaction_pending(box) == box.interrupt_started_at # None

interrupt_transaction_armed(box) ==
  /\ box.interrupt_started_at # None
  /\ box.interrupt_armed_at # None
  /\ box.interrupt_armed_at >= box.interrupt_started_at

\* Mutant: the readiness after interrupt_complete is not waited for.
interrupt_transaction_observed(box) ==
  /\ interrupt_transaction_armed(box)
  /\ box.interrupt_complete_at # None
  /\ box.interrupt_complete_at >= box.interrupt_started_at

interrupt_transaction_settled(box) ==
  /\ interrupt_transaction_armed(box)
  /\ box.interrupt_complete_at # None
  /\ box.interrupt_complete_at >= box.interrupt_started_at
  /\ box.readiness_after_interrupt

interrupt_transaction_blocks_request_completion(box) ==
  interrupt_transaction_pending(box) /\ ~interrupt_transaction_settled(box)

\* Read after the transaction may already have been cleared.
interrupt_transaction_settled_since(box, since) ==
  /\ box.interrupt_armed_at # None /\ box.interrupt_armed_at >= since
  /\ box.interrupt_complete_at # None /\ box.interrupt_complete_at >= since
  /\ box.readiness_after_interrupt

\* What a readiness message, input_wait or ready, does to the transaction.
note_readiness(box) ==
  [box EXCEPT !.readiness_after_interrupt =
     @ \/ (box.interrupt_started_at # None /\ box.interrupt_complete_at # None)]

-----------------------------------------------------------------------------
(* Completion of the active request.                                       *)

request_completion_ready(in, box) ==
  /\ ~interrupt_transaction_blocks_request_completion(box)
  /\ input_completion_ready(in)

request_completion_precedes_latched_protocol_error(in, box) ==
  /\ ~interrupt_transaction_blocks_request_completion(box)
  /\ input_completion_precedes_protocol_error(in)

reset_request_progress(box) == [box EXCEPT !.readline_result_count = 0]

reset_after_completed_request(box) ==
  [reset_request_progress(box) EXCEPT !.last_prompt = NoPrompt]

\* What begin_input_when_ready clears once it has found the worker ready.
start_request_records(box) ==
  [box EXCEPT !.last_prompt = NoPrompt,
              !.input_line_events = 0,
              !.prompt_history = << >>]

-----------------------------------------------------------------------------
(* The queue.                                                              *)

take_session_end(box) ==
  [box EXCEPT !.queued_session_end = IF @ > 0 THEN @ - 1 ELSE @]

take_worker_ready(box) == [box EXCEPT !.queued_worker_ready = @ - 1]
=============================================================================
