----------------------------- MODULE InputState -----------------------------
(***************************************************************************)
(* The readiness record the server keeps for one worker connection         *)
(* (struct InputState): whether an input batch is active, whether the      *)
(* worker has said it can take another one, and the terminal facts, a      *)
(* protocol error and the end of the session.                              *)
(*                                                                         *)
(* One operator per method, each a function of the record.  An             *)
(* Option<Instant> is a natural number or None; the text of an error is    *)
(* left out, so a latched error is the instant it was observed at.         *)
(***************************************************************************)
EXTENDS Integers

\* Option::None for an instant.
None == -1

Instant == Nat
Option(S) == S \union {None}

InputStates ==
  [active: BOOLEAN,
   ready_for_input: BOOLEAN,
   ready_from_input_wait: BOOLEAN,
   ready_observed_at: Option(Instant),
   completed_observed_at: Option(Instant),
   protocol_error: Option(Instant),
   session_end: BOOLEAN,
   session_end_final: BOOLEAN]

DefaultInputState ==
  [active |-> FALSE,
   ready_for_input |-> FALSE,
   ready_from_input_wait |-> FALSE,
   ready_observed_at |-> None,
   completed_observed_at |-> None,
   protocol_error |-> None,
   session_end |-> FALSE,
   session_end_final |-> FALSE]

\* The Ok result; its only caller has just checked ready_for_input.
begin_input(s) ==
  [s EXCEPT !.active = TRUE,
            !.ready_for_input = FALSE,
            !.ready_from_input_wait = FALSE,
            !.completed_observed_at = None]

clear_request_progress(s) ==
  [s EXCEPT !.active = FALSE, !.completed_observed_at = None]

readiness_observed_after(s, since) ==
  s.ready_for_input /\ s.ready_observed_at # None /\ s.ready_observed_at > since

input_wait_readiness_available(s) ==
  s.ready_for_input /\ s.ready_from_input_wait

\* Whether an input_line may be reported now.
validate_active_input(s) ==
  s.active /\ s.completed_observed_at = None

\* Mutant: readiness does not complete the active batch.
record_ready_only(s, now, from_input_wait) ==
  [s EXCEPT !.ready_for_input = TRUE,
            !.ready_from_input_wait = from_input_wait,
            !.ready_observed_at = now]

record_ready_at(s, now, from_input_wait) ==
  [s EXCEPT !.ready_for_input = TRUE,
            !.ready_from_input_wait = from_input_wait,
            !.ready_observed_at = now,
            !.completed_observed_at = IF s.active THEN now ELSE @]

\* Mutant: any readiness on record completes the batch.
input_completion_any_ready(s) ==
  s.active /\ s.ready_observed_at # None

input_completion_ready(s) ==
  s.active /\ s.completed_observed_at # None

\* Mutant: a completion of the same instant as the error is lost.
input_completion_strictly_precedes(s) ==
  /\ s.protocol_error # None
  /\ input_completion_ready(s)
  /\ s.completed_observed_at < s.protocol_error

input_completion_precedes_protocol_error(s) ==
  /\ s.protocol_error # None
  /\ input_completion_ready(s)
  /\ s.completed_observed_at <= s.protocol_error

latch_protocol_error(s, now) == [s EXCEPT !.protocol_error = now]

take_protocol_error(s) == [s EXCEPT !.protocol_error = None]

note_session_end(s) ==
  [s EXCEPT !.session_end = TRUE, !.session_end_final = TRUE]

take_session_end_flag(s) == [s EXCEPT !.session_end = FALSE]
=============================================================================
