----------------------------- MODULE ManagerState -----------------------------
(***************************************************************************)
(* The fields of struct WorkerManager (files mode, Unix) together with     *)
(* what they stand for outside it: the worker process, its sideband, its   *)
(* guardrail thread and the pending output tape.  A `&mut self` method is  *)
(* an operator from a state to the next; where it may fail, the parameter  *)
(* `ok` says whether the spawn it ends with succeeds.                      *)
(*                                                                         *)
(* Output is a sequence of items: a positive number is a piece of worker   *)
(* output, numbered in the order of production, and Notice is text the     *)
(* server adds.  Prompts, status lines and formatting are left out.        *)
(***************************************************************************)
EXTENDS Integers, Sequences

CONSTANTS
  None,           \* an absent Option
  Policies,       \* sandbox policies
  DefaultPolicy   \* sandbox_defaults

ASSUME PolicyAssumption ==
  /\ DefaultPolicy \in Policies
  /\ None \notin Policies \union {"done", "ended"}

Notice == 0

\* inherit: the sandbox plan takes its policy from each call's metadata.
\* batch: none, running or done.  fault: what a wait for the completion of
\* the batch can meet besides it: ended (session_end read), error (a
\* protocol error latched), gone (the stream closed); taken and mute are
\* what is left when one of the first two has been reported.  guard: off,
\* watching, then busy or idle (what it found), then kill; guardrail_event:
\* none, busy or idle.  settled_pending_completion: None, done or ended.
NewManager(inherit) ==
  [inherit |-> inherit, process |-> FALSE, alive |-> FALSE, worker_policy |-> None,
   batch |-> "none", fault |-> "none", guard |-> "off",
   guardrail_event |-> "none", guardrail_busy |-> FALSE,
   tape |-> << >>, pending_request |-> FALSE, pending_request_input |-> FALSE,
   session_end_seen |-> FALSE, settled_pending_completion |-> None,
   settled_pending_error |-> FALSE, preserved_detached_prefix |-> << >>,
   reply_owned_prefix |-> << >>, next_live_prefix_belongs_to_reply |-> FALSE,
   pending_server_notice |-> FALSE, sandbox_state |-> DefaultPolicy,
   inherited_sandbox_state |-> FALSE, last_spawn |-> FALSE]

is_running(t) == t.process /\ t.alive

missing_inherited_sandbox_state(t) == t.inherit /\ ~t.inherited_sandbox_state

-----------------------------------------------------------------------------
(* The process.                                                            *)

\* kill, shutdown_graceful, finish_exited: the process and its threads are
\* gone.  Joining a guardrail thread that has made up its mind lets it
\* leave its event first.
DropProcess(t) ==
  [t EXCEPT !.process = FALSE, !.alive = FALSE, !.worker_policy = None,
            !.batch = "none", !.fault = "none", !.guard = "off",
            !.guardrail_event = IF @ = "none" /\ t.guard \in {"busy", "idle"}
                                THEN t.guard ELSE @]

spawn_process(t, ok) ==
  IF ok THEN [t EXCEPT !.process = TRUE, !.alive = TRUE, !.guard = "watching",
                       !.worker_policy = t.sandbox_state, !.last_spawn = TRUE]
  ELSE t

-----------------------------------------------------------------------------
(* Output and request state.                                               *)

clear_pending_request_state(t) ==
  [t EXCEPT !.pending_request = FALSE, !.settled_pending_completion = None,
            !.settled_pending_error = FALSE, !.guardrail_busy = FALSE]

reset_output_state(t, clear) ==
  [clear_pending_request_state(t) EXCEPT
     !.tape = IF clear THEN << >> ELSE @,
     !.pending_request_input = FALSE, !.session_end_seen = FALSE]

note_session_end(t, include_notice) ==
  [t EXCEPT !.session_end_seen = TRUE,
            !.tape = IF include_notice /\ t.process THEN Append(@, Notice) ELSE @]

clear_preserved_prefixes(t) ==
  [t EXCEPT !.preserved_detached_prefix = << >>, !.reply_owned_prefix = << >>,
            !.next_live_prefix_belongs_to_reply = FALSE]

\* Mutant: what is on the tape goes before what was preserved earlier.
InputContext_tape_first(t) ==
  t.tape \o t.preserved_detached_prefix \o t.reply_owned_prefix

\* The items that a new request shows before its own, and what is left.
InputContext(t) ==
  IF t.next_live_prefix_belongs_to_reply
  THEN t.preserved_detached_prefix \o t.reply_owned_prefix \o t.tape
  ELSE t.preserved_detached_prefix \o t.tape \o t.reply_owned_prefix

prepare_input_context(t) ==
  [clear_preserved_prefixes(t) EXCEPT
     !.tape = << >>, !.settled_pending_completion = None]

stage_prefix_before_respawn(t) ==
  IF t.next_live_prefix_belongs_to_reply
  THEN [t EXCEPT !.reply_owned_prefix = @ \o t.tape,
                 !.next_live_prefix_belongs_to_reply = FALSE]
  ELSE [t EXCEPT !.preserved_detached_prefix = @ \o t.tape]

\* seed_aborted_files_completion_for_respawn only gives a prompt to the
\* completion that take_current_prefix then consumes.
reset_output_state_preserving_detached_output(t) ==
  reset_output_state(stage_prefix_before_respawn(t), TRUE)

has_detached_output_to_preserve(t) ==
  t.tape # << >> \/ t.settled_pending_completion # None

maybe_emit_pending_server_notice(t) ==
  IF t.pending_server_notice
  THEN [t EXCEPT !.pending_server_notice = FALSE, !.tape = Append(@, Notice)]
  ELSE t

maybe_emit_guardrail_notice(t) ==
  LET u == maybe_emit_pending_server_notice(t) IN
  IF u.guardrail_event = "idle"
  THEN [u EXCEPT !.guardrail_event = "none", !.tape = Append(@, Notice)]
  ELSE u

clear_guardrail_busy_event(t) ==
  IF t.guardrail_event = "busy"
  THEN [t EXCEPT !.guardrail_event = "none", !.guardrail_busy = FALSE]
  ELSE t

-----------------------------------------------------------------------------
(* Respawns.                                                             *)

ensure_process(t, ok) ==
  IF missing_inherited_sandbox_state(t) \/ is_running(t) THEN t
  ELSE spawn_process(reset_output_state(DropProcess(t), FALSE), ok)

reset(t, ok) ==
  LET u == DropProcess(t) IN
  IF missing_inherited_sandbox_state(t) THEN u
  ELSE spawn_process(reset_output_state(u, TRUE), ok)

maybe_reset_after_session_end(t, ok) ==
  IF t.session_end_seen THEN [reset(t, ok) EXCEPT !.session_end_seen = FALSE] ELSE t

-----------------------------------------------------------------------------
(* Sandbox policy.  An update of None is no update.                        *)

stage_sandbox_state_update(t, update) ==
  IF update = None THEN t
  ELSE [t EXCEPT !.sandbox_state = update, !.inherited_sandbox_state = TRUE]

requires_restart(t, update) == update # None /\ update # t.sandbox_state

\* update_sandbox_state ends in a spawn, which may fail.
update_spawns(t, update) ==
  /\ update # None
  /\ requires_restart(t, update) \/ (missing_inherited_sandbox_state(t) /\ ~t.process)

restart_worker_after_sandbox_state_change(t, ok) ==
  LET u == DropProcess(t) IN
  spawn_process(IF has_detached_output_to_preserve(u)
                THEN reset_output_state_preserving_detached_output(u)
                ELSE reset_output_state(u, TRUE), ok)

\* Mutant: the policy changes and the worker stays.
update_sandbox_state_stages(t, update, ok) == stage_sandbox_state_update(t, update)

update_sandbox_state(t, update, ok) ==
  LET u == stage_sandbox_state_update(t, update) IN
  IF requires_restart(t, update)
  THEN LET v == restart_worker_after_sandbox_state_change(u, ok) IN
       IF ok /\ t.last_spawn
       THEN [v EXCEPT !.pending_server_notice = TRUE,
                      !.next_live_prefix_belongs_to_reply = TRUE]
       ELSE v
  ELSE IF update_spawns(t, update)
       THEN spawn_process(reset_output_state(u, TRUE), ok)
       ELSE u

-----------------------------------------------------------------------------
(* The completion of the batch.                                            *)

\* ipc.wait_for_request_completion: a completion is hidden by a session end
\* and by nothing else.
CompletionAnswer(t) ==
  IF t.batch = "done" /\ t.fault # "ended" THEN "Ok"
  ELSE CASE t.fault = "ended" -> "SessionEnd"
         [] t.fault = "error" -> "Protocol"
         [] t.fault = "gone" -> "Disconnected"
         [] OTHER -> "Wait"

\* What returning that answer takes out of the connection.
TakeAnswer(t) ==
  CASE CompletionAnswer(t) = "Ok" -> [t EXCEPT !.batch = "none"]
    [] CompletionAnswer(t) = "SessionEnd" -> [t EXCEPT !.fault = "taken"]
    [] CompletionAnswer(t) = "Protocol" -> [t EXCEPT !.fault = "mute"]
    [] OTHER -> t

take_protocol_error(t) == IF t.fault = "error" THEN [t EXCEPT !.fault = "mute"] ELSE t

settle_pending_session_end(t) ==
  [clear_pending_request_state(note_session_end(t, TRUE)) EXCEPT
     !.settled_pending_completion = "ended"]

\* Mutant: a completion found between calls is not kept for the next one.
resolve_timeout_marker_forgets(t) ==
  IF t.pending_request /\ t.process /\ CompletionAnswer(t) = "Ok"
  THEN clear_pending_request_state(TakeAnswer(t)) ELSE t

resolve_timeout_marker(t) ==
  LET u == TakeAnswer(t) IN
  IF ~t.pending_request \/ t.settled_pending_error \/ ~t.process THEN t
  ELSE CASE CompletionAnswer(t) = "Ok" ->
              IF t.alive
              THEN [clear_pending_request_state(u) EXCEPT
                      !.settled_pending_completion = "done"]
              ELSE settle_pending_session_end(u)
         [] CompletionAnswer(t) = "SessionEnd" -> settle_pending_session_end(u)
         [] CompletionAnswer(t) = "Protocol" -> [u EXCEPT !.settled_pending_error = TRUE]
         [] OTHER -> IF t.alive THEN t ELSE settle_pending_session_end(t)
=============================================================================
