----------------------------- MODULE WorkerManager -----------------------------
(***************************************************************************)
(* One repl tool call after another against the worker manager (files      *)
(* mode, Unix): run_write_input in the server, write_stdin and everything  *)
(* below it in the manager.  The server lock admits one call at a time; a  *)
(* call is several steps, and between them the worker, its sideband and    *)
(* its guardrail thread move on their own.                                 *)
(*                                                                         *)
(* A wait has a deadline and may be answered by it at any time, also by a  *)
(* zero one (driver_wait_for_completion).  A completion counts once it is  *)
(* stable.                                                                 *)
(***************************************************************************)
EXTENDS ManagerState, Functions

CONSTANT
  Setups   \* servers and environments to check, each with its own bounds

\* session_end: the session ends in a batch, as quit() does; late_end: it
\* ends while the worker waits for input; late_warm: a call takes the lock
\* before the warm-start thread does.
AllFailures == {"spawn", "send", "interrupt", "exit", "session_end", "late_end",
                "error", "gone", "guardrail", "late_warm"}

\* inherit: the server's sandbox plan; failures: which of AllFailures may
\* happen; the bounds are on tool calls, pieces of worker output and
\* requests the worker accepts.
ASSUME SetupAssumption ==
  \A u \in Setups :
    /\ DOMAIN u = {"inherit", "failures", "max_calls", "max_items", "max_requests"}
    /\ u.inherit \in BOOLEAN
    /\ u.failures \subseteq AllFailures
    /\ {u.max_calls, u.max_items, u.max_requests} \subseteq Nat

VARIABLES
  setup,   \* which of Setups this is
  s,       \* the manager
  pc,      \* where the call is
  call,    \* the call's input, options and what it holds so far
  items,   \* pieces of output produced
  req,     \* requests accepted
  calls,   \* tool calls made
  warm,    \* the warm-start thread has had its turn
  shown,   \* history: the items given to the client
  owed     \* history: accepted requests whose outcome the client was not told

vars == <<setup, s, pc, call, items, req, calls, warm, shown, owed>>

\* control: the call's prefix (none, interrupt, restart); tail: whether there
\* is text after it; meta: the policy in its metadata, or None; held: the
\* reply of the control prefix; context: the reply's detached prefix;
\* in_control: the poll answers an interrupt; told: what is held says how
\* the last request ended.
NewCall(control, tail, meta) ==
  [control |-> control, tail |-> tail, meta |-> meta, prechecked |-> TRUE,
   retried |-> FALSE,
   deferred |-> None, suppress |-> FALSE, stage_after |-> FALSE,
   in_control |-> FALSE, told |-> FALSE, held |-> << >>, context |-> << >>]

NoCall == NewCall("none", FALSE, None)

Init ==
  /\ setup \in Setups
  /\ s = NewManager(setup.inherit) /\ pc = "idle" /\ call = NoCall
  /\ items = 0 /\ req = 0 /\ calls = 0 /\ warm = FALSE
  /\ shown = << >> /\ owed = {}

-----------------------------------------------------------------------------
(* The worker, its sideband and its guardrail thread.                      *)

ManagerOnly == UNCHANGED <<setup, pc, call, items, req, calls, warm, shown, owed>>

Produce ==
  /\ is_running(s) /\ items < setup.max_items
  /\ items' = items + 1
  /\ s' = [s EXCEPT !.tape = Append(@, items')]
  /\ UNCHANGED <<setup, pc, call, req, calls, warm, shown, owed>>

Complete ==
  /\ is_running(s) /\ s.batch = "running" /\ s.fault = "none"
  /\ s' = [s EXCEPT !.batch = "done"]
  /\ ManagerOnly

SessionEnds ==
  /\ is_running(s) /\ s.fault = "none"
  /\ (IF s.batch = "running" THEN "session_end" ELSE "late_end") \in setup.failures
  /\ s' = [s EXCEPT !.fault = "ended"]
  /\ ManagerOnly

SidebandError ==
  /\ "error" \in setup.failures /\ is_running(s) /\ s.fault = "none"
  /\ s' = [s EXCEPT !.fault = "error"]
  /\ ManagerOnly

\* The stream closes; it does when the worker exits, and may before.
Disconnect ==
  /\ s.process /\ s.fault \in {"none", "taken"}
  /\ ~s.alive \/ "gone" \in setup.failures
  /\ s' = [s EXCEPT !.fault = "gone"]
  /\ ManagerOnly

Exit ==
  /\ is_running(s)
  /\ "exit" \in setup.failures \/ s.fault \in {"ended", "taken"}
  /\ s' = [s EXCEPT !.alive = FALSE]
  /\ ManagerOnly

\* The guardrail thread reads `busy`, measures, and later acts on it: it
\* leaves its event, unless there is one, and then kills the worker.
GuardrailDecides ==
  /\ "guardrail" \in setup.failures /\ is_running(s) /\ s.guard = "watching"
  /\ s' = [s EXCEPT !.guard = IF s.guardrail_busy THEN "busy" ELSE "idle"]
  /\ ManagerOnly

GuardrailNotes ==
  /\ s.process /\ s.guard \in {"busy", "idle"}
  /\ s' = [s EXCEPT !.guard = "kill",
                    !.guardrail_event = IF @ = "none" THEN s.guard ELSE @]
  /\ ManagerOnly

GuardrailKills ==
  /\ s.process /\ s.guard = "kill"
  /\ s' = [s EXCEPT !.guard = "off", !.alive = FALSE]
  /\ ManagerOnly

-----------------------------------------------------------------------------
(* Replies.                                                                *)

SpawnOutcomes == IF "spawn" \in setup.failures THEN BOOLEAN ELSE {TRUE}

\* The requests still to be told of after a reply that tells, or not, how
\* the last one ended.
Untold(tells) == IF tells \/ call.told THEN {} ELSE owed

\* The call ends with a reply that shows `contents`.
Reply(t, contents, open) ==
  /\ s' = t /\ pc' = "idle" /\ call' = NoCall
  /\ shown' = shown \o call.held \o contents
  /\ owed' = open
  /\ UNCHANGED <<setup, items, req, calls, warm>>

\* The call ends with an error; what it held is dropped.
Fail(t, open) ==
  /\ s' = t /\ pc' = "idle" /\ call' = NoCall
  /\ owed' = open
  /\ UNCHANGED <<setup, items, req, calls, warm, shown>>

\* prechecked_follow_up_requires_meta_error: run_write_input tries again,
\* once; what the attempt held is dropped.
RequiresMeta(t) ==
  /\ s' = t /\ pc' = IF call.retried THEN "idle" ELSE "retry"
  /\ call' = IF call.retried THEN NoCall
             ELSE [call EXCEPT !.held = << >>, !.context = << >>,
                               !.in_control = FALSE, !.told = FALSE]
  /\ UNCHANGED <<setup, items, req, calls, warm, shown, owed>>

Goto(place, t, c) ==
  /\ s' = t /\ pc' = place /\ call' = c
  /\ UNCHANGED <<setup, items, req, calls, warm, shown, owed>>

-----------------------------------------------------------------------------
(* run_write_input: what is done with the metadata before the input.       *)

Empty == call.control = "none" /\ ~call.tail
BareInterrupt == call.control = "interrupt" /\ ~call.tail
MetaMissing == s.inherit /\ call.meta = None

empty_input_polls_existing_output(t) ==
  t.pending_request \/ t.tape # << >> \/ t.settled_pending_completion # None

empty_input_may_auto_reset_after_poll(t) ==
  /\ empty_input_polls_existing_output(t)
  /\ \/ t.pending_request
     \/ t.settled_pending_completion # None
     \/ t.session_end_seen

empty_input_requires_spawn(t) ==
  /\ ~empty_input_polls_existing_output(t)
  /\ t.guardrail_event # "busy"
  /\ ~is_running(t)

\* The calls that run under their own metadata before anything else.
AppliesMeta(t) ==
  IF Empty THEN empty_input_requires_spawn(t)
  ELSE call.control # "restart" /\ ~BareInterrupt

\* The calls that only drain: without metadata they must not respawn.
DrainsOnly(t) ==
  IF Empty THEN empty_input_may_auto_reset_after_poll(t) ELSE BareInterrupt

\* Text after a control prefix survives a respawn, the prefix does not.
normalize_input_after_sandbox_respawn(c) ==
  IF c.control = "restart" /\ ~c.tail THEN c ELSE [c EXCEPT !.control = "none"]

ToolCall(control, tail, meta) ==
  /\ pc = "idle" /\ calls < setup.max_calls
  /\ tail => req < setup.max_requests
  /\ ~s.inherit => meta = None
  /\ s' = resolve_timeout_marker(s)
  /\ pc' = "called"
  /\ call' = NewCall(control, tail, meta)
  /\ calls' = calls + 1
  /\ UNCHANGED <<setup, items, req, warm, shown, owed>>

\* refresh_timeout_marker_with_wait
Rechecked == IF Empty THEN s ELSE resolve_timeout_marker(s)

RejectCall ==
  /\ pc = "called" /\ MetaMissing
  /\ AppliesMeta(Rechecked) \/ call.control = "restart"
  /\ s' = Rechecked /\ pc' = "idle" /\ call' = NoCall
  /\ UNCHANGED <<setup, items, req, calls, warm, shown, owed>>

\* apply_tool_call_sandbox_state, then on with c.
ApplyMeta(t, c, ok) ==
  LET u == update_sandbox_state(t, call.meta, ok)
      respawned == update_spawns(t, call.meta) IN
  IF respawned /\ ~ok THEN Fail(u, {})
  ELSE Goto("write", u, IF respawned THEN normalize_input_after_sandbox_respawn(c) ELSE c)

ApplyCallMeta(ok) ==
  /\ pc = "called" /\ ~MetaMissing /\ AppliesMeta(Rechecked)
  /\ ApplyMeta(Rechecked, call, ok)

DeferCallMeta ==
  /\ pc = "called" /\ ~AppliesMeta(Rechecked)
  /\ MetaMissing => call.control # "restart"
  /\ Goto("write", Rechecked,
          [call EXCEPT !.deferred = call.meta,
                       !.suppress = MetaMissing /\ DrainsOnly(Rechecked)])

\* Mutant: the second attempt is the first one again.
Retry_unmarked(ok) ==
  /\ pc = "retry"
  /\ IF MetaMissing THEN Fail(s, owed)
     ELSE ApplyMeta(s, [call EXCEPT !.deferred = None, !.suppress = FALSE,
                                    !.stage_after = FALSE], ok)

\* run_write_input's second attempt, under the call's metadata.
Retry(ok) ==
  /\ pc = "retry"
  /\ IF MetaMissing THEN Fail(s, owed)
     ELSE ApplyMeta(s, [call EXCEPT !.retried = TRUE, !.prechecked = FALSE,
                                    !.deferred = None, !.suppress = FALSE,
                                    !.stage_after = FALSE], ok)

-----------------------------------------------------------------------------
(* write_stdin_files: the control prefix.                                  *)

stage_session_end_needs_meta(update, prechecked) ==
  prechecked /\ update = None /\ s.inherit

\* maybe_reset_after_session_end_with_options; where it fails the caller
\* has checked needs_meta first.
ResetNeedsMeta(t, c) ==
  t.session_end_seen /\ ~c.suppress /\ stage_session_end_needs_meta(c.deferred, c.prechecked)
ResetWithOptions(t, update, suppress, ok) ==
  IF suppress THEN t
  ELSE IF t.session_end_seen
  THEN maybe_reset_after_session_end(stage_sandbox_state_update(t, update), ok)
  ELSE t
DefaultReset(t, ok) == ResetWithOptions(t, None, FALSE, ok)

StartControl ==
  /\ pc = "write" /\ call.control # "none"
  /\ LET t == clear_guardrail_busy_event(s)
         requires_spawn == call.control = "interrupt" /\ ~is_running(t)
         before == requires_spawn \/ call.control = "restart" IN
     IF call.prechecked /\ requires_spawn /\ call.deferred = None /\ ~call.suppress
     THEN RequiresMeta(t)
     ELSE Goto(call.control,
               IF before THEN stage_sandbox_state_update(t, call.deferred) ELSE t,
               [call EXCEPT !.stage_after = ~before,
                            !.deferred = IF before THEN None ELSE @])

StartInput ==
  /\ pc = "write" /\ call.control = "none"
  /\ Goto("preflight", s, call)

\* restart_files; the respawn is left to the next use of the worker.
Restart ==
  /\ pc = "restart"
  /\ LET t == DropProcess(maybe_emit_pending_server_notice(s))
         u == [clear_preserved_prefixes(t) EXCEPT !.guardrail_busy = FALSE] IN
     IF missing_inherited_sandbox_state(s) THEN Fail(s, owed)
     ELSE Goto("control", reset_output_state(u, TRUE),
               [call EXCEPT !.held = t.tape, !.told = TRUE])

\* A settled completion is only drained; a worker that is gone gets no signal.
SendsInterrupt ==
  is_running(s) /\ (s.pending_request \/ s.settled_pending_completion = None)

Interrupt ==
  /\ pc = "interrupt"
  /\ IF s.pending_request \/ s.settled_pending_completion # None
     THEN Goto("poll", s, [call EXCEPT !.in_control = TRUE])
     ELSE Goto("prompt", s, call)

InterruptFails(ok) ==
  /\ pc = "interrupt" /\ "interrupt" \in setup.failures /\ SendsInterrupt
  /\ Fail(reset(s, ok), {})

\* The interrupt's own reset is withheld while the worker may still run.
InterruptReply(t, contents, tells, ok) ==
  Goto("control", IF call.stage_after THEN t ELSE ResetWithOptions(t, None, call.suppress, ok),
       [call EXCEPT !.held = contents, !.in_control = FALSE, !.told = tells])

\* wait_for_interrupt_prompt and the reply: a prompt, a ready and the
\* deadline all drain the tape.
AwaitPrompt(ok) ==
  /\ pc = "prompt"
  /\ LET t == IF s.process /\ s.fault = "ended"
              THEN note_session_end([s EXCEPT !.fault = "taken"], TRUE) ELSE s IN
     IF s.process /\ s.fault \in {"error", "gone"} THEN Fail(take_protocol_error(s), owed)
     ELSE InterruptReply([t EXCEPT !.tape = << >>], t.tape, FALSE, ok)

\* The rest of write_stdin_control_prefix.
FinishControl(ok) ==
  /\ pc = "control"
  /\ LET resets == call.stage_after /\ s.session_end_seen /\ ~call.suppress
         t == IF resets THEN ResetWithOptions(s, call.deferred, FALSE, ok) ELSE s IN
     IF resets /\ stage_session_end_needs_meta(call.deferred, call.prechecked)
     THEN RequiresMeta(s)
     ELSE IF ~call.tail THEN Reply(t, << >>, Untold(FALSE))
     ELSE Goto("preflight", t,
               [call EXCEPT !.control = "none", !.prechecked = FALSE, !.suppress = FALSE,
                            !.deferred = IF resets THEN None ELSE @])

-----------------------------------------------------------------------------
(* The wait for the completion of a request.                               *)

\* WorkerManager::wait_for_request_completion.  A zero timeout does not look.
\* Of an error and a guardrail event the error is returned.
CompletionWaits(t) ==
  LET answer == CompletionAnswer(t)
      u == TakeAnswer(t)
      looked == CASE answer = "Wait" -> [result |-> "timeout", state |-> t]
                  [] answer = "Disconnected" ->
                       [result |-> IF t.alive THEN "error" ELSE "ended", state |-> t]
                  [] answer = "Protocol" -> [result |-> "error", state |-> u]
                  [] OTHER ->
                       IF u.fault = "error"
                       THEN [result |-> "protocol", state |-> take_protocol_error(u)]
                       ELSE [result |-> IF answer = "Ok" THEN "ok" ELSE "ended", state |-> u]
      guarded(w) ==
        IF w.result = "protocol" THEN [w EXCEPT !.result = "error"]
        ELSE IF w.state.guardrail_event = "none" THEN w
        ELSE [result |-> "error", state |-> [w.state EXCEPT !.guardrail_event = "none"]] IN
  {guarded(looked), guarded([result |-> "timeout", state |-> t])}

-----------------------------------------------------------------------------
(* write_preflight_files and the poll.                                     *)

\* A reply with the worker's error: everything not yet shown, in order.
ErrorReply(t, u) == Reply(u, InputContext(t), {})

GuardrailBusyAbort(ok) ==
  /\ pc = "preflight" /\ s.guardrail_event = "busy"
  /\ LET t == [maybe_emit_guardrail_notice(s) EXCEPT
                 !.guardrail_event = "none", !.guardrail_busy = FALSE] IN
     ErrorReply(t, DefaultReset(reset(prepare_input_context(t), ok), ok))

\* emit_guardrail_notice_and_resolve_timeout_marker
Preflighted ==
  LET t == maybe_emit_guardrail_notice(s) IN
  IF call.prechecked THEN t ELSE resolve_timeout_marker(t)

Preflighting == pc = "preflight" /\ s.guardrail_event # "busy"

PreflightPoll ==
  /\ Preflighting
  /\ IF Empty THEN empty_input_polls_existing_output(Preflighted)
     ELSE Preflighted.pending_request
  /\ Goto("poll", Preflighted, call)

PreflightIdle(ok) ==
  /\ Preflighting /\ Empty /\ ~empty_input_polls_existing_output(Preflighted)
  /\ LET t == Preflighted
         u == ensure_process(t, ok) IN
     IF call.prechecked /\ ~is_running(t) THEN RequiresMeta(t)
     ELSE IF is_running(u) THEN Reply(DefaultReset(u, ok), << >>, Untold(FALSE))
     ELSE ErrorReply(u, DefaultReset(prepare_input_context(u), ok))

PreflightInput ==
  /\ Preflighting /\ ~Empty /\ ~Preflighted.pending_request
  /\ Goto("dispatch", Preflighted, call)

\* The poll's reply, drained from t; the caller's options decide on a reset.
PollReply(t, tells, ok) ==
  LET u == [t EXCEPT !.tape = << >>] IN
  IF call.in_control THEN InterruptReply(u, t.tape, tells, ok)
  ELSE IF ResetNeedsMeta(u, call) THEN RequiresMeta(u)
  ELSE Reply(ResetWithOptions(u, call.deferred, call.suppress, ok), t.tape,
             Untold(tells \/ Notice \in Range(t.tape)))

PollError(ok) ==
  /\ pc = "poll" /\ s.settled_pending_error
  /\ Fail(reset([s EXCEPT !.settled_pending_error = FALSE], ok), {})

\* observe_active_pending_request
PollPending(ok) ==
  /\ pc = "poll" /\ ~s.settled_pending_error /\ s.pending_request
  /\ IF ~s.process THEN Fail(s, owed)
     ELSE \E w \in CompletionWaits(s) :
       LET cleared == clear_pending_request_state(w.state) IN
       CASE w.result = "ok" -> PollReply(cleared, TRUE, ok)
         [] w.result = "ended" -> PollReply(note_session_end(cleared, TRUE), TRUE, ok)
         [] w.result = "timeout" ->
              IF w.state.alive THEN PollReply(w.state, FALSE, ok)
              ELSE PollReply(note_session_end(cleared, TRUE), TRUE, ok)
         [] OTHER -> Fail(w.state, owed)

PollSettled(ok) ==
  /\ pc = "poll" /\ ~s.settled_pending_error /\ ~s.pending_request
  /\ LET t == [s EXCEPT !.settled_pending_completion = None] IN
     PollReply(IF s.settled_pending_completion = "ended" THEN note_session_end(t, FALSE) ELSE t,
               s.settled_pending_completion # None, ok)

-----------------------------------------------------------------------------
(* dispatch_write_request.                                                 *)

Dispatch(ok) ==
  /\ pc = "dispatch"
  /\ LET t == update_sandbox_state(s, call.deferred, ok)
         u == ensure_process(t, ok) IN
     IF update_spawns(s, call.deferred) /\ ~ok THEN Fail(t, {})
     ELSE IF is_running(u)
     THEN Goto("send", prepare_input_context(u), [call EXCEPT !.context = InputContext(u)])
     ELSE ErrorReply(u, DefaultReset(prepare_input_context(u), ok))

\* The reply to a request that was not accepted: prefix, tape, error.
SendErrorReply(t) == Reply(t, call.context \o s.tape, {})

SendTimesOut ==
  /\ pc = "send" /\ "send" \in setup.failures
  /\ SendErrorReply([s EXCEPT !.guardrail_busy = FALSE, !.tape = << >>,
                              !.pending_request_input = FALSE])

SendUncertain(ok) ==
  /\ pc = "send"
  /\ "send" \in setup.failures \/ s.fault # "none" \/ s.batch = "running"
  /\ SendErrorReply(reset([take_protocol_error(s) EXCEPT !.tape = << >>], ok))

SendAccepted ==
  /\ pc = "send"
  /\ s.fault \in {"none", "taken", "mute"} /\ s.batch # "running"
  /\ req' = req + 1
  /\ s' = [s EXCEPT !.batch = "running", !.settled_pending_completion = None,
                    !.guardrail_busy = TRUE, !.pending_request_input = TRUE]
  /\ owed' = owed \union {req'}
  /\ pc' = "await"
  /\ UNCHANGED <<setup, call, items, calls, warm, shown>>

\* build_reply_from_request_files
Await(ok) ==
  /\ pc = "await"
  /\ \E w \in CompletionWaits(s) :
       LET t == w.state
           ended == w.result = "ended" \/ ~t.alive
           done == IF ended THEN note_session_end(t, TRUE) ELSE t
           drained(u) == [u EXCEPT !.tape = << >>] IN
       CASE w.result \in {"ok", "ended"} ->
              Reply(DefaultReset([drained(done) EXCEPT !.guardrail_busy = FALSE], ok),
                    call.context \o done.tape, {})
         [] w.result = "timeout" /\ ~t.alive -> Fail(t, {})
         [] w.result = "timeout" /\ t.alive ->
              Reply(DefaultReset([drained(t) EXCEPT !.pending_request = TRUE], ok),
                    call.context \o t.tape, {req})
         [] OTHER ->
              Reply(DefaultReset(reset(drained(t), ok), ok), call.context \o t.tape, {})

-----------------------------------------------------------------------------

\* The warm-start thread takes the lock once, before any call or between two.
WarmStart(ok) ==
  /\ pc = "idle" /\ ~warm /\ warm' = TRUE
  /\ calls = 0 \/ "late_warm" \in setup.failures
  /\ s' = ensure_process(s, ok)
  /\ UNCHANGED <<setup, pc, call, items, req, calls, shown, owed>>

\* Nothing happens after the shutdown.
Closed == pc = "closed" /\ UNCHANGED vars

Shutdown ==
  /\ pc = "idle"
  /\ Goto("closed", [DropProcess(s) EXCEPT !.guardrail_busy = FALSE], call)

Environment ==
  \/ Produce \/ Complete \/ SessionEnds \/ SidebandError \/ Disconnect \/ Exit
  \/ GuardrailDecides \/ GuardrailNotes \/ GuardrailKills

\* The server's steps of a call in progress.
CallStep ==
  \/ RejectCall \/ DeferCallMeta \/ StartControl \/ StartInput \/ Restart \/ Interrupt
  \/ PreflightPoll \/ PreflightInput \/ SendTimesOut \/ SendAccepted
  \/ \E ok \in SpawnOutcomes :
       \/ ApplyCallMeta(ok) \/ Retry(ok) \/ InterruptFails(ok) \/ AwaitPrompt(ok)
       \/ FinishControl(ok) \/ GuardrailBusyAbort(ok) \/ PreflightIdle(ok)
       \/ PollError(ok) \/ PollPending(ok) \/ PollSettled(ok)
       \/ Dispatch(ok) \/ SendUncertain(ok) \/ Await(ok)

Next ==
  \/ \E control \in {"none", "interrupt", "restart"}, tail \in BOOLEAN, meta \in Policies \union {None} :
       ToolCall(control, tail, meta)
  \/ CallStep
  \/ \E ok \in SpawnOutcomes : WarmStart(ok)
  \/ Shutdown \/ Closed
  \/ Environment

Spec == Init /\ [][Next]_vars

-----------------------------------------------------------------------------
(* Properties.                                                             *)

\* What is shown is shown once and in the order of its production, across
\* polls, interrupts, restarts and respawns: the preserved prefix, the
\* reply-owned prefix and the tape are put together in that order.  It holds
\* as long as respawns succeed; after a failed one they can change places.
ShownInOrder ==
  "spawn" \notin setup.failures =>
    \A i, j \in DOMAIN shown :
      i < j /\ Notice \notin {shown[i], shown[j]} => shown[i] < shown[j]

\* Between calls the outcome of a request the client has not been told of is
\* still to be had by a poll: it is the last one, and it is pending or
\* settled by resolve_timeout_marker.  Three things can lose it: under a
\* policy that the calls bring, run_write_input's retry drops a drained
\* reply; a warm start between two calls replaces a worker that died with a
\* request pending; and a session that ends idle right after a batch still
\* takes the next request and is then reset with it.
OutcomeKept ==
  (/\ ~setup.inherit /\ {"late_end", "late_warm"} \intersect setup.failures = {}
   /\ pc = "idle" /\ owed # {}) =>
    /\ owed = {req}
    /\ s.pending_request \/ s.settled_pending_completion # None

\* Input is sent to a worker that runs under the metadata of its own call,
\* through every deferral, drain and retry of run_write_input.
RunsUnderCallPolicy == [][s.inherit /\ req' > req => s.worker_policy = call.meta]_vars

\* The steps a call has left at most.  The second attempt of run_write_input
\* is below every place of the first.
Rank(place, c) ==
  (IF c.retried THEN 0 ELSE 20) +
  CASE place = "called" -> 12 [] place = "write" -> 11
    [] place \in {"restart", "interrupt"} -> 10
    [] place = "prompt" \/ (place = "poll" /\ c.in_control) -> 9
    [] place = "control" -> 8 [] place = "preflight" -> 7
    [] place = "poll" /\ ~c.in_control -> 6 [] place = "dispatch" -> 5
    [] place = "send" -> 4 [] place = "await" -> 3 [] place = "retry" -> 1

\* Every call returns: each of its steps lowers the rank or ends it, so
\* run_write_input retries at most once and a drain is never repeated.  No
\* call is left without a step, since the only behaviours that stop have
\* shut the server down.
CallsAdvance ==
  [][ (pc # "idle" /\ pc' \notin {"idle", "closed"} /\ <<pc, call>>' # <<pc, call>>)
      => Rank(pc', call') < Rank(pc, call) ]_vars
=============================================================================
