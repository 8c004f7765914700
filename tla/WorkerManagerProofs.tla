------------------------ MODULE WorkerManagerProofs ------------------------
(***************************************************************************)
(* Proofs about WorkerManager, for every set of policies and every setup:  *)
(* which failures may happen, and any number of calls, pieces of output    *)
(* and requests.                                                           *)
(***************************************************************************)
EXTENDS WorkerManager, TLAPS

Fields ==
  {"inherit", "process", "alive", "worker_policy", "batch", "fault", "guard",
   "guardrail_event", "guardrail_busy", "tape", "pending_request",
   "pending_request_input", "session_end_seen", "settled_pending_completion",
   "settled_pending_error", "preserved_detached_prefix", "reply_owned_prefix",
   "next_live_prefix_belongs_to_reply", "pending_server_notice",
   "sandbox_state", "inherited_sandbox_state", "last_spawn"}

IsManager(t) == t = [f \in Fields |-> t[f]]

\* A worker that runs does so under the policy of the manager.
Faithful(t) == is_running(t) => t.worker_policy = t.sandbox_state

\* u may follow t: the policy is the same, and a worker that runs under it
\* is not replaced by one that does not.
Steady(t, u) ==
  /\ IsManager(u)
  /\ u.inherit = t.inherit
  /\ u.sandbox_state = t.sandbox_state
  /\ u.inherited_sandbox_state = t.inherited_sandbox_state
  /\ Faithful(t) => Faithful(u)

-----------------------------------------------------------------------------
(* What the methods of the manager do to the policy and the worker.        *)

\* Steady is transitive.
LEMMA SteadyTrans ==
  ASSUME NEW t, NEW u, NEW v, Steady(t, u), Steady(u, v)
  PROVE  Steady(t, v)
BY DEF Steady

\* Dropping the process leaves none that runs.
LEMMA DropProcessSteady ==
  ASSUME NEW t, IsManager(t)
  PROVE  Steady(t, DropProcess(t)) /\ ~is_running(DropProcess(t))
BY DEF IsManager, Fields, DropProcess, Steady, Faithful, is_running

\* A spawn starts a worker under the manager's policy.
LEMMA SpawnSteady ==
  ASSUME NEW t, IsManager(t), NEW ok
  PROVE  /\ Steady(t, spawn_process(t, ok))
         /\ ok => is_running(spawn_process(t, ok))
BY DEF IsManager, Fields, spawn_process, Steady, Faithful, is_running

\* Forgetting the pending request leaves worker and policy.
LEMMA ClearPendingSteady ==
  ASSUME NEW t, IsManager(t)
  PROVE  /\ Steady(t, clear_pending_request_state(t))
         /\ is_running(clear_pending_request_state(t)) <=> is_running(t)
BY DEF IsManager, Fields, clear_pending_request_state, Steady, Faithful, is_running

\* Resetting the output leaves worker and policy.
LEMMA ResetOutputSteady ==
  ASSUME NEW t, IsManager(t), NEW clear
  PROVE  /\ Steady(t, reset_output_state(t, clear))
         /\ is_running(reset_output_state(t, clear)) <=> is_running(t)
<1> DEFINE u == clear_pending_request_state(t)
<1>1. Steady(t, u) /\ (is_running(u) <=> is_running(t)) /\ IsManager(u)
  BY ClearPendingSteady DEF Steady
<1>2. reset_output_state(t, clear) =
        [u EXCEPT !.tape = IF clear THEN << >> ELSE @,
                  !.pending_request_input = FALSE, !.session_end_seen = FALSE]
  BY DEF reset_output_state
<1> HIDE DEF u
<1>3. /\ Steady(u, reset_output_state(t, clear))
      /\ is_running(reset_output_state(t, clear)) <=> is_running(u)
  BY <1>1, <1>2 DEF IsManager, Fields, Steady, Faithful, is_running
<1> QED BY <1>1, <1>3, SteadyTrans

\* Noting a session end leaves worker and policy.
LEMMA SessionEndSteady ==
  ASSUME NEW t, IsManager(t), NEW include_notice
  PROVE  Steady(t, note_session_end(t, include_notice))
BY DEF IsManager, Fields, note_session_end, Steady, Faithful, is_running

\* Clearing the prefixes leaves worker and policy.
LEMMA ClearPrefixesSteady ==
  ASSUME NEW t, IsManager(t)
  PROVE  /\ Steady(t, clear_preserved_prefixes(t))
         /\ clear_preserved_prefixes(t).process = t.process
         /\ clear_preserved_prefixes(t).alive = t.alive
         /\ clear_preserved_prefixes(t).worker_policy = t.worker_policy
BY DEF IsManager, Fields, clear_preserved_prefixes, Steady, Faithful, is_running

\* Taking the context of an input leaves worker and policy.
LEMMA InputContextSteady ==
  ASSUME NEW t, IsManager(t)
  PROVE  /\ Steady(t, prepare_input_context(t))
         /\ prepare_input_context(t).worker_policy = t.worker_policy
<1> DEFINE u == clear_preserved_prefixes(t)
<1>1. Steady(t, u) /\ IsManager(u) /\ u.worker_policy = t.worker_policy
  BY ClearPrefixesSteady DEF Steady
<1>2. prepare_input_context(t) =
        [u EXCEPT !.tape = << >>, !.settled_pending_completion = None]
  BY DEF prepare_input_context
<1> HIDE DEF u
<1>3. /\ Steady(u, prepare_input_context(t))
      /\ prepare_input_context(t).worker_policy = u.worker_policy
  BY <1>1, <1>2 DEF IsManager, Fields, Steady, Faithful, is_running
<1> QED BY <1>1, <1>3, SteadyTrans

\* Setting output aside before a respawn leaves worker and policy.
LEMMA StagePrefixSteady ==
  ASSUME NEW t, IsManager(t)
  PROVE  /\ Steady(t, stage_prefix_before_respawn(t))
         /\ is_running(stage_prefix_before_respawn(t)) <=> is_running(t)
BY DEF IsManager, Fields, stage_prefix_before_respawn, Steady, Faithful, is_running

\* Emitting a server notice leaves worker and policy.
LEMMA ServerNoticeSteady ==
  ASSUME NEW t, IsManager(t)
  PROVE  Steady(t, maybe_emit_pending_server_notice(t))
BY DEF IsManager, Fields, maybe_emit_pending_server_notice, Steady, Faithful, is_running

\* Emitting the guardrail's notice leaves worker and policy.
LEMMA GuardrailNoticeSteady ==
  ASSUME NEW t, IsManager(t)
  PROVE  Steady(t, maybe_emit_guardrail_notice(t))
<1> DEFINE u == maybe_emit_pending_server_notice(t)
           v == [u EXCEPT !.guardrail_event = "none", !.tape = Append(@, Notice)]
<1>1. Steady(t, u) /\ IsManager(u)
  BY ServerNoticeSteady DEF Steady
<1>2. maybe_emit_guardrail_notice(t) = u \/ maybe_emit_guardrail_notice(t) = v
  BY DEF maybe_emit_guardrail_notice
<1> HIDE DEF u
<1>3. Steady(u, v)
  BY <1>1 DEF IsManager, Fields, Steady, Faithful, is_running
<1> HIDE DEF v
<1> QED BY <1>1, <1>2, <1>3, SteadyTrans

\* Clearing the busy event leaves worker and policy.
LEMMA ClearBusySteady ==
  ASSUME NEW t, IsManager(t)
  PROVE  Steady(t, clear_guardrail_busy_event(t))
BY DEF IsManager, Fields, clear_guardrail_busy_event, Steady, Faithful, is_running

\* ensure_process starts a worker under the manager's policy, if any.
LEMMA EnsureSteady ==
  ASSUME NEW t, IsManager(t), NEW ok
  PROVE  Steady(t, ensure_process(t, ok))
<1> DEFINE u == DropProcess(t)
           v == reset_output_state(u, FALSE)
           w == spawn_process(v, ok)
<1>1. ensure_process(t, ok) = t \/ ensure_process(t, ok) = w
  BY DEF ensure_process
<1>2. Steady(t, t)
  BY DEF Steady
<1>3. Steady(t, u) /\ IsManager(u)
  BY DropProcessSteady DEF Steady
<1>4. Steady(u, v) /\ IsManager(v)
  BY <1>3, ResetOutputSteady DEF Steady
<1>5. Steady(v, w)
  BY <1>4, SpawnSteady
<1> HIDE DEF u, v, w
<1>6. Steady(t, w)
  BY <1>3, <1>4, <1>5, SteadyTrans
<1> QED BY <1>1, <1>2, <1>6

\* A worker that a reset leaves running is a new one.
LEMMA ResetSteady ==
  ASSUME NEW t, IsManager(t), NEW ok
  PROVE  Steady(t, reset(t, ok)) /\ Faithful(reset(t, ok))
<1> DEFINE u == DropProcess(t)
           v == reset_output_state(u, TRUE)
           w == spawn_process(v, ok)
<1>1. reset(t, ok) = u \/ reset(t, ok) = w
  BY DEF reset
<1>2. Steady(t, u) /\ IsManager(u) /\ Faithful(u)
  BY DropProcessSteady DEF Steady, Faithful
<1>3. Steady(u, v) /\ IsManager(v)
  BY <1>2, ResetOutputSteady DEF Steady
<1>4. Steady(v, w)
  BY <1>3, SpawnSteady
<1> HIDE DEF u, v, w
<1>5. Steady(t, w) /\ Faithful(w)
  BY <1>2, <1>3, <1>4, SteadyTrans DEF Steady
<1> QED BY <1>1, <1>2, <1>5

\* The reset after a session end leaves a worker under the manager's policy.
LEMMA SessionResetSteady ==
  ASSUME NEW t, IsManager(t), NEW ok
  PROVE  /\ Steady(t, maybe_reset_after_session_end(t, ok))
         /\ t.session_end_seen => Faithful(maybe_reset_after_session_end(t, ok))
<1> DEFINE u == reset(t, ok)
           v == [u EXCEPT !.session_end_seen = FALSE]
<1>1. maybe_reset_after_session_end(t, ok) = IF t.session_end_seen THEN v ELSE t
  BY DEF maybe_reset_after_session_end
<1>2. Steady(t, u) /\ Faithful(u) /\ IsManager(u)
  BY ResetSteady DEF Steady
<1>3. Steady(t, t)
  BY DEF Steady
<1> HIDE DEF u
<1>4. Steady(u, v) /\ Faithful(v)
  BY <1>2 DEF IsManager, Fields, Steady, Faithful, is_running
<1> HIDE DEF v
<1> QED BY <1>1, <1>2, <1>3, <1>4, SteadyTrans

\* Taking what the sideband said leaves worker and policy.
LEMMA TakeAnswerSteady ==
  ASSUME NEW t, IsManager(t)
  PROVE  Steady(t, TakeAnswer(t)) /\ Steady(t, take_protocol_error(t))
<1> DEFINE a == CompletionAnswer(t)
<1>1. TakeAnswer(t) = CASE a = "Ok" -> [t EXCEPT !.batch = "none"]
        [] a = "SessionEnd" -> [t EXCEPT !.fault = "taken"]
        [] a = "Protocol" -> [t EXCEPT !.fault = "mute"]
        [] OTHER -> t
  BY DEF TakeAnswer
<1> HIDE DEF a
<1>2. TakeAnswer(t) \in {[t EXCEPT !.batch = "none"], [t EXCEPT !.fault = "taken"],
                         [t EXCEPT !.fault = "mute"], t}
  BY <1>1
<1>3. Steady(t, TakeAnswer(t))
  BY <1>2 DEF IsManager, Fields, Steady, Faithful, is_running
<1>4. Steady(t, take_protocol_error(t))
  BY DEF IsManager, Fields, Steady, Faithful, is_running, take_protocol_error
<1> QED BY <1>3, <1>4

\* Settling a pending session end leaves worker and policy.
LEMMA SettleEndSteady ==
  ASSUME NEW t, IsManager(t)
  PROVE  Steady(t, settle_pending_session_end(t))
<1> DEFINE u == note_session_end(t, TRUE)
           v == clear_pending_request_state(u)
           w == [v EXCEPT !.settled_pending_completion = "ended"]
<1>1. Steady(t, u) /\ IsManager(u)
  BY SessionEndSteady DEF Steady
<1>2. Steady(u, v) /\ IsManager(v)
  BY <1>1, ClearPendingSteady DEF Steady
<1>3. settle_pending_session_end(t) = w
  BY DEF settle_pending_session_end
<1> HIDE DEF u, v
<1>4. Steady(v, w)
  BY <1>2 DEF IsManager, Fields, Steady, Faithful, is_running
<1> HIDE DEF w
<1> QED BY <1>1, <1>2, <1>3, <1>4, SteadyTrans

\* Resolving a timeout leaves worker and policy.
LEMMA TimeoutMarkerSteady ==
  ASSUME NEW t, IsManager(t)
  PROVE  Steady(t, resolve_timeout_marker(t))
<1> DEFINE u == TakeAnswer(t)
           v == clear_pending_request_state(u)
           done == [v EXCEPT !.settled_pending_completion = "done"]
           failed == [u EXCEPT !.settled_pending_error = TRUE]
           a == CompletionAnswer(t)
<1>1. Steady(t, u) /\ IsManager(u) /\ Steady(t, t)
  BY TakeAnswerSteady DEF Steady
<1>2. Steady(u, v) /\ IsManager(v)
  BY <1>1, ClearPendingSteady DEF Steady
<1>3. Steady(u, settle_pending_session_end(u)) /\ Steady(t, settle_pending_session_end(t))
  BY <1>1, SettleEndSteady
<1>4. resolve_timeout_marker(t) =
        IF ~t.pending_request \/ t.settled_pending_error \/ ~t.process THEN t
        ELSE CASE a = "Ok" -> IF t.alive THEN done ELSE settle_pending_session_end(u)
               [] a = "SessionEnd" -> settle_pending_session_end(u)
               [] a = "Protocol" -> failed
               [] OTHER -> IF t.alive THEN t ELSE settle_pending_session_end(t)
  BY DEF resolve_timeout_marker
<1> HIDE DEF u, v, a
<1>5. Steady(v, done) /\ Steady(u, failed)
  BY <1>1, <1>2 DEF IsManager, Fields, Steady, Faithful, is_running
<1> HIDE DEF done, failed
<1>6. resolve_timeout_marker(t) \in {t, done, failed, settle_pending_session_end(u),
                                     settle_pending_session_end(t)}
  BY <1>4
<1>7. Steady(t, done)
  BY <1>1, <1>2, <1>5, SteadyTrans
<1>8. Steady(t, failed) /\ Steady(t, settle_pending_session_end(u))
  BY <1>1, <1>3, <1>5, SteadyTrans
<1> QED BY <1>1, <1>3, <1>6, <1>7, <1>8

\* Staging an update changes the policy and nothing of the worker.
LEMMA StageFacts ==
  ASSUME NEW t, IsManager(t), NEW update
  PROVE  LET u == stage_sandbox_state_update(t, update) IN
         /\ IsManager(u) /\ u.inherit = t.inherit
         /\ u.process = t.process /\ u.alive = t.alive /\ u.worker_policy = t.worker_policy
         /\ u.session_end_seen = t.session_end_seen
         /\ u.last_spawn = t.last_spawn
         /\ update = None => u = t
         /\ update # None => u.sandbox_state = update /\ u.inherited_sandbox_state
BY DEF IsManager, Fields, stage_sandbox_state_update

\* The respawn after a policy change leaves a worker under the new policy.
LEMMA RestartWorkerSteady ==
  ASSUME NEW t, IsManager(t), NEW ok
  PROVE  LET u == restart_worker_after_sandbox_state_change(t, ok) IN
         Steady(t, u) /\ Faithful(u)
<1> DEFINE u == DropProcess(t)
           p == stage_prefix_before_respawn(u)
           v == reset_output_state(p, TRUE)
           w == reset_output_state(u, TRUE)
<1>1. \/ restart_worker_after_sandbox_state_change(t, ok) = spawn_process(v, ok)
      \/ restart_worker_after_sandbox_state_change(t, ok) = spawn_process(w, ok)
  BY DEF restart_worker_after_sandbox_state_change, reset_output_state_preserving_detached_output
<1>2. Steady(t, u) /\ IsManager(u) /\ Faithful(u)
  BY DropProcessSteady DEF Steady, Faithful
<1>3. Steady(u, p) /\ IsManager(p)
  BY <1>2, StagePrefixSteady DEF Steady
<1>4. Steady(p, v) /\ IsManager(v) /\ Steady(u, w) /\ IsManager(w)
  BY <1>2, <1>3, ResetOutputSteady DEF Steady
<1>5. Steady(v, spawn_process(v, ok)) /\ Steady(w, spawn_process(w, ok))
  BY <1>4, SpawnSteady
<1> HIDE DEF u, p, v, w
<1>6. Steady(u, spawn_process(v, ok)) /\ Steady(u, spawn_process(w, ok))
  BY <1>3, <1>4, <1>5, SteadyTrans
<1>7. Steady(t, spawn_process(v, ok)) /\ Steady(t, spawn_process(w, ok))
  BY <1>2, <1>6, SteadyTrans
<1>8. Faithful(spawn_process(v, ok)) /\ Faithful(spawn_process(w, ok))
  BY <1>2, <1>6 DEF Steady
<1> QED BY <1>1, <1>7, <1>8

\* An update of the policy replaces the worker that ran under another one.
LEMMA UpdateFacts ==
  ASSUME NEW t, IsManager(t), NEW update, NEW ok
  PROVE  LET u == update_sandbox_state(t, update, ok) IN
         /\ IsManager(u) /\ u.inherit = t.inherit
         /\ Faithful(t) => Faithful(u)
         /\ update = None => u = t
         /\ update # None => u.sandbox_state = update /\ u.inherited_sandbox_state
<1> DEFINE u == stage_sandbox_state_update(t, update)
           v == restart_worker_after_sandbox_state_change(u, ok)
           vn == [v EXCEPT !.pending_server_notice = TRUE,
                           !.next_live_prefix_belongs_to_reply = TRUE]
           w == reset_output_state(u, TRUE)
           x == spawn_process(w, ok)
           r == update_sandbox_state(t, update, ok)
<1>1. /\ IsManager(u) /\ u.inherit = t.inherit
      /\ u.process = t.process /\ u.alive = t.alive /\ u.worker_policy = t.worker_policy
      /\ update = None => u = t
      /\ update # None => u.sandbox_state = update /\ u.inherited_sandbox_state
  BY StageFacts
<1>2. r = IF requires_restart(t, update)
          THEN IF ok /\ t.last_spawn THEN vn ELSE v
          ELSE IF update_spawns(t, update) THEN x ELSE u
  BY DEF update_sandbox_state
<1>3. Steady(u, v) /\ Faithful(v) /\ IsManager(v)
  BY <1>1, RestartWorkerSteady DEF Steady
<1>4. Steady(u, w) /\ IsManager(w)
  BY <1>1, ResetOutputSteady DEF Steady
<1>5. Steady(w, x)
  BY <1>4, SpawnSteady
<1> HIDE DEF u, v, w, x
<1>6. Steady(v, vn) /\ Faithful(vn)
  BY <1>3 DEF IsManager, Fields, Steady, Faithful, is_running
<1> HIDE DEF vn, r
<1>7. Steady(u, vn) /\ Steady(u, x) /\ Steady(u, u)
  BY <1>1, <1>3, <1>4, <1>5, <1>6, SteadyTrans DEF Steady
<1>8. r \in {v, vn, x, u} /\ Steady(u, r)
  BY <1>2, <1>3, <1>7
<1>9. IsManager(r) /\ r.inherit = t.inherit
  BY <1>1, <1>8 DEF Steady
<1>10. update # None => r.sandbox_state = update /\ r.inherited_sandbox_state
  BY <1>1, <1>8 DEF Steady
<1>11. update = None => r = t
  BY <1>1, <1>2 DEF requires_restart, update_spawns
<1>12. ASSUME Faithful(t), update # None, ~requires_restart(t, update) PROVE Faithful(r)
  <2>1. Faithful(u)
    BY <1>1, <1>12 DEF Faithful, is_running, requires_restart
  <2> QED BY <1>8, <2>1 DEF Steady
<1>13. requires_restart(t, update) => Faithful(r)
  BY <1>2, <1>3, <1>6
<1>14. Faithful(t) => Faithful(r)
  BY <1>11, <1>12, <1>13
<1> QED BY <1>9, <1>10, <1>11, <1>14 DEF r

\* A reset with a deferred update ends under that update's policy.
LEMMA ResetWithOptionsFacts ==
  ASSUME NEW t, IsManager(t), NEW update, NEW suppress \in BOOLEAN, NEW ok
  PROVE  LET u == ResetWithOptions(t, update, suppress, ok) IN
         /\ IsManager(u) /\ u.inherit = t.inherit
         /\ Faithful(t) => Faithful(u)
         /\ \/ u.sandbox_state = t.sandbox_state
            \/ update # None /\ u.sandbox_state = update
         /\ t.session_end_seen /\ ~suppress /\ update # None => u.sandbox_state = update
         /\ update = None => Steady(t, u)
<1> DEFINE u == stage_sandbox_state_update(t, update)
           v == maybe_reset_after_session_end(u, ok)
           r == ResetWithOptions(t, update, suppress, ok)
<1>1. r = IF suppress THEN t ELSE IF t.session_end_seen THEN v ELSE t
  BY DEF ResetWithOptions
<1>2. /\ IsManager(u) /\ u.inherit = t.inherit /\ u.session_end_seen = t.session_end_seen
      /\ update = None => u = t
      /\ update # None => u.sandbox_state = update /\ u.inherited_sandbox_state
  BY StageFacts
<1>3. Steady(u, v) /\ (u.session_end_seen => Faithful(v))
  BY <1>2, SessionResetSteady
<1> HIDE DEF u, v, r
<1>4. /\ IsManager(v) /\ v.inherit = t.inherit
      /\ update = None => v.sandbox_state = t.sandbox_state
      /\ update # None => v.sandbox_state = update
  BY <1>2, <1>3 DEF Steady
<1>5. Faithful(t) => Faithful(r)
  BY <1>1, <1>2, <1>3
<1>6. IsManager(r) /\ r.inherit = t.inherit
  BY <1>1, <1>4
<1>7. /\ \/ r.sandbox_state = t.sandbox_state
         \/ update # None /\ r.sandbox_state = update
      /\ t.session_end_seen /\ ~suppress /\ update # None => r.sandbox_state = update
  BY <1>1, <1>4
<1>8. update = None => Steady(t, r)
  <2>1. Steady(t, t)
    BY DEF Steady
  <2> QED BY <1>1, <1>2, <1>3, <2>1
<1> QED BY <1>5, <1>6, <1>7, <1>8 DEF r

\* The reset without an update keeps the policy.
LEMMA DefaultResetSteady ==
  ASSUME NEW t, IsManager(t), NEW ok
  PROVE  Steady(t, DefaultReset(t, ok))
<1> DEFINE u == ResetWithOptions(t, None, FALSE, ok)
<1>1. Steady(t, u)
  BY ResetWithOptionsFacts
<1> QED BY <1>1 DEF DefaultReset

\* A wait for the completion leaves worker and policy.
LEMMA WaitsSteady ==
  ASSUME NEW t, IsManager(t), NEW w \in CompletionWaits(t)
  PROVE  Steady(t, w.state)
<1> DEFINE u == TakeAnswer(t)
           e == take_protocol_error(u)
           quiet(x) == [x EXCEPT !.guardrail_event = "none"]
<1>1. Steady(t, t) /\ Steady(t, u) /\ IsManager(u)
  BY TakeAnswerSteady DEF Steady
<1>2. Steady(t, e) /\ IsManager(e)
  BY <1>1, TakeAnswerSteady, SteadyTrans DEF Steady
<1>3. w.state \in {t, u, e, quiet(t), quiet(u), quiet(e)}
  BY DEF CompletionWaits
<1> HIDE DEF u, e
<1>4. ASSUME NEW x, Steady(t, x) PROVE Steady(t, quiet(x))
  <2>1. Steady(x, quiet(x))
    BY <1>4 DEF IsManager, Fields, Steady, Faithful, is_running
  <2> QED BY <1>4, <2>1, SteadyTrans
<1> HIDE DEF quiet
<1> QED BY <1>1, <1>2, <1>3, <1>4

-----------------------------------------------------------------------------
(* A call and its places.                                                  *)

CallFields == {"control", "tail", "meta", "prechecked", "retried", "deferred",
               "suppress", "stage_after", "in_control", "told", "held", "context"}

IsCall(c) ==
  /\ c = [f \in CallFields |-> c[f]]
  /\ c.control \in {"none", "interrupt", "restart"}
  /\ c.tail \in BOOLEAN /\ c.retried \in BOOLEAN
  /\ c.suppress \in BOOLEAN /\ c.in_control \in BOOLEAN

\* A poll that answers an interrupt is the only place of in_control, and a
\* second attempt is asked for at the first one only.
PlaceInv ==
  /\ IsCall(call)
  /\ call.in_control => pc = "poll"
  /\ pc = "retry" => ~call.retried

\* Metadata that is not applied yet is the call's own, and without any the
\* manager is under it already.
MetaHeld(t, c) ==
  /\ t.inherit /\ c.tail => c.meta # None
  /\ c.meta # None =>
       c.deferred = c.meta \/ (c.deferred = None /\ t.sandbox_state = c.meta)

\* Only a restart prefix stages a policy while the worker runs: restart_files
\* is about to end it.
PolicyInv ==
  /\ IsManager(s) /\ req \in Nat
  /\ Faithful(s) \/ (pc = "restart" /\ ~missing_inherited_sandbox_state(s))
  /\ pc = "called" => call.deferred = None
  /\ pc = "preflight" => call.control = "none"
  /\ pc = "dispatch" => call.tail
  /\ pc # "called" => MetaHeld(s, call)
  /\ pc = "send" /\ s.inherit => s.worker_policy = call.meta

-----------------------------------------------------------------------------
(* Every call advances.                                                    *)

\* What CallsAdvance asks of a step of a call.
Advances == pc' \notin {"idle", "closed"} => Rank(pc', call') < Rank(pc, call)

\* The last states of a call, and the one before its second attempt.
EndsCall == pc' = "idle" /\ call' = NoCall
AsksAgain ==
  /\ pc' = "retry" /\ ~call.retried
  /\ call' = [call EXCEPT !.held = << >>, !.context = << >>,
                          !.in_control = FALSE, !.told = FALSE]

\* No call is a call without text, metadata or deferred update.
LEMMA NoCallFacts ==
  /\ IsCall(NoCall) /\ ~NoCall.in_control /\ ~NoCall.tail
  /\ NoCall.deferred = None /\ NoCall.meta = None
BY DEF IsCall, CallFields, NoCall, NewCall

\* A reply ends the call.
LEMMA ReplyEnds == ASSUME NEW t, NEW contents, NEW open, Reply(t, contents, open) PROVE EndsCall
BY DEF Reply, EndsCall

\* An error reply ends the call.
LEMMA FailEnds == ASSUME NEW t, NEW open, Fail(t, open) PROVE EndsCall
BY DEF Fail, EndsCall

\* A session that needs metadata again ends the call or starts its one retry.
LEMMA RequiresMetaEnds ==
  ASSUME NEW t, RequiresMeta(t), PlaceInv PROVE EndsCall \/ AsksAgain
BY DEF RequiresMeta, EndsCall, AsksAgain, PlaceInv, IsCall

\* Ending a call advances it.
LEMMA EndAdvances == ASSUME EndsCall PROVE PlaceInv' /\ Advances
BY NoCallFacts DEF EndsCall, PlaceInv, Advances

\* The retry starts below every place of the first attempt.
LEMMA AskAdvances ==
  ASSUME PlaceInv, AsksAgain, pc \in {"write", "control", "preflight", "poll"}
  PROVE  PlaceInv' /\ Advances
<1>1. /\ IsCall(call') /\ ~call'.in_control /\ call'.retried = call.retried
      /\ pc' = "retry" /\ ~call.retried
  BY DEF AsksAgain, PlaceInv, IsCall, CallFields
<1>2. PlaceInv'
  BY <1>1 DEF PlaceInv
<1>3. Rank(pc', call') = 21
  BY <1>1 DEF Rank
<1>4. Rank(pc, call) > 21
  BY <1>1 DEF Rank, PlaceInv, IsCall
<1> QED BY <1>2, <1>3, <1>4 DEF Advances

\* A move to a lower place, in the same attempt.
LEMMA MoveAdvances ==
  ASSUME PlaceInv, NEW to, NEW c,
         pc' = to, call' = c, IsCall(c), c.retried = call.retried,
         c.in_control => to = "poll", to # "retry",
         \/ pc = "called" /\ to = "write"
         \/ pc = "write" /\ to \in {"restart", "interrupt", "preflight"}
         \/ pc = "restart" /\ to = "control"
         \/ pc = "interrupt" /\ to = "poll" /\ c.in_control
         \/ pc = "interrupt" /\ to = "prompt"
         \/ pc = "prompt" /\ to = "control"
         \/ pc = "poll" /\ call.in_control /\ to = "control"
         \/ pc = "control" /\ to = "preflight"
         \/ pc = "preflight" /\ to = "poll" /\ ~c.in_control
         \/ pc = "preflight" /\ to = "dispatch"
         \/ pc = "dispatch" /\ to = "send"
         \/ pc = "send" /\ to = "await"
  PROVE  PlaceInv' /\ Advances
<1>1. PlaceInv'
  BY DEF PlaceInv
<1>2. IsCall(call) /\ call'.retried = call.retried /\ call'.in_control \in BOOLEAN
  BY DEF PlaceInv, IsCall
<1>3. Rank(pc', call') < Rank(pc, call)
  BY <1>2 DEF Rank, IsCall
<1> QED BY <1>1, <1>3 DEF Advances

\* Applying the metadata ends the call or goes to the write.
LEMMA ApplyAdvances ==
  ASSUME PlaceInv, NEW t, NEW c, NEW ok, ApplyMeta(t, c, ok), IsCall(c)
  PROVE  \/ EndsCall
         \/ /\ pc' = "write" /\ IsCall(call')
            /\ call'.retried = c.retried /\ call'.in_control = c.in_control
<1> DEFINE n == normalize_input_after_sandbox_respawn(c)
<1>1. IsCall(n) /\ n.retried = c.retried /\ n.in_control = c.in_control
  BY DEF normalize_input_after_sandbox_respawn, IsCall, CallFields
<1> HIDE DEF n
<1> QED BY <1>1, FailEnds DEF ApplyMeta, Goto, n

\* The steps that deal with metadata go down.
LEMMA MetaAdvances ==
  ASSUME PlaceInv, NEW ok, ApplyCallMeta(ok) \/ DeferCallMeta \/ RejectCall \/ Retry(ok)
  PROVE  PlaceInv' /\ Advances
<1>1. CASE ApplyCallMeta(ok)
  <2>1. pc = "called" /\ ApplyMeta(Rechecked, call, ok) /\ IsCall(call) /\ ~call.in_control
    BY <1>1 DEF ApplyCallMeta, PlaceInv
  <2>2. EndsCall \/ ( /\ pc' = "write" /\ IsCall(call')
                      /\ call'.retried = call.retried /\ ~call'.in_control)
    BY <2>1, ApplyAdvances
  <2> QED BY <2>1, <2>2, EndAdvances, MoveAdvances
<1>2. CASE DeferCallMeta
  <2>1. /\ pc = "called" /\ pc' = "write" /\ ~call.in_control
        /\ IsCall(call') /\ call'.retried = call.retried /\ ~call'.in_control
    BY <1>2 DEF DeferCallMeta, Goto, PlaceInv, IsCall, CallFields
  <2> QED BY <2>1, MoveAdvances
<1>3. CASE RejectCall
  BY <1>3, EndAdvances DEF RejectCall, EndsCall
<1>4. CASE Retry(ok)
  <2> DEFINE c == [call EXCEPT !.retried = TRUE, !.prechecked = FALSE,
                               !.deferred = None, !.suppress = FALSE,
                               !.stage_after = FALSE]
  <2>1. pc = "retry" /\ ~call.retried /\ ~call.in_control
    BY <1>4 DEF Retry, PlaceInv
  <2>2. IsCall(c) /\ c.retried /\ ~c.in_control
    BY <2>1 DEF PlaceInv, IsCall, CallFields
  <2>3. Fail(s, owed) \/ ApplyMeta(s, c, ok)
    BY <1>4 DEF Retry
  <2> HIDE DEF c
  <2>4. EndsCall \/ (pc' = "write" /\ IsCall(call') /\ call'.retried /\ ~call'.in_control)
    BY <2>2, <2>3, FailEnds, ApplyAdvances
  <2>5. ASSUME pc' = "write", IsCall(call'), call'.retried, ~call'.in_control
        PROVE  PlaceInv' /\ Advances
    <3>1. Rank(pc', call') = 11
      BY <2>5 DEF Rank
    <3>2. Rank(pc, call) = 21
      BY <2>1 DEF Rank
    <3> QED BY <2>5, <3>1, <3>2 DEF PlaceInv, Advances
  <2> QED BY <2>4, <2>5, EndAdvances
<1> QED BY <1>1, <1>2, <1>3, <1>4

\* The reply of an interrupt goes down.
LEMMA InterruptReplyAdvances ==
  ASSUME PlaceInv, pc = "prompt" \/ (pc = "poll" /\ call.in_control),
         NEW t, NEW contents, NEW tells, NEW ok, InterruptReply(t, contents, tells, ok)
  PROVE  PlaceInv' /\ Advances
<1>1. /\ pc' = "control" /\ IsCall(call')
      /\ call'.retried = call.retried /\ ~call'.in_control
  BY DEF InterruptReply, Goto, PlaceInv, IsCall, CallFields
<1> QED BY <1>1, MoveAdvances

\* The steps of a control prefix go down.
LEMMA ControlAdvances ==
  ASSUME PlaceInv, NEW ok,
         \/ StartControl \/ StartInput \/ Restart \/ Interrupt
         \/ InterruptFails(ok) \/ AwaitPrompt(ok) \/ FinishControl(ok)
  PROVE  PlaceInv' /\ Advances
<1>0. IsCall(call)
  BY DEF PlaceInv
<1>1. CASE StartControl
  <2>1. pc = "write" /\ call.control \in {"restart", "interrupt"} /\ ~call.in_control
    BY <1>0, <1>1 DEF StartControl, PlaceInv, IsCall
  <2>2. \/ \E t : RequiresMeta(t)
        \/ /\ pc' = call.control /\ IsCall(call')
           /\ call'.retried = call.retried /\ ~call'.in_control
    BY <1>0, <1>1, <2>1 DEF StartControl, Goto, IsCall, CallFields
  <2>3. \/ EndsCall \/ AsksAgain
        \/ /\ pc' = call.control /\ IsCall(call')
           /\ call'.retried = call.retried /\ ~call'.in_control
    BY <2>2, RequiresMetaEnds
  <2> QED BY <2>1, <2>3, EndAdvances, AskAdvances, MoveAdvances
<1>2. CASE StartInput
  <2>1. pc = "write" /\ pc' = "preflight" /\ call' = call /\ ~call.in_control
    BY <1>2 DEF StartInput, Goto, PlaceInv
  <2> QED BY <1>0, <2>1, MoveAdvances
<1>3. CASE Restart
  <2>1. pc = "restart" /\ ~call.in_control
    BY <1>3 DEF Restart, PlaceInv
  <2>2. \/ EndsCall
        \/ /\ pc' = "control" /\ IsCall(call')
           /\ call'.retried = call.retried /\ ~call'.in_control
    BY <1>0, <1>3, <2>1, FailEnds DEF Restart, Goto, IsCall, CallFields
  <2> QED BY <2>1, <2>2, EndAdvances, MoveAdvances
<1>4. CASE Interrupt
  <2>1. pc = "interrupt" /\ ~call.in_control
    BY <1>4 DEF Interrupt, PlaceInv
  <2>2. \/ /\ pc' = "poll" /\ IsCall(call')
           /\ call'.retried = call.retried /\ call'.in_control
        \/ pc' = "prompt" /\ call' = call
    BY <1>0, <1>4 DEF Interrupt, Goto, IsCall, CallFields
  <2> QED BY <1>0, <2>1, <2>2, MoveAdvances
<1>5. CASE InterruptFails(ok)
  BY <1>5, FailEnds, EndAdvances DEF InterruptFails
<1>6. CASE AwaitPrompt(ok)
  <2>1. pc = "prompt"
    BY <1>6 DEF AwaitPrompt
  <2>2. (\E t, open : Fail(t, open)) \/ (\E t, contents : InterruptReply(t, contents, FALSE, ok))
    BY <1>6 DEF AwaitPrompt
  <2> QED BY <2>1, <2>2, FailEnds, EndAdvances, InterruptReplyAdvances
<1>7. CASE FinishControl(ok)
  <2>1. pc = "control" /\ ~call.in_control
    BY <1>7 DEF FinishControl, PlaceInv
  <2> DEFINE resets == call.stage_after /\ s.session_end_seen /\ ~call.suppress
             c == [call EXCEPT !.control = "none", !.prechecked = FALSE, !.suppress = FALSE,
                               !.deferred = IF resets THEN None ELSE @]
  <2>2. \/ RequiresMeta(s)
        \/ \E t : Reply(t, << >>, Untold(FALSE))
        \/ \E t : Goto("preflight", t, c)
    BY <1>7 DEF FinishControl
  <2>3. IsCall(c) /\ c.retried = call.retried /\ ~c.in_control
    BY <1>0, <2>1 DEF IsCall, CallFields
  <2> HIDE DEF c
  <2>4. EndsCall \/ AsksAgain \/ (pc' = "preflight" /\ call' = c)
    BY <2>2, RequiresMetaEnds, ReplyEnds DEF Goto
  <2> QED BY <2>1, <2>3, <2>4, EndAdvances, AskAdvances, MoveAdvances
<1> QED BY <1>1, <1>2, <1>3, <1>4, <1>5, <1>6, <1>7

\* The reply of a poll goes down.
LEMMA PollReplyAdvances ==
  ASSUME PlaceInv, pc = "poll", NEW t, NEW tells, NEW ok, PollReply(t, tells, ok)
  PROVE  PlaceInv' /\ Advances
<1>1. \/ call.in_control /\ \E u, contents : InterruptReply(u, contents, tells, ok)
      \/ \E u : RequiresMeta(u)
      \/ \E u, contents, open : Reply(u, contents, open)
  BY DEF PollReply
<1> QED BY <1>1, InterruptReplyAdvances, RequiresMetaEnds, ReplyEnds, EndAdvances, AskAdvances

\* Preflight and poll go down.
LEMMA InputAdvances ==
  ASSUME PlaceInv, NEW ok,
         \/ GuardrailBusyAbort(ok) \/ PreflightPoll \/ PreflightIdle(ok) \/ PreflightInput
         \/ PollError(ok) \/ PollPending(ok) \/ PollSettled(ok)
  PROVE  PlaceInv' /\ Advances
<1>0. IsCall(call)
  BY DEF PlaceInv
<1>1. CASE GuardrailBusyAbort(ok)
  BY <1>1, ReplyEnds, EndAdvances DEF GuardrailBusyAbort, ErrorReply
<1>2. CASE PreflightPoll \/ PreflightInput
  <2>1. /\ pc = "preflight" /\ pc' \in {"poll", "dispatch"} /\ call' = call /\ ~call.in_control
    BY <1>2 DEF PreflightPoll, PreflightInput, Preflighting, Goto, PlaceInv
  <2> QED BY <1>0, <2>1, MoveAdvances
<1>3. CASE PreflightIdle(ok)
  <2>1. pc = "preflight"
    BY <1>3 DEF PreflightIdle, Preflighting
  <2>2. (\E u : RequiresMeta(u)) \/ (\E u, contents, open : Reply(u, contents, open))
    BY <1>3 DEF PreflightIdle, ErrorReply
  <2> QED BY <2>1, <2>2, RequiresMetaEnds, ReplyEnds, EndAdvances, AskAdvances
<1>4. CASE PollError(ok)
  BY <1>4, FailEnds, EndAdvances DEF PollError
<1>5. CASE PollPending(ok)
  <2>1. pc = "poll"
    BY <1>5 DEF PollPending
  <2>2. (\E t, open : Fail(t, open)) \/ (\E t, tells : PollReply(t, tells, ok))
    BY <1>5 DEF PollPending
  <2> QED BY <2>1, <2>2, FailEnds, EndAdvances, PollReplyAdvances
<1>6. CASE PollSettled(ok)
  <2>1. pc = "poll" /\ \E t, tells : PollReply(t, tells, ok)
    BY <1>6 DEF PollSettled
  <2> QED BY <2>1, PollReplyAdvances
<1> QED BY <1>1, <1>2, <1>3, <1>4, <1>5, <1>6

\* Dispatch, send and wait go down.
LEMMA DispatchAdvances ==
  ASSUME PlaceInv, NEW ok,
         Dispatch(ok) \/ SendTimesOut \/ SendUncertain(ok) \/ SendAccepted \/ Await(ok)
  PROVE  PlaceInv' /\ Advances
<1>0. IsCall(call)
  BY DEF PlaceInv
<1>1. CASE Dispatch(ok)
  <2>1. pc = "dispatch" /\ ~call.in_control
    BY <1>1 DEF Dispatch, PlaceInv
  <2>2. \/ \E t, open : Fail(t, open)
        \/ \E t, contents, open : Reply(t, contents, open)
        \/ \E t, x : Goto("send", t, [call EXCEPT !.context = x])
    BY <1>1 DEF Dispatch, ErrorReply
  <2>3. \/ EndsCall
        \/ /\ pc' = "send" /\ IsCall(call')
           /\ call'.retried = call.retried /\ ~call'.in_control
    BY <1>0, <2>1, <2>2, FailEnds, ReplyEnds DEF Goto, IsCall, CallFields
  <2> QED BY <2>1, <2>3, EndAdvances, MoveAdvances
<1>2. CASE SendTimesOut \/ SendUncertain(ok)
  BY <1>2, ReplyEnds, EndAdvances DEF SendTimesOut, SendUncertain, SendErrorReply
<1>3. CASE SendAccepted
  <2>1. pc = "send" /\ pc' = "await" /\ call' = call /\ ~call.in_control
    BY <1>3 DEF SendAccepted, PlaceInv
  <2> QED BY <1>0, <2>1, MoveAdvances
<1>4. CASE Await(ok)
  <2>1. (\E t, open : Fail(t, open)) \/ (\E t, contents, open : Reply(t, contents, open))
    BY <1>4 DEF Await
  <2> QED BY <2>1, FailEnds, ReplyEnds, EndAdvances
<1> QED BY <1>1, <1>2, <1>3, <1>4

\* Every step of a call goes down.
LEMMA CallStepAdvances == ASSUME PlaceInv, CallStep PROVE PlaceInv' /\ Advances
<1>1. ASSUME RejectCall \/ DeferCallMeta \/ StartControl \/ StartInput \/ Restart \/ Interrupt
             \/ PreflightPoll \/ PreflightInput \/ SendTimesOut \/ SendAccepted
      PROVE  PlaceInv' /\ Advances
  BY <1>1, MetaAdvances, ControlAdvances, InputAdvances, DispatchAdvances
<1>2. ASSUME NEW ok,
             \/ ApplyCallMeta(ok) \/ Retry(ok) \/ InterruptFails(ok) \/ AwaitPrompt(ok)
             \/ FinishControl(ok) \/ GuardrailBusyAbort(ok) \/ PreflightIdle(ok)
             \/ PollError(ok) \/ PollPending(ok) \/ PollSettled(ok)
             \/ Dispatch(ok) \/ SendUncertain(ok) \/ Await(ok)
      PROVE  PlaceInv' /\ Advances
  BY <1>2, MetaAdvances, ControlAdvances, InputAdvances, DispatchAdvances
<1> QED BY <1>1, <1>2 DEF CallStep

\* The steps that are not a call's own leave it alone or belong to no call.
LEMMA OtherSteps ==
  ASSUME PlaceInv, Next, ~CallStep
  PROVE  /\ PlaceInv'
         /\ pc = "idle" \/ <<pc, call>>' = <<pc, call>>
<1>1. ASSUME NEW control \in {"none", "interrupt", "restart"}, NEW tail \in BOOLEAN, NEW meta,
             ToolCall(control, tail, meta)
      PROVE  PlaceInv' /\ pc = "idle"
  <2>1. pc = "idle" /\ pc' = "called" /\ call' = NewCall(control, tail, meta)
    BY <1>1 DEF ToolCall
  <2>2. IsCall(call') /\ ~call'.in_control
    BY <2>1 DEF NewCall, IsCall, CallFields
  <2> QED BY <2>1, <2>2 DEF PlaceInv
<1>2. ASSUME NEW ok, WarmStart(ok) PROVE PlaceInv' /\ <<pc, call>>' = <<pc, call>>
  BY <1>2 DEF WarmStart, PlaceInv
<1>3. ASSUME Shutdown PROVE PlaceInv' /\ pc = "idle"
  BY <1>3 DEF Shutdown, Goto, PlaceInv
<1>4. ASSUME Closed PROVE PlaceInv' /\ <<pc, call>>' = <<pc, call>>
  BY <1>4 DEF Closed, vars, PlaceInv
<1>5. ASSUME Environment PROVE PlaceInv' /\ <<pc, call>>' = <<pc, call>>
  <2>1. <<pc, call>>' = <<pc, call>>
    BY <1>5 DEF Environment, Produce, Complete, SessionEnds, SidebandError, Disconnect, Exit,
                GuardrailDecides, GuardrailNotes, GuardrailKills, ManagerOnly
  <2> QED BY <2>1 DEF PlaceInv
<1> QED BY <1>1, <1>2, <1>3, <1>4, <1>5 DEF Next

\* CallsAdvance, for every setup: whatever fails and whatever the worker does
\* meanwhile, a step of run_write_input goes down the list of places, and
\* the second attempt starts below the end of the first.
THEOREM CallsAdvanceCorrect == Spec => CallsAdvance
<1>1. Init => PlaceInv
  BY NoCallFacts DEF Init, PlaceInv
<1>2. PlaceInv /\ [Next]_vars => PlaceInv'
  BY CallStepAdvances, OtherSteps DEF vars, PlaceInv
<1>3. PlaceInv /\ [Next]_vars =>
        [ (pc # "idle" /\ pc' \notin {"idle", "closed"} /\ <<pc, call>>' # <<pc, call>>)
          => Rank(pc', call') < Rank(pc, call) ]_vars
  BY CallStepAdvances, OtherSteps DEF vars, Advances
<1> QED BY <1>1, <1>2, <1>3, PTL DEF Spec, CallsAdvance

-----------------------------------------------------------------------------
(* Input runs under the policy of its call.                                *)

\* The end of a call, and an ordinary step of it, at the manager t.
EndsWith(t) == s' = t /\ pc' = "idle" /\ call' = NoCall /\ req' = req
Moves(place, t, c) == s' = t /\ pc' = place /\ call' = c /\ req' = req

\* A reply ends the call in the state it is given.
LEMMA ReplyEndsWith ==
  ASSUME NEW t, NEW contents, NEW open, Reply(t, contents, open) PROVE EndsWith(t)
BY DEF Reply, EndsWith

\* An error reply ends the call in the state it is given.
LEMMA FailEndsWith == ASSUME NEW t, NEW open, Fail(t, open) PROVE EndsWith(t)
BY DEF Fail, EndsWith

\* A call that ends with a faithful worker keeps PolicyInv.
LEMMA EndPolicy ==
  ASSUME PolicyInv, NEW t, EndsWith(t), IsManager(t), Faithful(t)
  PROVE  PolicyInv'
BY NoCallFacts DEF EndsWith, PolicyInv, MetaHeld

\* Everywhere but in the staging before a restart the worker is faithful.
LEMMA MostlyFaithful ==
  ASSUME PolicyInv, pc # "restart" PROVE Faithful(s) /\ IsManager(s)
BY DEF PolicyInv

\* A call that ends steadily keeps PolicyInv.
LEMMA SteadyEnd ==
  ASSUME PolicyInv, pc # "restart", NEW t, Steady(s, t), EndsWith(t)
  PROVE  PolicyInv'
BY MostlyFaithful, EndPolicy DEF Steady

\* A call that goes on with its metadata held keeps PolicyInv.
LEMMA MovePolicy ==
  ASSUME PolicyInv, NEW place, NEW t, NEW c, Moves(place, t, c),
         IsManager(t), MetaHeld(t, c),
         Faithful(t) \/ (place = "restart" /\ ~missing_inherited_sandbox_state(t)),
         place \notin {"called", "send"},
         place = "preflight" => c.control = "none",
         place = "dispatch" => c.tail
  PROVE  PolicyInv'
BY DEF Moves, PolicyInv

\* The manager's policy, the input and its metadata stay.
LEMMA MetaKept ==
  ASSUME NEW t, NEW c, MetaHeld(s, call), Steady(s, t),
         c.tail = call.tail, c.meta = call.meta, c.deferred = call.deferred
  PROVE  MetaHeld(t, c)
BY DEF MetaHeld, Steady

\* The retry under the call's metadata keeps PolicyInv.
LEMMA AskPolicy ==
  ASSUME PlaceInv, PolicyInv, pc \notin {"called", "restart"},
         NEW t, Steady(s, t), RequiresMeta(t)
  PROVE  PolicyInv'
<1> DEFINE c == [call EXCEPT !.held = << >>, !.context = << >>,
                             !.in_control = FALSE, !.told = FALSE]
<1>1. EndsWith(t) \/ Moves("retry", t, c)
  BY DEF RequiresMeta, EndsWith, Moves
<1>2. c.tail = call.tail /\ c.meta = call.meta /\ c.deferred = call.deferred
  BY DEF PlaceInv, IsCall, CallFields
<1> HIDE DEF c
<1>3. Faithful(t) /\ IsManager(t)
  BY MostlyFaithful DEF Steady
<1>4. MetaHeld(t, c)
  BY <1>2, MetaKept DEF PolicyInv
<1> QED BY <1>1, <1>3, <1>4, SteadyEnd, MovePolicy

\* The zero-wait look leaves worker and policy.
LEMMA RecheckedSteady == ASSUME IsManager(s) PROVE Steady(s, Rechecked)
BY TimeoutMarkerSteady DEF Rechecked, Steady

\* Once the metadata is applied the worker runs under it.
LEMMA ApplyPolicy ==
  ASSUME PlaceInv, PolicyInv, pc # "restart", ~MetaMissing,
         NEW t, Steady(s, t), NEW c, IsCall(c), NEW ok, ApplyMeta(t, c, ok),
         c.tail = call.tail, c.meta = call.meta, c.deferred = None
  PROVE  PolicyInv'
<1> DEFINE u == update_sandbox_state(t, call.meta, ok)
           n == normalize_input_after_sandbox_respawn(c)
<1>1. IsManager(t) /\ Faithful(t) /\ t.inherit = s.inherit
  BY MostlyFaithful DEF Steady
<1>2. /\ IsManager(u) /\ u.inherit = t.inherit /\ Faithful(u)
      /\ call.meta # None => u.sandbox_state = call.meta
  BY <1>1, UpdateFacts
<1>3. n.tail = call.tail /\ n.meta = call.meta /\ n.deferred = None
  BY DEF normalize_input_after_sandbox_respawn, IsCall, CallFields
<1>4. EndsWith(u) \/ Moves("write", u, n) \/ Moves("write", u, c)
  BY FailEndsWith DEF ApplyMeta, Goto, Moves
<1> HIDE DEF u, n
<1>5. MetaHeld(u, n) /\ MetaHeld(u, c)
  BY <1>1, <1>2, <1>3 DEF MetaHeld, MetaMissing
<1> QED BY <1>2, <1>4, <1>5, EndPolicy, MovePolicy

\* The steps that deal with metadata keep PolicyInv.
LEMMA MetaPolicy ==
  ASSUME PlaceInv, PolicyInv, NEW ok,
         ApplyCallMeta(ok) \/ DeferCallMeta \/ RejectCall \/ Retry(ok)
  PROVE  PolicyInv'
<1>0. IsManager(s) /\ IsCall(call)
  BY DEF PlaceInv, PolicyInv
<1>1. CASE ApplyCallMeta(ok)
  <2>1. /\ pc = "called" /\ ~MetaMissing /\ ApplyMeta(Rechecked, call, ok)
        /\ call.deferred = None
    BY <1>1 DEF ApplyCallMeta, PolicyInv
  <2> QED BY <1>0, <2>1, RecheckedSteady, ApplyPolicy
<1>2. CASE DeferCallMeta
  <2> DEFINE c == [call EXCEPT !.deferred = call.meta,
                               !.suppress = MetaMissing /\ DrainsOnly(Rechecked)]
  <2>1. /\ pc = "called" /\ Moves("write", Rechecked, c)
        /\ ~AppliesMeta(Rechecked) /\ (MetaMissing => call.control # "restart")
    BY <1>2 DEF DeferCallMeta, Goto, Moves
  <2>2. c.deferred = call.meta /\ c.tail = call.tail /\ c.meta = call.meta
    BY <1>0 DEF IsCall, CallFields
  <2>3. Steady(s, Rechecked) /\ Faithful(Rechecked) /\ IsManager(Rechecked)
    BY <1>0, <2>1, RecheckedSteady, MostlyFaithful DEF Steady
  <2>4. s.inherit /\ call.tail => call.meta # None
    BY <1>0, <2>1 DEF MetaMissing, AppliesMeta, Empty, BareInterrupt, IsCall
  <2> HIDE DEF c
  <2>5. MetaHeld(Rechecked, c)
    BY <2>2, <2>3, <2>4 DEF MetaHeld, Steady
  <2> QED BY <2>1, <2>3, <2>5, MovePolicy
<1>3. CASE RejectCall
  <2>1. pc = "called" /\ EndsWith(Rechecked)
    BY <1>3 DEF RejectCall, EndsWith
  <2> QED BY <1>0, <2>1, RecheckedSteady, SteadyEnd
<1>4. CASE Retry(ok)
  <2> DEFINE c == [call EXCEPT !.retried = TRUE, !.prechecked = FALSE,
                               !.deferred = None, !.suppress = FALSE,
                               !.stage_after = FALSE]
  <2>1. pc = "retry" /\ (Fail(s, owed) \/ (~MetaMissing /\ ApplyMeta(s, c, ok)))
    BY <1>4 DEF Retry
  <2>2. IsCall(c) /\ c.tail = call.tail /\ c.meta = call.meta /\ c.deferred = None
    BY <1>0 DEF IsCall, CallFields
  <2>3. Steady(s, s)
    BY <1>0 DEF Steady
  <2> HIDE DEF c
  <2> QED BY <2>1, <2>2, <2>3, FailEndsWith, SteadyEnd, ApplyPolicy
<1> QED BY <1>1, <1>2, <1>3, <1>4

\* The reply of an interrupt keeps PolicyInv.
LEMMA InterruptReplyPolicy ==
  ASSUME PlaceInv, PolicyInv, pc \notin {"called", "restart"},
         NEW t, Steady(s, t), NEW contents, NEW tells, NEW ok,
         InterruptReply(t, contents, tells, ok)
  PROVE  PolicyInv'
<1> DEFINE c == [call EXCEPT !.held = contents, !.in_control = FALSE, !.told = tells]
           r == ResetWithOptions(t, None, call.suppress, ok)
<1>1. Moves("control", t, c) \/ Moves("control", r, c)
  BY DEF InterruptReply, Goto, Moves
<1>2. c.tail = call.tail /\ c.meta = call.meta /\ c.deferred = call.deferred
  BY DEF PlaceInv, IsCall, CallFields
<1>3. Steady(t, r)
  BY ResetWithOptionsFacts DEF Steady, PlaceInv, IsCall
<1> HIDE DEF c, r
<1>4. Steady(s, r)
  BY <1>3, SteadyTrans
<1>5. Faithful(t) /\ Faithful(r) /\ IsManager(t) /\ IsManager(r)
  BY <1>4, MostlyFaithful DEF Steady
<1>6. MetaHeld(t, c) /\ MetaHeld(r, c)
  BY <1>2, <1>4, MetaKept DEF PolicyInv
<1> QED BY <1>1, <1>5, <1>6, MovePolicy

\* Draining the tape leaves worker and policy.
LEMMA DrainSteady == ASSUME NEW t, IsManager(t) PROVE Steady(t, [t EXCEPT !.tape = << >>])
BY DEF IsManager, Fields, Steady, Faithful, is_running

\* The steps of a control prefix keep PolicyInv.
LEMMA ControlPolicy ==
  ASSUME PlaceInv, PolicyInv, NEW ok,
         \/ StartControl \/ StartInput \/ Restart \/ Interrupt
         \/ InterruptFails(ok) \/ AwaitPrompt(ok) \/ FinishControl(ok)
  PROVE  PolicyInv'
<1>0. IsManager(s) /\ IsCall(call) /\ Steady(s, s)
  BY DEF PlaceInv, PolicyInv, Steady
<1>1. CASE StartControl
  <2> DEFINE t == clear_guardrail_busy_event(s)
             requires_spawn == call.control = "interrupt" /\ ~is_running(t)
             before == requires_spawn \/ call.control = "restart"
             u == stage_sandbox_state_update(t, call.deferred)
             c == [call EXCEPT !.stage_after = ~before,
                               !.deferred = IF before THEN None ELSE @]
  <2>1. /\ pc = "write" /\ call.control # "none"
        /\ RequiresMeta(t) \/ Moves(call.control, IF before THEN u ELSE t, c)
    BY <1>1 DEF StartControl, Goto, Moves
  <2>2. Steady(s, t) /\ IsManager(t) /\ Faithful(t)
    BY <1>0, <2>1, ClearBusySteady, MostlyFaithful DEF Steady
  <2> HIDE DEF t
  <2>3. /\ IsManager(u) /\ u.inherit = t.inherit
        /\ u.process = t.process /\ u.alive = t.alive /\ u.worker_policy = t.worker_policy
        /\ call.deferred = None => u = t
        /\ call.deferred # None => u.sandbox_state = call.deferred /\ u.inherited_sandbox_state
    BY <2>2, StageFacts
  <2>4. /\ c.tail = call.tail /\ c.meta = call.meta
        /\ c.deferred = IF before THEN None ELSE call.deferred
    BY <1>0 DEF IsCall, CallFields
  <2> HIDE DEF u, c
  <2>5. MetaHeld(s, call)
    BY <2>1 DEF PolicyInv
  <2>6. before => MetaHeld(u, c)
    BY <2>2, <2>3, <2>4, <2>5 DEF MetaHeld, Steady
  <2>7. ~before => MetaHeld(t, c)
    BY <2>2, <2>4, <2>5, MetaKept
  <2>8. requires_spawn => Faithful(u)
    BY <2>3 DEF Faithful, is_running
  <2>9. Faithful(u) \/ ~missing_inherited_sandbox_state(u)
    BY <2>2, <2>3 DEF missing_inherited_sandbox_state
  <2>10. call.control \in {"interrupt", "restart"}
    BY <1>0, <2>1 DEF IsCall
  <2>11. CASE RequiresMeta(t)
    BY <2>1, <2>2, <2>11, AskPolicy
  <2>12. CASE before /\ Moves(call.control, u, c)
    BY <2>3, <2>6, <2>8, <2>9, <2>10, <2>12, MovePolicy
  <2>13. CASE ~before /\ Moves(call.control, t, c)
    BY <2>2, <2>7, <2>10, <2>13, MovePolicy
  <2> HIDE DEF before
  <2> QED BY <2>1, <2>11, <2>12, <2>13
<1>2. CASE StartInput
  <2>1. pc = "write" /\ call.control = "none" /\ Moves("preflight", s, call)
    BY <1>2 DEF StartInput, Goto, Moves
  <2> QED BY <1>0, <2>1, MostlyFaithful, MovePolicy DEF PolicyInv
<1>3. CASE Restart
  <2> DEFINE n == maybe_emit_pending_server_notice(s)
             t == DropProcess(n)
             x == clear_preserved_prefixes(t)
             u == [x EXCEPT !.guardrail_busy = FALSE]
             r == reset_output_state(u, TRUE)
             c == [call EXCEPT !.held = t.tape, !.told = TRUE]
  <2>1. /\ pc = "restart"
        /\ \/ missing_inherited_sandbox_state(s) /\ EndsWith(s)
           \/ Moves("control", r, c)
    BY <1>3, FailEndsWith DEF Restart, Goto, Moves
  <2>2. Steady(s, n) /\ IsManager(n)
    BY <1>0, ServerNoticeSteady DEF Steady
  <2>3. Steady(n, t) /\ IsManager(t) /\ Faithful(t)
    BY <2>2, DropProcessSteady DEF Steady, Faithful
  <2>4. Steady(t, x) /\ IsManager(x)
    BY <2>3, ClearPrefixesSteady DEF Steady
  <2>5. c.tail = call.tail /\ c.meta = call.meta /\ c.deferred = call.deferred
    BY <1>0 DEF IsCall, CallFields
  <2> HIDE DEF n, t, x, c
  <2>6. Steady(x, u) /\ IsManager(u)
    BY <2>4 DEF IsManager, Fields, Steady, Faithful, is_running
  <2> HIDE DEF u
  <2>7. Steady(u, r) /\ IsManager(r)
    BY <2>6, ResetOutputSteady DEF Steady
  <2> HIDE DEF r
  <2>8. Steady(s, r)
    BY <2>2, <2>3, <2>4, <2>6, <2>7, SteadyTrans
  <2>9. Faithful(r)
    BY <2>3, <2>4, <2>6, <2>7 DEF Steady
  <2>10. MetaHeld(r, c)
    BY <2>1, <2>5, <2>8, MetaKept DEF PolicyInv
  <2>11. missing_inherited_sandbox_state(s) => Faithful(s)
    BY DEF PolicyInv
  <2> QED BY <1>0, <2>1, <2>7, <2>9, <2>10, <2>11, EndPolicy, MovePolicy
<1>4. CASE Interrupt
  <2> DEFINE c == [call EXCEPT !.in_control = TRUE]
  <2>1. pc = "interrupt" /\ (Moves("poll", s, c) \/ Moves("prompt", s, call))
    BY <1>4 DEF Interrupt, Goto, Moves
  <2>2. c.tail = call.tail /\ c.meta = call.meta /\ c.deferred = call.deferred
    BY <1>0 DEF IsCall, CallFields
  <2> HIDE DEF c
  <2>3. MetaHeld(s, call) /\ MetaHeld(s, c)
    BY <1>0, <2>1, <2>2, MetaKept DEF PolicyInv
  <2> QED BY <1>0, <2>1, <2>3, MostlyFaithful, MovePolicy
<1>5. CASE InterruptFails(ok)
  <2>1. pc = "interrupt" /\ EndsWith(reset(s, ok))
    BY <1>5, FailEndsWith DEF InterruptFails
  <2> QED BY <1>0, <2>1, ResetSteady, SteadyEnd
<1>6. CASE AwaitPrompt(ok)
  <2> DEFINE f == [s EXCEPT !.fault = "taken"]
             n == note_session_end(f, TRUE)
             t == IF s.process /\ s.fault = "ended" THEN n ELSE s
             u == [t EXCEPT !.tape = << >>]
  <2>1. /\ pc = "prompt"
        /\ Fail(take_protocol_error(s), owed) \/ InterruptReply(u, t.tape, FALSE, ok)
    BY <1>6 DEF AwaitPrompt
  <2>2. Steady(s, f) /\ IsManager(f)
    BY <1>0 DEF IsManager, Fields, Steady, Faithful, is_running
  <2> HIDE DEF f
  <2>3. Steady(f, n)
    BY <2>2, SessionEndSteady
  <2> HIDE DEF n
  <2>4. Steady(s, t) /\ IsManager(t)
    BY <1>0, <2>2, <2>3, SteadyTrans DEF Steady
  <2> HIDE DEF t
  <2>5. Steady(s, u)
    BY <2>4, DrainSteady, SteadyTrans
  <2> HIDE DEF u
  <2>6. Steady(s, take_protocol_error(s))
    BY <1>0, TakeAnswerSteady
  <2> QED BY <2>1, <2>5, <2>6, FailEndsWith, SteadyEnd, InterruptReplyPolicy
<1>7. CASE FinishControl(ok)
  <2> DEFINE resets == call.stage_after /\ s.session_end_seen /\ ~call.suppress
             r == ResetWithOptions(s, call.deferred, FALSE, ok)
             t == IF resets THEN r ELSE s
             c == [call EXCEPT !.control = "none", !.prechecked = FALSE, !.suppress = FALSE,
                               !.deferred = IF resets THEN None ELSE @]
  <2>1. /\ pc = "control"
        /\ RequiresMeta(s) \/ Reply(t, << >>, Untold(FALSE)) \/ Moves("preflight", t, c)
    BY <1>7 DEF FinishControl, Goto, Moves
  <2>2. /\ IsManager(r) /\ r.inherit = s.inherit
        /\ Faithful(s) => Faithful(r)
        /\ s.session_end_seen /\ call.deferred # None => r.sandbox_state = call.deferred
        /\ call.deferred = None => Steady(s, r)
    <3> DEFINE no == FALSE
    <3>1. no \in BOOLEAN /\ ~no /\ r = ResetWithOptions(s, call.deferred, no, ok)
      OBVIOUS
    <3> HIDE DEF no, r
    <3> QED BY <1>0, <3>1, ResetWithOptionsFacts
  <2>3. /\ c.tail = call.tail /\ c.meta = call.meta /\ c.control = "none"
        /\ c.deferred = IF resets THEN None ELSE call.deferred
    BY <1>0 DEF IsCall, CallFields
  <2>4. MetaHeld(s, call) /\ Faithful(s)
    BY <2>1, MostlyFaithful DEF PolicyInv
  <2> HIDE DEF r, c
  <2>5. resets => MetaHeld(r, c)
    BY <2>2, <2>3, <2>4 DEF MetaHeld, Steady
  <2>6. ~resets => MetaHeld(s, c)
    BY <1>0, <2>3, <2>4, MetaKept
  <2>7. MetaHeld(t, c) /\ IsManager(t) /\ Faithful(t)
    BY <1>0, <2>2, <2>4, <2>5, <2>6
  <2> HIDE DEF t
  <2> QED BY <1>0, <2>1, <2>3, <2>7, AskPolicy, ReplyEndsWith, EndPolicy, MovePolicy
<1> QED BY <1>1, <1>2, <1>3, <1>4, <1>5, <1>6, <1>7

\* The reply of a poll keeps PolicyInv.
LEMMA PollReplyPolicy ==
  ASSUME PlaceInv, PolicyInv, pc = "poll",
         NEW t, Steady(s, t), NEW tells, NEW ok, PollReply(t, tells, ok)
  PROVE  PolicyInv'
<1> DEFINE u == [t EXCEPT !.tape = << >>]
           r == ResetWithOptions(u, call.deferred, call.suppress, ok)
<1>1. \/ InterruptReply(u, t.tape, tells, ok)
      \/ RequiresMeta(u)
      \/ Reply(r, t.tape, Untold(tells \/ Notice \in Range(t.tape)))
  BY DEF PollReply
<1>2. Steady(s, u) /\ IsManager(u) /\ Faithful(u)
  BY DrainSteady, SteadyTrans, MostlyFaithful DEF Steady
<1> HIDE DEF u
<1>3. IsManager(r) /\ Faithful(r)
  BY <1>2, ResetWithOptionsFacts DEF PlaceInv, IsCall
<1> HIDE DEF r
<1> QED BY <1>1, <1>2, <1>3, InterruptReplyPolicy, AskPolicy, ReplyEndsWith, EndPolicy

\* The look before an input leaves worker and policy.
LEMMA PreflightedSteady == ASSUME IsManager(s) PROVE Steady(s, Preflighted)
<1> DEFINE t == maybe_emit_guardrail_notice(s)
<1>1. Steady(s, t) /\ IsManager(t)
  BY GuardrailNoticeSteady DEF Steady
<1>2. Preflighted = t \/ Preflighted = resolve_timeout_marker(t)
  BY DEF Preflighted
<1> HIDE DEF t
<1>3. Steady(s, resolve_timeout_marker(t))
  BY <1>1, TimeoutMarkerSteady, SteadyTrans
<1> QED BY <1>1, <1>2, <1>3

\* An error reply after a reset keeps PolicyInv.
LEMMA ErrorReplyPolicy ==
  ASSUME PolicyInv, pc # "restart", NEW t, NEW u, Steady(s, u), NEW ok,
         ErrorReply(t, DefaultReset(u, ok))
  PROVE  PolicyInv'
<1>1. EndsWith(DefaultReset(u, ok))
  BY ReplyEndsWith DEF ErrorReply
<1>2. Steady(s, DefaultReset(u, ok))
  BY DefaultResetSteady, SteadyTrans DEF Steady
<1> QED BY <1>1, <1>2, SteadyEnd

\* Preflight and poll keep PolicyInv.
LEMMA InputPolicy ==
  ASSUME PlaceInv, PolicyInv, NEW ok,
         \/ GuardrailBusyAbort(ok) \/ PreflightPoll \/ PreflightIdle(ok) \/ PreflightInput
         \/ PollError(ok) \/ PollPending(ok) \/ PollSettled(ok)
  PROVE  PolicyInv'
<1>0. IsManager(s) /\ IsCall(call) /\ Steady(s, s)
  BY DEF PlaceInv, PolicyInv, Steady
<1>1. CASE GuardrailBusyAbort(ok)
  <2> DEFINE n == maybe_emit_guardrail_notice(s)
             t == [n EXCEPT !.guardrail_event = "none", !.guardrail_busy = FALSE]
             p == prepare_input_context(t)
             r == reset(p, ok)
  <2>1. pc = "preflight" /\ ErrorReply(t, DefaultReset(r, ok))
    BY <1>1 DEF GuardrailBusyAbort
  <2>2. Steady(s, n) /\ IsManager(n)
    BY <1>0, GuardrailNoticeSteady DEF Steady
  <2> HIDE DEF n
  <2>3. Steady(n, t) /\ IsManager(t)
    BY <2>2 DEF IsManager, Fields, Steady, Faithful, is_running
  <2> HIDE DEF t
  <2>4. Steady(t, p) /\ IsManager(p)
    BY <2>3, InputContextSteady DEF Steady
  <2> HIDE DEF p
  <2>5. Steady(p, r)
    BY <2>4, ResetSteady
  <2> HIDE DEF r
  <2>6. Steady(s, r)
    BY <2>2, <2>3, <2>4, <2>5, SteadyTrans
  <2> QED BY <2>1, <2>6, ErrorReplyPolicy
<1>2. CASE PreflightPoll \/ PreflightInput
  <2>1. /\ pc = "preflight"
        /\ Moves("poll", Preflighted, call) \/ (Moves("dispatch", Preflighted, call) /\ ~Empty)
        /\ call.control = "none"
    BY <1>2 DEF PreflightPoll, PreflightInput, Preflighting, Goto, Moves, PolicyInv
  <2>2. ~Empty => call.tail
    BY <2>1 DEF Empty
  <2>3. Steady(s, Preflighted) /\ IsManager(Preflighted) /\ Faithful(Preflighted)
    BY <1>0, <2>1, PreflightedSteady, MostlyFaithful DEF Steady
  <2>4. MetaHeld(Preflighted, call)
    BY <2>1, <2>3, MetaKept DEF PolicyInv
  <2> QED BY <2>1, <2>2, <2>3, <2>4, MovePolicy
<1>3. CASE PreflightIdle(ok)
  <2> DEFINE t == Preflighted
             u == ensure_process(t, ok)
             d == DefaultReset(u, ok)
             p == prepare_input_context(u)
  <2>1. /\ pc = "preflight"
        /\ \/ RequiresMeta(t)
           \/ Reply(d, << >>, Untold(FALSE))
           \/ ErrorReply(u, DefaultReset(p, ok))
    BY <1>3 DEF PreflightIdle, Preflighting
  <2>2. Steady(s, t) /\ IsManager(t)
    BY <1>0, PreflightedSteady DEF Steady
  <2> HIDE DEF t
  <2>3. Steady(s, u) /\ IsManager(u)
    BY <2>2, EnsureSteady, SteadyTrans DEF Steady
  <2> HIDE DEF u
  <2>4. Steady(s, d) /\ Steady(s, p)
    BY <2>3, DefaultResetSteady, InputContextSteady, SteadyTrans
  <2> HIDE DEF d, p
  <2> QED BY <2>1, <2>2, <2>4, AskPolicy, ReplyEndsWith, SteadyEnd, ErrorReplyPolicy
<1>4. CASE PollError(ok)
  <2> DEFINE t == [s EXCEPT !.settled_pending_error = FALSE]
  <2>1. pc = "poll" /\ EndsWith(reset(t, ok))
    BY <1>4, FailEndsWith DEF PollError
  <2>2. Steady(s, t) /\ IsManager(t)
    BY <1>0 DEF IsManager, Fields, Steady, Faithful, is_running
  <2> HIDE DEF t
  <2>3. Steady(s, reset(t, ok))
    BY <2>2, ResetSteady, SteadyTrans
  <2> QED BY <2>1, <2>3, SteadyEnd
<1>5. CASE PollPending(ok)
  <2>1. pc = "poll" /\ (Fail(s, owed) \/ \E w \in CompletionWaits(s) :
           LET cleared == clear_pending_request_state(w.state) IN
           \/ \E tells : PollReply(cleared, tells, ok)
           \/ \E tells : PollReply(note_session_end(cleared, TRUE), tells, ok)
           \/ \E tells : PollReply(w.state, tells, ok)
           \/ Fail(w.state, owed))
    BY <1>5 DEF PollPending
  <2>2. ASSUME NEW w \in CompletionWaits(s)
        PROVE  LET cleared == clear_pending_request_state(w.state) IN
               Steady(s, w.state) /\ Steady(s, cleared) /\ Steady(s, note_session_end(cleared, TRUE))
    <3> DEFINE cleared == clear_pending_request_state(w.state)
    <3>1. Steady(s, w.state) /\ IsManager(w.state)
      BY <1>0, WaitsSteady DEF Steady
    <3>2. Steady(s, cleared) /\ IsManager(cleared)
      BY <3>1, ClearPendingSteady, SteadyTrans DEF Steady
    <3> HIDE DEF cleared
    <3>3. Steady(s, note_session_end(cleared, TRUE))
      BY <3>2, SessionEndSteady, SteadyTrans
    <3> QED BY <3>1, <3>2, <3>3 DEF cleared
  <2> QED BY <1>0, <2>1, <2>2, FailEndsWith, SteadyEnd, PollReplyPolicy
<1>6. CASE PollSettled(ok)
  <2> DEFINE t == [s EXCEPT !.settled_pending_completion = None]
             n == note_session_end(t, FALSE)
  <2>1. pc = "poll" /\ \E tells : PollReply(n, tells, ok) \/ PollReply(t, tells, ok)
    BY <1>6 DEF PollSettled
  <2>2. Steady(s, t) /\ IsManager(t)
    BY <1>0 DEF IsManager, Fields, Steady, Faithful, is_running
  <2> HIDE DEF t
  <2>3. Steady(s, n)
    BY <2>2, SessionEndSteady, SteadyTrans
  <2> HIDE DEF n
  <2> QED BY <2>1, <2>2, <2>3, PollReplyPolicy
<1> QED BY <1>1, <1>2, <1>3, <1>4, <1>5, <1>6

\* An input is dispatched to a worker under the call's policy.
LEMMA DispatchPolicy ==
  ASSUME PlaceInv, PolicyInv, NEW ok, Dispatch(ok)
  PROVE  PolicyInv'
<1> DEFINE t == update_sandbox_state(s, call.deferred, ok)
           u == ensure_process(t, ok)
           p == prepare_input_context(u)
           c == [call EXCEPT !.context = InputContext(u)]
<1>1. /\ pc = "dispatch"
      /\ \/ Fail(t, {})
         \/ is_running(u) /\ Moves("send", p, c)
         \/ ErrorReply(u, DefaultReset(p, ok))
  BY DEF Dispatch, Goto, Moves
<1>2. IsManager(s) /\ Faithful(s) /\ MetaHeld(s, call) /\ call.tail
  BY <1>1, MostlyFaithful DEF PolicyInv
<1>3. /\ IsManager(t) /\ t.inherit = s.inherit /\ Faithful(t)
      /\ call.deferred = None => t = s
      /\ call.deferred # None => t.sandbox_state = call.deferred
  BY <1>2, UpdateFacts
<1> HIDE DEF t
<1>4. Steady(t, u) /\ IsManager(u) /\ Faithful(u)
  BY <1>3, EnsureSteady DEF Steady
<1> HIDE DEF u
<1>5. Steady(u, p) /\ IsManager(p) /\ Faithful(p) /\ p.worker_policy = u.worker_policy
  BY <1>4, InputContextSteady DEF Steady
<1>6. c.tail = call.tail /\ c.meta = call.meta /\ c.deferred = call.deferred
  BY DEF PlaceInv, IsCall, CallFields
<1> HIDE DEF p, c
<1>7. s.inherit => t.sandbox_state = call.meta /\ call.meta # None
  BY <1>2, <1>3 DEF MetaHeld
<1>8. p.inherit = s.inherit /\ p.sandbox_state = t.sandbox_state /\ u.sandbox_state = t.sandbox_state
  BY <1>3, <1>4, <1>5 DEF Steady
<1>9. CASE Fail(t, {})
  BY <1>3, <1>9, FailEndsWith, EndPolicy
<1>10. CASE ErrorReply(u, DefaultReset(p, ok))
  <2>1. IsManager(DefaultReset(p, ok)) /\ Faithful(DefaultReset(p, ok))
    BY <1>5, DefaultResetSteady DEF Steady
  <2> QED BY <1>10, <2>1, ReplyEndsWith, EndPolicy DEF ErrorReply
<1>11. CASE is_running(u) /\ Moves("send", p, c)
  <2>1. s.inherit => p.worker_policy = call.meta
    BY <1>4, <1>5, <1>7, <1>8, <1>11 DEF Faithful
  <2>2. MetaHeld(p, c)
    BY <1>2, <1>3, <1>6, <1>7, <1>8 DEF MetaHeld
  <2> QED BY <1>5, <1>6, <1>8, <1>11, <2>1, <2>2 DEF Moves, PolicyInv
<1> QED BY <1>1, <1>9, <1>10, <1>11

\* An input is accepted by the worker it was dispatched to.
LEMMA SendPolicy ==
  ASSUME PlaceInv, PolicyInv, NEW ok,
         SendTimesOut \/ SendUncertain(ok) \/ SendAccepted \/ Await(ok)
  PROVE  PolicyInv'
<1>0. IsManager(s) /\ IsCall(call) /\ Steady(s, s)
  BY DEF PlaceInv, PolicyInv, Steady
<1>1. CASE SendTimesOut
  <2> DEFINE t == [s EXCEPT !.guardrail_busy = FALSE, !.tape = << >>,
                            !.pending_request_input = FALSE]
  <2>1. pc = "send" /\ EndsWith(t)
    BY <1>1, ReplyEndsWith DEF SendTimesOut, SendErrorReply
  <2>2. Steady(s, t)
    BY <1>0 DEF IsManager, Fields, Steady, Faithful, is_running
  <2> HIDE DEF t
  <2> QED BY <2>1, <2>2, SteadyEnd
<1>2. CASE SendUncertain(ok)
  <2> DEFINE e == take_protocol_error(s)
             t == [e EXCEPT !.tape = << >>]
  <2>1. pc = "send" /\ EndsWith(reset(t, ok))
    BY <1>2, ReplyEndsWith DEF SendUncertain, SendErrorReply
  <2>2. Steady(s, e) /\ IsManager(e)
    BY <1>0, TakeAnswerSteady DEF Steady
  <2> HIDE DEF e
  <2>3. Steady(s, t) /\ IsManager(t)
    BY <2>2, DrainSteady, SteadyTrans DEF Steady
  <2> HIDE DEF t
  <2>4. Steady(s, reset(t, ok))
    BY <2>3, ResetSteady, SteadyTrans
  <2> QED BY <2>1, <2>4, SteadyEnd
<1>3. CASE SendAccepted
  <2> DEFINE t == [s EXCEPT !.batch = "running", !.settled_pending_completion = None,
                            !.guardrail_busy = TRUE, !.pending_request_input = TRUE]
  <2>0. Steady(s, t)
    BY <1>0 DEF IsManager, Fields, Steady, Faithful, is_running
  <2> HIDE DEF t
  <2>1. Steady(s, s') /\ pc = "send" /\ pc' = "await" /\ call' = call /\ req' \in Nat
    BY <2>0, <1>3 DEF SendAccepted, PolicyInv, t
  <2>2. Faithful(s') /\ IsManager(s')
    BY <2>1, MostlyFaithful DEF Steady
  <2>3. MetaHeld(s', call')
    BY <2>1, MetaKept DEF PolicyInv
  <2> QED BY <2>1, <2>2, <2>3 DEF PolicyInv
<1>4. CASE Await(ok)
  <2> DEFINE drained(u) == [u EXCEPT !.tape = << >>]
             ended(t) == note_session_end(t, TRUE)
             quiet(u) == [u EXCEPT !.guardrail_busy = FALSE]
             pends(u) == [u EXCEPT !.pending_request = TRUE]
  <2>1. pc = "await" /\ \E w \in CompletionWaits(s) :
          LET t == w.state IN
          \/ EndsWith(DefaultReset(quiet(drained(ended(t))), ok))
          \/ EndsWith(DefaultReset(quiet(drained(t)), ok))
          \/ EndsWith(t)
          \/ EndsWith(DefaultReset(pends(drained(t)), ok))
          \/ EndsWith(DefaultReset(reset(drained(t), ok), ok))
    <3>1. pc = "await" /\ \E w \in CompletionWaits(s) :
            LET t == w.state
                done == IF w.result = "ended" \/ ~t.alive THEN ended(t) ELSE t IN
            \/ \E x, y : Reply(DefaultReset(quiet(drained(done)), ok), x, y)
            \/ \E y : Fail(t, y)
            \/ \E x, y : Reply(DefaultReset(pends(drained(t)), ok), x, y)
            \/ \E x, y : Reply(DefaultReset(reset(drained(t), ok), ok), x, y)
      BY <1>4 DEF Await
    <3> QED BY <3>1, ReplyEndsWith, FailEndsWith
  <2>2. PICK w \in CompletionWaits(s) :
          LET t == w.state IN
          \/ EndsWith(DefaultReset(quiet(drained(ended(t))), ok))
          \/ EndsWith(DefaultReset(quiet(drained(t)), ok))
          \/ EndsWith(t)
          \/ EndsWith(DefaultReset(pends(drained(t)), ok))
          \/ EndsWith(DefaultReset(reset(drained(t), ok), ok))
    BY <2>1
  <2> DEFINE t == w.state
  <2>3. Steady(s, t) /\ IsManager(t)
    BY <1>0, WaitsSteady DEF Steady
  <2> HIDE DEF t
  <2>4. Steady(s, ended(t))
    BY <2>3, SessionEndSteady, SteadyTrans
  <2> HIDE DEF ended
  <2>5. ASSUME NEW u, Steady(s, u)
        PROVE  /\ Steady(s, drained(u)) /\ Steady(s, quiet(u)) /\ Steady(s, pends(u))
               /\ Steady(s, reset(u, ok)) /\ Steady(s, DefaultReset(u, ok))
    <3>1. Steady(u, drained(u))
      BY <2>5, DrainSteady DEF Steady
    <3>2. Steady(u, quiet(u)) /\ Steady(u, pends(u))
      BY <2>5 DEF IsManager, Fields, Steady, Faithful, is_running
    <3>3. Steady(u, reset(u, ok)) /\ Steady(u, DefaultReset(u, ok))
      BY <2>5, ResetSteady, DefaultResetSteady DEF Steady
    <3> HIDE DEF drained, quiet, pends
    <3> QED BY <2>5, <3>1, <3>2, <3>3, SteadyTrans
  <2> HIDE DEF drained, quiet, pends
  <2>6. /\ Steady(s, DefaultReset(quiet(drained(ended(t))), ok))
        /\ Steady(s, DefaultReset(quiet(drained(t)), ok))
        /\ Steady(s, DefaultReset(pends(drained(t)), ok))
        /\ Steady(s, DefaultReset(reset(drained(t), ok), ok))
    BY <2>3, <2>4, <2>5
  <2> QED BY <2>1, <2>2, <2>3, <2>6, SteadyEnd DEF t
<1> QED BY <1>1, <1>2, <1>3, <1>4

\* Nothing outside the calls replaces a worker by one under another policy,
\* and in a call nothing starts one at all.
LEMMA OtherPolicy ==
  ASSUME PlaceInv, PolicyInv, Next, ~CallStep
  PROVE  PolicyInv'
<1>0. IsManager(s) /\ Steady(s, s)
  BY DEF PolicyInv, Steady
<1>1. ASSUME NEW control \in {"none", "interrupt", "restart"}, NEW tail \in BOOLEAN, NEW meta,
             ToolCall(control, tail, meta)
      PROVE  PolicyInv'
  <2>1. /\ pc = "idle" /\ pc' = "called" /\ call' = NewCall(control, tail, meta)
        /\ s' = resolve_timeout_marker(s) /\ req' = req
    BY <1>1 DEF ToolCall
  <2>2. Steady(s, s') /\ Faithful(s') /\ IsManager(s')
    BY <1>0, <2>1, TimeoutMarkerSteady, MostlyFaithful DEF Steady
  <2>3. call'.deferred = None
    BY <2>1 DEF NewCall
  <2> QED BY <2>1, <2>2, <2>3 DEF PolicyInv
<1>2. ASSUME NEW ok, WarmStart(ok) PROVE PolicyInv'
  <2>1. pc = "idle" /\ pc' = pc /\ call' = call /\ s' = ensure_process(s, ok) /\ req' = req
    BY <1>2 DEF WarmStart
  <2>2. Steady(s, s') /\ Faithful(s') /\ IsManager(s')
    BY <1>0, <2>1, EnsureSteady, MostlyFaithful DEF Steady
  <2>3. MetaHeld(s', call')
    BY <2>1, <2>2, MetaKept DEF PolicyInv
  <2> QED BY <2>1, <2>2, <2>3 DEF PolicyInv
<1>3. ASSUME Shutdown PROVE PolicyInv'
  <2> DEFINE d == DropProcess(s)
             t == [d EXCEPT !.guardrail_busy = FALSE]
  <2>1. pc = "idle" /\ Moves("closed", t, call)
    BY <1>3 DEF Shutdown, Goto, Moves
  <2>2. Steady(s, d) /\ IsManager(d)
    BY <1>0, DropProcessSteady DEF Steady
  <2> HIDE DEF d
  <2>3. Steady(d, t)
    BY <2>2 DEF IsManager, Fields, Steady, Faithful, is_running
  <2> HIDE DEF t
  <2>4. Steady(s, t) /\ IsManager(t) /\ Faithful(t)
    BY <2>1, <2>2, <2>3, SteadyTrans, MostlyFaithful DEF Steady
  <2>5. MetaHeld(t, call)
    BY <2>1, <2>4, MetaKept DEF PolicyInv
  <2> QED BY <2>1, <2>4, <2>5, MovePolicy
<1>4. ASSUME Closed PROVE PolicyInv'
  BY <1>4 DEF Closed, vars, PolicyInv
<1>5. ASSUME Environment PROVE PolicyInv'
  <2>1. pc' = pc /\ call' = call /\ req' = req
    BY <1>5 DEF Environment, Produce, Complete, SessionEnds, SidebandError, Disconnect, Exit,
                GuardrailDecides, GuardrailNotes, GuardrailKills, ManagerOnly
  <2>2. Steady(s, s') /\ s'.worker_policy = s.worker_policy
    <3>1. ASSUME Produce PROVE Steady(s, s') /\ s'.worker_policy = s.worker_policy
      BY <1>0, <3>1 DEF Produce, IsManager, Fields, Steady, Faithful, is_running
    <3>2. ASSUME Complete \/ SessionEnds \/ SidebandError \/ Disconnect
          PROVE  Steady(s, s') /\ s'.worker_policy = s.worker_policy
      BY <1>0, <3>2 DEF Complete, SessionEnds, SidebandError, Disconnect,
                        IsManager, Fields, Steady, Faithful, is_running
    <3>3. ASSUME Exit \/ GuardrailDecides \/ GuardrailNotes \/ GuardrailKills
          PROVE  Steady(s, s') /\ s'.worker_policy = s.worker_policy
      BY <1>0, <3>3 DEF Exit, GuardrailDecides, GuardrailNotes, GuardrailKills,
                        IsManager, Fields, Steady, Faithful, is_running
    <3> QED BY <1>5, <3>1, <3>2, <3>3 DEF Environment
  <2>3. pc # "called" => MetaHeld(s', call')
    BY <2>1, <2>2, MetaKept DEF PolicyInv
  <2>4. /\ s'.inherit = s.inherit /\ IsManager(s')
        /\ Faithful(s) => Faithful(s')
        /\ ~missing_inherited_sandbox_state(s) => ~missing_inherited_sandbox_state(s')
    BY <2>2 DEF Steady, missing_inherited_sandbox_state
  <2> QED BY <2>1, <2>2, <2>3, <2>4 DEF PolicyInv
<1> QED BY <1>1, <1>2, <1>3, <1>4, <1>5 DEF Next

\* Every step of a call keeps PolicyInv.
LEMMA CallStepPolicy == ASSUME PlaceInv, PolicyInv, CallStep PROVE PolicyInv'
<1>1. ASSUME RejectCall \/ DeferCallMeta \/ StartControl \/ StartInput \/ Restart \/ Interrupt
             \/ PreflightPoll \/ PreflightInput \/ SendTimesOut \/ SendAccepted
      PROVE  PolicyInv'
  BY <1>1, MetaPolicy, ControlPolicy, InputPolicy, SendPolicy
<1>2. ASSUME NEW ok,
             \/ ApplyCallMeta(ok) \/ Retry(ok) \/ InterruptFails(ok) \/ AwaitPrompt(ok)
             \/ FinishControl(ok) \/ GuardrailBusyAbort(ok) \/ PreflightIdle(ok)
             \/ PollError(ok) \/ PollPending(ok) \/ PollSettled(ok)
             \/ Dispatch(ok) \/ SendUncertain(ok) \/ Await(ok)
      PROVE  PolicyInv'
  BY <1>2, MetaPolicy, ControlPolicy, InputPolicy, DispatchPolicy, SendPolicy
<1> QED BY <1>1, <1>2 DEF CallStep

\* Of all steps only SendAccepted accepts a request.
LEMMA RequestCounted ==
  ASSUME Next, req \in Nat, req' > req PROVE pc = "send" /\ SendAccepted
<1>1. ASSUME NEW t, EndsWith(t) PROVE req' = req
  BY <1>1 DEF EndsWith
<1>2. ASSUME NEW t, RequiresMeta(t) PROVE req' = req
  BY <1>2 DEF RequiresMeta
<1>3. ASSUME NEW place, NEW t, NEW c, Goto(place, t, c) PROVE req' = req
  BY <1>3 DEF Goto
<1>4. ASSUME NEW t, NEW x, NEW y, Reply(t, x, y) PROVE req' = req
  BY <1>4 DEF Reply
<1>5. ASSUME NEW t, NEW y, Fail(t, y) PROVE req' = req
  BY <1>5 DEF Fail
<1>6. ASSUME NEW t, NEW x, NEW tells, NEW ok, InterruptReply(t, x, tells, ok) PROVE req' = req
  BY <1>3, <1>6 DEF InterruptReply
<1>7. ASSUME NEW t, NEW tells, NEW ok, PollReply(t, tells, ok) PROVE req' = req
  BY <1>2, <1>4, <1>6, <1>7 DEF PollReply
<1>8. ASSUME NEW t, NEW c, NEW ok, ApplyMeta(t, c, ok) PROVE req' = req
  BY <1>3, <1>5, <1>8 DEF ApplyMeta
<1>9. ASSUME NEW ok, ApplyCallMeta(ok) \/ Retry(ok) \/ DeferCallMeta \/ RejectCall
      PROVE  req' = req
  BY <1>3, <1>5, <1>8, <1>9 DEF ApplyCallMeta, Retry, DeferCallMeta, RejectCall
<1>10. ASSUME NEW ok, \/ StartControl \/ StartInput \/ Restart \/ Interrupt
                      \/ InterruptFails(ok) \/ AwaitPrompt(ok) \/ FinishControl(ok)
       PROVE  req' = req
  BY <1>2, <1>3, <1>4, <1>5, <1>6, <1>10 DEF StartControl, StartInput, Restart, Interrupt,
     InterruptFails, AwaitPrompt, FinishControl
<1>11. ASSUME NEW ok, \/ GuardrailBusyAbort(ok) \/ PreflightPoll \/ PreflightIdle(ok)
                      \/ PreflightInput \/ PollError(ok) \/ PollSettled(ok)
       PROVE  req' = req
  BY <1>2, <1>3, <1>4, <1>5, <1>7, <1>11 DEF GuardrailBusyAbort, ErrorReply, PreflightPoll,
     PreflightIdle, PreflightInput, PollError, PollSettled
<1>12. ASSUME NEW ok, PollPending(ok) PROVE req' = req
  <2>1. (\E t, y : Fail(t, y)) \/ (\E t, tells : PollReply(t, tells, ok))
    BY <1>12 DEF PollPending
  <2> QED BY <1>5, <1>7, <2>1
<1>13. ASSUME NEW ok, Dispatch(ok) \/ SendTimesOut \/ SendUncertain(ok) PROVE req' = req
  BY <1>3, <1>4, <1>5, <1>13 DEF Dispatch, ErrorReply, SendTimesOut, SendUncertain, SendErrorReply
<1>14. ASSUME NEW ok, Await(ok) PROVE req' = req
  <2>1. (\E t, y : Fail(t, y)) \/ (\E t, x, y : Reply(t, x, y))
    BY <1>14 DEF Await
  <2> QED BY <1>4, <1>5, <2>1
<1>15. ASSUME CallStep PROVE req' = req \/ SendAccepted
  BY <1>9, <1>10, <1>11, <1>12, <1>13, <1>14, <1>15 DEF CallStep
<1>16. ASSUME ~CallStep PROVE req' = req
  <2>1. ASSUME NEW control, NEW tail, NEW meta, ToolCall(control, tail, meta) PROVE req' = req
    BY <2>1 DEF ToolCall
  <2>2. ASSUME NEW ok, WarmStart(ok) PROVE req' = req
    BY <2>2 DEF WarmStart
  <2>3. ASSUME Shutdown \/ Closed \/ Environment PROVE req' = req
    BY <2>3 DEF Shutdown, Goto, Closed, vars, Environment, Produce, Complete, SessionEnds,
       SidebandError, Disconnect, Exit, GuardrailDecides, GuardrailNotes, GuardrailKills, ManagerOnly
  <2> QED BY <1>16, <2>1, <2>2, <2>3 DEF Next
<1> QED BY <1>15, <1>16 DEF SendAccepted

\* The setup of a server never changes.
LEMMA SetupKept == ASSUME Next PROVE setup' = setup
<1>1. ASSUME NEW t, RequiresMeta(t) PROVE setup' = setup
  BY <1>1 DEF RequiresMeta
<1>2. ASSUME NEW place, NEW t, NEW c, Goto(place, t, c) PROVE setup' = setup
  BY <1>2 DEF Goto
<1>3. ASSUME NEW t, NEW x, NEW y, Reply(t, x, y) PROVE setup' = setup
  BY <1>3 DEF Reply
<1>4. ASSUME NEW t, NEW y, Fail(t, y) PROVE setup' = setup
  BY <1>4 DEF Fail
<1>5. ASSUME NEW t, NEW x, NEW tells, NEW ok, InterruptReply(t, x, tells, ok)
      PROVE  setup' = setup
  BY <1>2, <1>5 DEF InterruptReply
<1>6. ASSUME NEW t, NEW tells, NEW ok, PollReply(t, tells, ok) PROVE setup' = setup
  BY <1>1, <1>3, <1>5, <1>6 DEF PollReply
<1>7. ASSUME NEW t, NEW c, NEW ok, ApplyMeta(t, c, ok) PROVE setup' = setup
  BY <1>2, <1>4, <1>7 DEF ApplyMeta
<1>8. ASSUME NEW ok, ApplyCallMeta(ok) \/ Retry(ok) \/ DeferCallMeta \/ RejectCall
      PROVE  setup' = setup
  BY <1>2, <1>4, <1>7, <1>8 DEF ApplyCallMeta, Retry, DeferCallMeta, RejectCall
<1>9. ASSUME NEW ok, \/ StartControl \/ StartInput \/ Restart \/ Interrupt
                     \/ InterruptFails(ok) \/ AwaitPrompt(ok) \/ FinishControl(ok)
      PROVE  setup' = setup
  BY <1>1, <1>2, <1>3, <1>4, <1>5, <1>9 DEF StartControl, StartInput, Restart, Interrupt,
     InterruptFails, AwaitPrompt, FinishControl
<1>10. ASSUME NEW ok, \/ GuardrailBusyAbort(ok) \/ PreflightPoll \/ PreflightIdle(ok)
                      \/ PreflightInput \/ PollError(ok) \/ PollSettled(ok)
       PROVE  setup' = setup
  BY <1>1, <1>2, <1>3, <1>4, <1>6, <1>10 DEF GuardrailBusyAbort, ErrorReply, PreflightPoll,
     PreflightIdle, PreflightInput, PollError, PollSettled
<1>11. ASSUME NEW ok, PollPending(ok) PROVE setup' = setup
  <2>1. (\E t, y : Fail(t, y)) \/ (\E t, tells : PollReply(t, tells, ok))
    BY <1>11 DEF PollPending
  <2> QED BY <1>4, <1>6, <2>1
<1>12. ASSUME NEW ok, Dispatch(ok) \/ SendTimesOut \/ SendUncertain(ok) \/ SendAccepted
       PROVE  setup' = setup
  BY <1>2, <1>3, <1>4, <1>12 DEF Dispatch, ErrorReply, SendTimesOut, SendUncertain,
     SendErrorReply, SendAccepted
<1>13. ASSUME NEW ok, Await(ok) PROVE setup' = setup
  <2>1. (\E t, y : Fail(t, y)) \/ (\E t, x, y : Reply(t, x, y))
    BY <1>13 DEF Await
  <2> QED BY <1>3, <1>4, <2>1
<1>14. ASSUME CallStep PROVE setup' = setup
  BY <1>8, <1>9, <1>10, <1>11, <1>12, <1>13, <1>14 DEF CallStep
<1>15. ASSUME ~CallStep PROVE setup' = setup
  <2>1. ASSUME NEW control, NEW tail, NEW meta, ToolCall(control, tail, meta)
        PROVE  setup' = setup
    BY <2>1 DEF ToolCall
  <2>2. ASSUME NEW ok, WarmStart(ok) PROVE setup' = setup
    BY <2>2 DEF WarmStart
  <2>3. ASSUME Shutdown \/ Closed \/ Environment PROVE setup' = setup
    BY <2>3 DEF Shutdown, Goto, Closed, vars, Environment, Produce, Complete, SessionEnds,
       SidebandError, Disconnect, Exit, GuardrailDecides, GuardrailNotes, GuardrailKills, ManagerOnly
  <2> QED BY <1>15, <2>1, <2>2, <2>3 DEF Next
<1> QED BY <1>14, <1>15

\* RunsUnderCallPolicy, for every setup: whichever of the call's metadata,
\* the deferred update, the reset after a session end and the retry started
\* the worker, the input a call sends reaches one that was spawned under the
\* policy of that call.
THEOREM PolicyCorrect == Spec => RunsUnderCallPolicy
<1>1. Init => PlaceInv /\ PolicyInv
  <2>1. ASSUME Init PROVE IsManager(s) /\ Faithful(s) /\ ~s.process
    BY <2>1 DEF Init, NewManager, IsManager, Fields, Faithful, is_running
  <2>2. ASSUME Init PROVE pc = "idle" /\ call = NoCall /\ req = 0
    BY <2>2 DEF Init
  <2>3. ASSUME Init PROVE PlaceInv
    BY <2>2, <2>3, NoCallFacts DEF PlaceInv
  <2>4. ASSUME Init PROVE PolicyInv
    BY <2>1, <2>2, <2>4, NoCallFacts DEF PolicyInv, MetaHeld
  <2> QED BY <2>3, <2>4
<1>2. PlaceInv /\ PolicyInv /\ [Next]_vars => PlaceInv' /\ PolicyInv'
  <2>1. ASSUME PlaceInv, PolicyInv, UNCHANGED vars PROVE PlaceInv' /\ PolicyInv'
    BY <2>1 DEF vars, PlaceInv, PolicyInv
  <2> QED BY <2>1, CallStepAdvances, OtherSteps, CallStepPolicy, OtherPolicy
<1>3. PlaceInv /\ PolicyInv /\ [Next]_vars => [s.inherit /\ req' > req => s.worker_policy = call.meta]_vars
  <2>1. ASSUME PolicyInv PROVE req \in Nat /\ (pc = "send" /\ s.inherit => s.worker_policy = call.meta)
    BY <2>1 DEF PolicyInv
  <2>2. ASSUME PolicyInv, Next, s.inherit, req' > req PROVE s.worker_policy = call.meta
    BY <2>1, <2>2, RequestCounted
  <2> QED BY <2>2
<1> QED BY <1>1, <1>2, <1>3, PTL DEF Spec, RunsUnderCallPolicy

-----------------------------------------------------------------------------
(***************************************************************************)
(* What is shown of the worker's output: the order of the items.           *)
(***************************************************************************)

-----------------------------------------------------------------------------
(* Sequences of items.                                                     *)

Items == Seq(Nat)

\* Notices have no place in the order.
Precedes(a, b) == a = Notice \/ b = Notice \/ a < b
Ordered(q) == \A i, j \in DOMAIN q : i < j => Precedes(q[i], q[j])
Before(q, r) == \A i \in DOMAIN q, j \in DOMAIN r : Precedes(q[i], r[j])
UpTo(q, n) == \A i \in DOMAIN q : q[i] <= n

\* The empty sequence is ordered and bounded.
LEMMA EmptyFacts ==
  /\ << >> \in Items /\ Ordered(<< >>)
  /\ \A q : Before(<< >>, q) /\ Before(q, << >>)
  /\ \A n : UpTo(<< >>, n)
BY DEF Items, Ordered, Before, UpTo

\* A notice at the end keeps the order.
LEMMA NoticeFacts ==
  ASSUME NEW q \in Items, NEW r, r = Append(q, Notice)
  PROVE  /\ r \in Items
         /\ Ordered(q) => Ordered(r)
         /\ \A x \in Items : Before(x, q) => Before(x, r)
         /\ \A n \in Nat : UpTo(q, n) => UpTo(r, n)
<1>1. /\ r \in Items /\ DOMAIN r = 1..(Len(q) + 1) /\ DOMAIN q = 1..Len(q) /\ Len(q) \in Nat
      /\ \A i \in 1..Len(q) : r[i] = q[i]
      /\ r[Len(q) + 1] = Notice
  BY DEF Items, Notice
<1>2. Ordered(q) => Ordered(r)
  BY <1>1 DEF Ordered, Precedes
<1>3. ASSUME NEW x \in Items, Before(x, q) PROVE Before(x, r)
  BY <1>1, <1>3 DEF Before, Precedes
<1>4. ASSUME NEW n \in Nat, UpTo(q, n) PROVE UpTo(r, n)
  BY <1>1, <1>4 DEF UpTo, Notice
<1> QED BY <1>1, <1>2, <1>3, <1>4

\* Where the items of a concatenation come from.
LEMMA ConcatDomain ==
  ASSUME NEW q \in Items, NEW r \in Items
  PROVE  /\ q \o r \in Items
         /\ \A i \in DOMAIN (q \o r) :
              \/ i \in DOMAIN q /\ (q \o r)[i] = q[i]
              \/ i - Len(q) \in DOMAIN r /\ (q \o r)[i] = r[i - Len(q)] /\ i > Len(q)
         /\ \A i \in DOMAIN q : i \in Nat /\ i <= Len(q)
         /\ \A i \in DOMAIN (q \o r) : i \in Nat
         /\ Len(q) \in Nat
BY DEF Items

\* Two ordered sequences, one before the other, are ordered together.
LEMMA ConcatOrdered ==
  ASSUME NEW q \in Items, NEW r \in Items, Ordered(q), Ordered(r), Before(q, r)
  PROVE  q \o r \in Items /\ Ordered(q \o r)
<1>1. ASSUME NEW i \in DOMAIN (q \o r), NEW j \in DOMAIN (q \o r), i < j
      PROVE  Precedes((q \o r)[i], (q \o r)[j])
  <2>1. /\ i \in Nat /\ j \in Nat /\ Len(q) \in Nat
        /\ \/ i \in DOMAIN q /\ (q \o r)[i] = q[i] /\ i <= Len(q)
           \/ i - Len(q) \in DOMAIN r /\ (q \o r)[i] = r[i - Len(q)] /\ i > Len(q)
        /\ \/ j \in DOMAIN q /\ (q \o r)[j] = q[j] /\ j <= Len(q)
           \/ j - Len(q) \in DOMAIN r /\ (q \o r)[j] = r[j - Len(q)] /\ j > Len(q)
    BY ConcatDomain
  <2>2. i - Len(q) < j - Len(q) /\ ~(i > Len(q) /\ j <= Len(q))
    BY <1>1, <2>1
  <2> QED BY <1>1, <2>1, <2>2 DEF Ordered, Before
<1> QED BY <1>1, ConcatDomain DEF Ordered

\* A sequence before both, or after both, is so of the concatenation.
LEMMA ConcatBefore ==
  ASSUME NEW q \in Items, NEW r \in Items, NEW x \in Items
  PROVE  /\ Before(x, q) /\ Before(x, r) => Before(x, q \o r)
         /\ Before(q, x) /\ Before(r, x) => Before(q \o r, x)
<1>1. ASSUME NEW j \in DOMAIN (q \o r)
      PROVE  \/ j \in DOMAIN q /\ (q \o r)[j] = q[j]
             \/ j - Len(q) \in DOMAIN r /\ (q \o r)[j] = r[j - Len(q)]
  BY <1>1, ConcatDomain
<1> DEFINE c == q \o r
<1> HIDE DEF c
<1>2. ASSUME Before(x, q), Before(x, r), NEW i \in DOMAIN x, NEW j \in DOMAIN c
      PROVE  Precedes(x[i], c[j])
  BY <1>1, <1>2 DEF Before, c
<1>3. ASSUME Before(q, x), Before(r, x), NEW i \in DOMAIN x, NEW j \in DOMAIN c
      PROVE  Precedes(c[j], x[i])
  BY <1>1, <1>3 DEF Before, c
<1>4. /\ Before(x, q) /\ Before(x, r) => Before(x, c)
      /\ Before(q, x) /\ Before(r, x) => Before(c, x)
  BY <1>2, <1>3 DEF Before
<1> QED BY <1>4 DEF c

\* A bound of both bounds the concatenation.
LEMMA ConcatUpTo ==
  ASSUME NEW q \in Items, NEW r \in Items, NEW n, UpTo(q, n), UpTo(r, n)
  PROVE  UpTo(q \o r, n)
BY ConcatDomain DEF UpTo

\* What matters of c = q \o r.
Joins(q, r, c) ==
  /\ c \in Items
  /\ Ordered(q) /\ Ordered(r) /\ Before(q, r) => Ordered(c)
  /\ \A x \in Items : Before(x, q) /\ Before(x, r) => Before(x, c)
  /\ \A x \in Items : Before(q, x) /\ Before(r, x) => Before(c, x)
  /\ \A n \in Nat : UpTo(q, n) /\ UpTo(r, n) => UpTo(c, n)

\* A concatenation joins its parts.
LEMMA Joined ==
  ASSUME NEW q \in Items, NEW r \in Items, NEW c, c = q \o r
  PROVE  Joins(q, r, c)
BY ConcatDomain, ConcatOrdered, ConcatBefore, ConcatUpTo DEF Joins

\* The next item the worker produces comes after every one before.
LEMMA PieceFacts ==
  ASSUME NEW q \in Items, NEW n \in Nat, NEW r, r = Append(q, n + 1), UpTo(q, n)
  PROVE  /\ r \in Items
         /\ Ordered(q) => Ordered(r)
         /\ \A x \in Items : Before(x, q) /\ UpTo(x, n) => Before(x, r)
         /\ UpTo(r, n + 1)
<1>1. /\ r \in Items /\ DOMAIN r = 1..(Len(q) + 1) /\ DOMAIN q = 1..Len(q) /\ Len(q) \in Nat
      /\ \A i \in 1..Len(q) : r[i] = q[i] /\ q[i] \in Nat /\ q[i] <= n
      /\ r[Len(q) + 1] = n + 1
  BY DEF Items, UpTo
<1>2. Ordered(q) => Ordered(r)
  BY <1>1 DEF Ordered, Precedes
<1>3. ASSUME NEW x \in Items, Before(x, q), UpTo(x, n) PROVE Before(x, r)
  <2>1. \A i \in DOMAIN x : x[i] \in Nat /\ x[i] <= n
    BY <1>3 DEF Items, UpTo
  <2> QED BY <1>1, <1>3, <2>1 DEF Before, Precedes
<1>4. UpTo(r, n + 1)
  BY <1>1 DEF UpTo
<1> QED BY <1>1, <1>2, <1>3, <1>4

-----------------------------------------------------------------------------
(* The items of the manager, and what may be done to them.                 *)

\* The preserved prefix, the reply-owned prefix and the tape, each in order
\* and one before the other.
InLine(t) ==
  /\ {t.preserved_detached_prefix, t.reply_owned_prefix, t.tape} \subseteq Items
  /\ Ordered(t.preserved_detached_prefix) /\ Ordered(t.reply_owned_prefix) /\ Ordered(t.tape)
  /\ Before(t.preserved_detached_prefix, t.reply_owned_prefix)
  /\ Before(t.preserved_detached_prefix, t.tape)
  /\ Before(t.reply_owned_prefix, t.tape)

AllAfter(q, t) ==
  /\ Before(q, t.preserved_detached_prefix)
  /\ Before(q, t.reply_owned_prefix)
  /\ Before(q, t.tape)

AllUpTo(t, n) ==
  /\ UpTo(t.preserved_detached_prefix, n)
  /\ UpTo(t.reply_owned_prefix, n)
  /\ UpTo(t.tape, n)

NoPrefix(t) == t.preserved_detached_prefix = << >> /\ t.reply_owned_prefix = << >>

\* A reply-owned prefix without the flag would be shown after the tape.
FlagKept(t) ==
  /\ t.next_live_prefix_belongs_to_reply \in BOOLEAN
  /\ t.next_live_prefix_belongs_to_reply \/ t.reply_owned_prefix = << >>
  /\ t.next_live_prefix_belongs_to_reply => t.last_spawn

\* What no method of the manager but the worker's output disturbs.
Follows(t, u) ==
  /\ IsManager(u)
  /\ InLine(t) => InLine(u)
  /\ \A q \in Items : InLine(t) /\ AllAfter(q, t) => AllAfter(q, u)
  /\ \A n \in Nat : InLine(t) /\ AllUpTo(t, n) => AllUpTo(u, n)
  /\ NoPrefix(t) => NoPrefix(u)
  /\ FlagKept(t) => FlagKept(u)

\* The prefixes stay, and of the tape all or nothing, with a notice or without.
Quiet(t, u) ==
  /\ IsManager(u)
  /\ u.preserved_detached_prefix = t.preserved_detached_prefix
  /\ u.reply_owned_prefix = t.reply_owned_prefix
  /\ u.next_live_prefix_belongs_to_reply = t.next_live_prefix_belongs_to_reply
  /\ u.last_spawn = t.last_spawn \/ u.last_spawn
  /\ u.tape \in {t.tape, << >>, Append(t.tape, Notice)}

\* Leaving the output alone keeps the order.
LEMMA QuietFollows == ASSUME NEW t, NEW u, Quiet(t, u) PROVE Follows(t, u)
<1> USE DEF Quiet
<1>1. InLine(t) => t.tape \in Items
  BY DEF InLine
<1>2. InLine(t) =>
        /\ u.tape \in Items /\ (Ordered(t.tape) => Ordered(u.tape))
        /\ \A x \in Items : Before(x, t.tape) => Before(x, u.tape)
        /\ \A n \in Nat : UpTo(t.tape, n) => UpTo(u.tape, n)
  BY <1>1, NoticeFacts, EmptyFacts
<1>3. InLine(t) => InLine(u)
  BY <1>2 DEF InLine
<1>4. \A q \in Items : InLine(t) /\ AllAfter(q, t) => AllAfter(q, u)
  BY <1>2 DEF AllAfter
<1>5. \A n \in Nat : InLine(t) /\ AllUpTo(t, n) => AllUpTo(u, n)
  BY <1>2 DEF AllUpTo
<1>6. (NoPrefix(t) => NoPrefix(u)) /\ (FlagKept(t) => FlagKept(u))
  BY DEF NoPrefix, FlagKept
<1> QED BY <1>3, <1>4, <1>5, <1>6 DEF Follows

\* Follows is transitive.
LEMMA FollowsTrans ==
  ASSUME NEW t, NEW u, NEW v, Follows(t, u), Follows(u, v) PROVE Follows(t, v)
BY DEF Follows

\* Follows is reflexive.
LEMMA FollowsSelf == ASSUME NEW t, IsManager(t) PROVE Follows(t, t)
BY DEF Follows

\* The methods that touch one thing at a time.
LEMMA SimpleFollows ==
  ASSUME NEW t, IsManager(t), NEW x
  PROVE  /\ Follows(t, DropProcess(t))
         /\ Follows(t, spawn_process(t, x))
         /\ Follows(t, clear_pending_request_state(t))
         /\ Follows(t, note_session_end(t, x))
         /\ Follows(t, maybe_emit_pending_server_notice(t))
         /\ Follows(t, clear_guardrail_busy_event(t))
         /\ Follows(t, stage_sandbox_state_update(t, x))
         /\ Follows(t, take_protocol_error(t))
<1> USE DEF Quiet, IsManager, Fields
<1>1. Quiet(t, DropProcess(t))
  BY DEF DropProcess
<1>2. Quiet(t, spawn_process(t, x))
  BY DEF spawn_process
<1>3. Quiet(t, clear_pending_request_state(t))
  BY DEF clear_pending_request_state
<1>4. Quiet(t, note_session_end(t, x))
  BY DEF note_session_end
<1>5. Quiet(t, maybe_emit_pending_server_notice(t))
  BY DEF maybe_emit_pending_server_notice
<1>6. Quiet(t, clear_guardrail_busy_event(t))
  BY DEF clear_guardrail_busy_event
<1>7. Quiet(t, stage_sandbox_state_update(t, x))
  BY DEF stage_sandbox_state_update
<1>8. Quiet(t, take_protocol_error(t))
  BY DEF take_protocol_error
<1> QED BY <1>1, <1>2, <1>3, <1>4, <1>5, <1>6, <1>7, <1>8, QuietFollows

\* Draining the tape keeps the order of the rest.
LEMMA DrainFollows ==
  ASSUME NEW t, IsManager(t) PROVE Follows(t, [t EXCEPT !.tape = << >>])
BY QuietFollows DEF Quiet, IsManager, Fields

\* Resetting the output keeps the order of the rest.
LEMMA ResetOutputFollows ==
  ASSUME NEW t, IsManager(t), NEW clear
  PROVE  Follows(t, reset_output_state(t, clear))
<1> DEFINE u == clear_pending_request_state(t)
<1>1. Follows(t, u) /\ IsManager(u)
  BY SimpleFollows DEF Follows
<1>2. reset_output_state(t, clear) =
        [u EXCEPT !.tape = IF clear THEN << >> ELSE @,
                  !.pending_request_input = FALSE, !.session_end_seen = FALSE]
  BY DEF reset_output_state
<1> HIDE DEF u
<1> DEFINE r == reset_output_state(t, clear)
<1>3. /\ IsManager(r)
      /\ r.preserved_detached_prefix = u.preserved_detached_prefix
      /\ r.reply_owned_prefix = u.reply_owned_prefix
      /\ r.next_live_prefix_belongs_to_reply = u.next_live_prefix_belongs_to_reply
      /\ r.last_spawn = u.last_spawn
      /\ r.tape = IF clear THEN << >> ELSE u.tape
  BY <1>1, <1>2 DEF IsManager, Fields
<1> HIDE DEF r
<1>4. Quiet(u, r)
  BY <1>3 DEF Quiet
<1> QED BY <1>1, <1>4, QuietFollows, FollowsTrans DEF r

\* Taking the context of an input leaves no prefix.
LEMMA ClearPrefixesFollows ==
  ASSUME NEW t, IsManager(t)
  PROVE  /\ Follows(t, clear_preserved_prefixes(t)) /\ NoPrefix(clear_preserved_prefixes(t))
         /\ Follows(t, prepare_input_context(t)) /\ NoPrefix(prepare_input_context(t))
<1> DEFINE u == clear_preserved_prefixes(t)
           v == prepare_input_context(t)
<1>1. /\ IsManager(u) /\ u.preserved_detached_prefix = << >> /\ u.reply_owned_prefix = << >>
      /\ u.next_live_prefix_belongs_to_reply = FALSE /\ u.tape = t.tape
  BY DEF clear_preserved_prefixes, IsManager, Fields
<1>2. v = [u EXCEPT !.tape = << >>, !.settled_pending_completion = None]
  BY DEF prepare_input_context
<1> HIDE DEF u
<1>3. Quiet(u, v)
  BY <1>1, <1>2 DEF Quiet, IsManager, Fields
<1> HIDE DEF v
<1>4. Follows(t, u)
  <2>1. InLine(t) => InLine(u)
    BY <1>1, EmptyFacts DEF InLine
  <2>2. \A q \in Items : AllAfter(q, t) => AllAfter(q, u)
    BY <1>1, EmptyFacts DEF AllAfter
  <2>3. \A n \in Nat : AllUpTo(t, n) => AllUpTo(u, n)
    BY <1>1, EmptyFacts DEF AllUpTo
  <2> QED BY <1>1, <2>1, <2>2, <2>3 DEF Follows, NoPrefix, FlagKept
<1>5. Follows(u, v)
  BY <1>3, QuietFollows
<1>6. NoPrefix(u) /\ NoPrefix(v)
  BY <1>1, <1>3 DEF Quiet, NoPrefix
<1> QED BY <1>4, <1>5, <1>6, FollowsTrans DEF u, v

\* The guardrail's notice keeps the order.
LEMMA GuardrailNoticeFollows ==
  ASSUME NEW t, IsManager(t) PROVE Follows(t, maybe_emit_guardrail_notice(t))
<1> DEFINE u == maybe_emit_pending_server_notice(t)
           v == [u EXCEPT !.guardrail_event = "none", !.tape = Append(@, Notice)]
<1>1. Follows(t, u) /\ IsManager(u)
  BY SimpleFollows DEF Follows
<1>2. maybe_emit_guardrail_notice(t) = u \/ maybe_emit_guardrail_notice(t) = v
  BY DEF maybe_emit_guardrail_notice
<1> HIDE DEF u
<1>3. Quiet(u, v)
  BY <1>1 DEF Quiet, IsManager, Fields
<1> HIDE DEF v
<1> QED BY <1>1, <1>2, <1>3, QuietFollows, FollowsTrans

\* Whatever respawns keeps the order.
LEMMA RespawnFollows ==
  ASSUME NEW t, IsManager(t), NEW ok
  PROVE  /\ Follows(t, ensure_process(t, ok)) /\ Follows(t, reset(t, ok))
         /\ Follows(t, maybe_reset_after_session_end(t, ok))
<1> DEFINE d == DropProcess(t)
           e(clear) == reset_output_state(d, clear)
           w(clear) == spawn_process(e(clear), ok)
           r == reset(t, ok)
           v == [r EXCEPT !.session_end_seen = FALSE]
<1>1. ensure_process(t, ok) \in {t, w(FALSE)} /\ r \in {d, w(TRUE)}
  BY DEF ensure_process, reset
<1>2. maybe_reset_after_session_end(t, ok) \in {t, v}
  BY DEF maybe_reset_after_session_end
<1>3. Follows(t, t) /\ Follows(t, d) /\ IsManager(d)
  BY SimpleFollows, FollowsSelf DEF Follows
<1> HIDE DEF d
<1>4. ASSUME NEW clear PROVE Follows(t, w(clear))
  <2>1. Follows(t, e(clear)) /\ IsManager(e(clear))
    BY <1>3, ResetOutputFollows, FollowsTrans DEF Follows
  <2> HIDE DEF e
  <2> QED BY <2>1, SimpleFollows, FollowsTrans
<1> HIDE DEF w
<1>5. Follows(t, r) /\ IsManager(r)
  BY <1>1, <1>3, <1>4 DEF Follows
<1> HIDE DEF r
<1>6. Quiet(r, v)
  BY <1>5 DEF Quiet, IsManager, Fields
<1> HIDE DEF v
<1>7. Follows(t, v)
  BY <1>5, <1>6, QuietFollows, FollowsTrans
<1> QED BY <1>1, <1>2, <1>3, <1>4, <1>5, <1>7 DEF r

\* A reset with a deferred update keeps the order.
LEMMA ResetWithOptionsFollows ==
  ASSUME NEW t, IsManager(t), NEW update, NEW suppress, NEW ok
  PROVE  Follows(t, ResetWithOptions(t, update, suppress, ok))
<1> DEFINE u == stage_sandbox_state_update(t, update)
           v == maybe_reset_after_session_end(u, ok)
<1>1. ResetWithOptions(t, update, suppress, ok) \in {t, v}
  BY DEF ResetWithOptions
<1>2. Follows(t, t) /\ Follows(t, u) /\ IsManager(u)
  BY SimpleFollows, FollowsSelf DEF Follows
<1> HIDE DEF u
<1>3. Follows(t, v)
  BY <1>2, RespawnFollows, FollowsTrans
<1> QED BY <1>1, <1>2, <1>3

\* The reset after a reply keeps the order.
LEMMA DefaultResetFollows ==
  ASSUME NEW t, IsManager(t), NEW ok PROVE Follows(t, DefaultReset(t, ok))
<1> DEFINE v == maybe_reset_after_session_end(t, ok)
<1>1. DefaultReset(t, ok) \in {t, v}
  BY DEF DefaultReset, ResetWithOptions, stage_sandbox_state_update
<1> QED BY <1>1, RespawnFollows, FollowsSelf

\* Taking what the sideband said keeps the order.
LEMMA TakeAnswerFollows == ASSUME NEW t, IsManager(t) PROVE Follows(t, TakeAnswer(t))
<1>1. TakeAnswer(t) \in {[t EXCEPT !.batch = "none"], [t EXCEPT !.fault = "taken"],
                         [t EXCEPT !.fault = "mute"], t}
  BY DEF TakeAnswer
<1>2. Quiet(t, TakeAnswer(t))
  BY <1>1 DEF Quiet, IsManager, Fields
<1> QED BY <1>2, QuietFollows

\* Resolving a timeout keeps the order.
LEMMA TimeoutMarkerFollows ==
  ASSUME NEW t, IsManager(t) PROVE Follows(t, resolve_timeout_marker(t))
<1>1. ASSUME NEW u, Follows(t, u) PROVE Follows(t, settle_pending_session_end(u))
  <2> DEFINE n == note_session_end(u, TRUE)
             c == clear_pending_request_state(n)
             w == [c EXCEPT !.settled_pending_completion = "ended"]
  <2>1. Follows(t, n) /\ IsManager(n)
    BY <1>1, SimpleFollows, FollowsTrans DEF Follows
  <2> HIDE DEF n
  <2>2. Follows(t, c) /\ IsManager(c)
    BY <2>1, SimpleFollows, FollowsTrans DEF Follows
  <2>3. settle_pending_session_end(u) = w
    BY DEF settle_pending_session_end, c, n
  <2> HIDE DEF c
  <2>4. Quiet(c, w)
    BY <2>2 DEF Quiet, IsManager, Fields
  <2> HIDE DEF w
  <2> QED BY <2>2, <2>3, <2>4, QuietFollows, FollowsTrans
<1> DEFINE u == TakeAnswer(t)
           v == clear_pending_request_state(u)
           done == [v EXCEPT !.settled_pending_completion = "done"]
           failed == [u EXCEPT !.settled_pending_error = TRUE]
           a == CompletionAnswer(t)
<1>2. resolve_timeout_marker(t) =
        IF ~t.pending_request \/ t.settled_pending_error \/ ~t.process THEN t
        ELSE CASE a = "Ok" -> IF t.alive THEN done ELSE settle_pending_session_end(u)
               [] a = "SessionEnd" -> settle_pending_session_end(u)
               [] a = "Protocol" -> failed
               [] OTHER -> IF t.alive THEN t ELSE settle_pending_session_end(t)
  BY DEF resolve_timeout_marker
<1>3. Follows(t, t) /\ Follows(t, u) /\ IsManager(u)
  BY TakeAnswerFollows, FollowsSelf DEF Follows
<1> HIDE DEF u, a
<1>4. Follows(t, v) /\ IsManager(v)
  BY <1>3, SimpleFollows, FollowsTrans DEF Follows
<1> HIDE DEF v
<1>5. Quiet(v, done) /\ Quiet(u, failed)
  BY <1>3, <1>4 DEF Quiet, IsManager, Fields
<1> HIDE DEF done, failed
<1>6. Follows(t, done) /\ Follows(t, failed)
  BY <1>3, <1>4, <1>5, QuietFollows, FollowsTrans
<1>7. resolve_timeout_marker(t) \in {t, done, failed, settle_pending_session_end(u),
                                     settle_pending_session_end(t)}
  BY <1>2
<1> QED BY <1>1, <1>3, <1>6, <1>7

\* A wait for the completion keeps the order.
LEMMA WaitsFollow ==
  ASSUME NEW t, IsManager(t), NEW w \in CompletionWaits(t) PROVE Follows(t, w.state)
<1> DEFINE u == TakeAnswer(t)
           e == take_protocol_error(u)
           quiet(x) == [x EXCEPT !.guardrail_event = "none"]
<1>1. w.state \in {t, u, e, quiet(t), quiet(u), quiet(e)}
  BY DEF CompletionWaits
<1>2. Follows(t, t) /\ Follows(t, u) /\ IsManager(u)
  BY TakeAnswerFollows, FollowsSelf DEF Follows
<1> HIDE DEF u
<1>3. Follows(t, e)
  BY <1>2, SimpleFollows, FollowsTrans
<1> HIDE DEF e
<1>4. ASSUME NEW x, Follows(t, x) PROVE Follows(t, quiet(x))
  <2>1. Quiet(x, quiet(x))
    BY <1>4 DEF Quiet, Follows, IsManager, Fields
  <2> HIDE DEF quiet
  <2> QED BY <1>4, <2>1, QuietFollows, FollowsTrans
<1> HIDE DEF quiet
<1> QED BY <1>1, <1>2, <1>3, <1>4

\* Items moved from t to u: nothing is out of line, and nothing else moved.
Moved(t, u) ==
  /\ InLine(u)
  /\ \A q \in Items : AllAfter(q, t) => AllAfter(q, u)
  /\ \A n \in Nat : AllUpTo(t, n) => AllUpTo(u, n)

\* What follows a move is a move.
LEMMA MovedFollows ==
  ASSUME NEW t, NEW u, NEW v, Moved(t, u), Follows(u, v) PROVE Moved(t, v)
BY DEF Moved, Follows

\* What follows is a move.
LEMMA FollowsMoved ==
  ASSUME NEW t, NEW u, Follows(t, u), InLine(t) PROVE Moved(t, u)
BY DEF Moved, Follows

\* What is on the tape when the worker is replaced joins the prefix that the
\* flag names; only a successful respawn lets it be found there again.
LEMMA PreserveMoves ==
  ASSUME NEW t, IsManager(t), InLine(t), FlagKept(t)
  PROVE  LET u == reset_output_state_preserving_detached_output(t) IN
         /\ IsManager(u) /\ Moved(t, u)
         /\ u.next_live_prefix_belongs_to_reply = FALSE
         /\ t.next_live_prefix_belongs_to_reply \/ u.reply_owned_prefix = << >>
<1> DEFINE p == stage_prefix_before_respawn(t)
           c == clear_pending_request_state(p)
           u == reset_output_state(p, TRUE)
<1>1. /\ IsManager(p)
      /\ p.next_live_prefix_belongs_to_reply = FALSE
      /\ IF t.next_live_prefix_belongs_to_reply
         THEN /\ p.reply_owned_prefix = t.reply_owned_prefix \o t.tape
              /\ p.preserved_detached_prefix = t.preserved_detached_prefix
         ELSE /\ p.preserved_detached_prefix = t.preserved_detached_prefix \o t.tape
              /\ p.reply_owned_prefix = t.reply_owned_prefix
  <2>1. IsManager(p)
    BY DEF stage_prefix_before_respawn, IsManager, Fields
  <2>2. t.next_live_prefix_belongs_to_reply =>
          /\ p.next_live_prefix_belongs_to_reply = FALSE
          /\ p.reply_owned_prefix = t.reply_owned_prefix \o t.tape
          /\ p.preserved_detached_prefix = t.preserved_detached_prefix
    BY DEF stage_prefix_before_respawn, IsManager, Fields
  <2>3. t.next_live_prefix_belongs_to_reply \in BOOLEAN
    BY DEF FlagKept
  <2>4. ~t.next_live_prefix_belongs_to_reply =>
          /\ p.next_live_prefix_belongs_to_reply = FALSE
          /\ p.preserved_detached_prefix = t.preserved_detached_prefix \o t.tape
          /\ p.reply_owned_prefix = t.reply_owned_prefix
    BY <2>3 DEF stage_prefix_before_respawn, IsManager, Fields
  <2> QED BY <2>1, <2>2, <2>4
<1> HIDE DEF p
<1>2. /\ IsManager(c)
      /\ c.preserved_detached_prefix = p.preserved_detached_prefix
      /\ c.reply_owned_prefix = p.reply_owned_prefix
      /\ c.next_live_prefix_belongs_to_reply = p.next_live_prefix_belongs_to_reply
  BY <1>1 DEF clear_pending_request_state, IsManager, Fields
<1>3. u = [c EXCEPT !.tape = << >>, !.pending_request_input = FALSE, !.session_end_seen = FALSE]
  BY DEF reset_output_state
<1> HIDE DEF c
<1>4. /\ IsManager(u)
      /\ u.preserved_detached_prefix = p.preserved_detached_prefix
      /\ u.reply_owned_prefix = p.reply_owned_prefix
      /\ u.next_live_prefix_belongs_to_reply = FALSE
      /\ u.tape = << >>
  BY <1>1, <1>2, <1>3 DEF IsManager, Fields
<1>5. reset_output_state_preserving_detached_output(t) = u
  BY DEF reset_output_state_preserving_detached_output, p
<1> HIDE DEF u
<1> DEFINE a == t.preserved_detached_prefix
           b == t.reply_owned_prefix
           e == t.tape
           ae == a \o e
           be == b \o e
<1>6. /\ a \in Items /\ b \in Items /\ e \in Items /\ Ordered(a) /\ Ordered(b) /\ Ordered(e)
      /\ Before(a, b) /\ Before(a, e) /\ Before(b, e)
  BY DEF InLine
<1>7. /\ \A q : AllAfter(q, t) <=> Before(q, a) /\ Before(q, b) /\ Before(q, e)
      /\ \A n : AllUpTo(t, n) <=> UpTo(a, n) /\ UpTo(b, n) /\ UpTo(e, n)
  BY DEF AllAfter, AllUpTo
<1>8. \/ /\ t.next_live_prefix_belongs_to_reply
         /\ u.preserved_detached_prefix = a /\ u.reply_owned_prefix = be
      \/ /\ u.reply_owned_prefix = << >>
         /\ u.preserved_detached_prefix = ae
  BY <1>1, <1>4 DEF FlagKept
<1>9. ae = a \o e /\ be = b \o e
  OBVIOUS
<1> HIDE DEF a, b, e, ae, be
<1>10. /\ ae \in Items /\ Ordered(ae)
      /\ \A x \in Items : Before(x, a) /\ Before(x, e) => Before(x, ae)
      /\ \A n \in Nat : UpTo(a, n) /\ UpTo(e, n) => UpTo(ae, n)
  BY <1>6, <1>9, Joined DEF Joins
<1>11. /\ be \in Items /\ Ordered(be)
      /\ \A x \in Items : Before(x, b) /\ Before(x, e) => Before(x, be)
      /\ \A n \in Nat : UpTo(b, n) /\ UpTo(e, n) => UpTo(be, n)
  BY <1>6, <1>9, Joined DEF Joins
<1>12. InLine(u)
  BY <1>4, <1>6, <1>10, <1>11, <1>8, EmptyFacts DEF InLine
<1>13. \A q \in Items : AllAfter(q, t) => AllAfter(q, u)
  BY <1>4, <1>10, <1>11, <1>7, <1>8, EmptyFacts DEF AllAfter
<1>14. \A n \in Nat : AllUpTo(t, n) => AllUpTo(u, n)
  BY <1>4, <1>10, <1>11, <1>7, <1>8, EmptyFacts DEF AllUpTo
<1> QED BY <1>4, <1>5, <1>8, <1>12, <1>13, <1>14 DEF Moved

\* Resetting the output forgets the pending request.
LEMMA ResetOutputFacts ==
  ASSUME NEW t, IsManager(t), NEW clear
  PROVE  LET u == reset_output_state(t, clear) IN
         IsManager(u) /\ u.pending_request = FALSE /\ u.last_spawn = t.last_spawn
<1> DEFINE c == clear_pending_request_state(t)
           u == reset_output_state(t, clear)
<1>1. IsManager(c) /\ c.pending_request = FALSE /\ c.last_spawn = t.last_spawn
  BY DEF clear_pending_request_state, IsManager, Fields
<1>2. u = [c EXCEPT !.tape = IF clear THEN << >> ELSE @,
                    !.pending_request_input = FALSE, !.session_end_seen = FALSE]
  BY DEF reset_output_state
<1> HIDE DEF c
<1>3. IsManager(u) /\ u.pending_request = FALSE /\ u.last_spawn = t.last_spawn
  BY <1>1, <1>2 DEF IsManager, Fields
<1> QED BY <1>3

\* A spawn that succeeds leaves the pending request as it is.
LEMMA SpawnFacts ==
  ASSUME NEW t, IsManager(t), NEW u, u = spawn_process(t, TRUE)
  PROVE  u.pending_request = t.pending_request /\ u.last_spawn = TRUE
BY DEF spawn_process, IsManager, Fields

\* A change of the policy, when the respawn succeeds.
LEMMA UpdateMoves ==
  ASSUME NEW t, IsManager(t), InLine(t), FlagKept(t), NEW update
  PROVE  LET r == update_sandbox_state(t, update, TRUE) IN
         /\ IsManager(r) /\ Moved(t, r) /\ FlagKept(r)
         /\ update_spawns(t, update) => r.pending_request = FALSE
         /\ ~requires_restart(t, update) \/ ~has_detached_output_to_preserve(t) =>
              (NoPrefix(t) => NoPrefix(r))
         /\ update = None => r = t
<1> DEFINE g == stage_sandbox_state_update(t, update)
           d == DropProcess(g)
           p == reset_output_state_preserving_detached_output(d)
           q == reset_output_state(d, TRUE)
           sp == spawn_process(p, TRUE)
           sq == spawn_process(q, TRUE)
           v == restart_worker_after_sandbox_state_change(g, TRUE)
           vn == [v EXCEPT !.pending_server_notice = TRUE,
                           !.next_live_prefix_belongs_to_reply = TRUE]
           w == reset_output_state(g, TRUE)
           x == spawn_process(w, TRUE)
           r == update_sandbox_state(t, update, TRUE)
<1>1. r = IF requires_restart(t, update)
          THEN IF t.last_spawn THEN vn ELSE v
          ELSE IF update_spawns(t, update) THEN x ELSE g
  BY DEF update_sandbox_state
<1>2. v = IF has_detached_output_to_preserve(d) THEN sp ELSE sq
  BY DEF restart_worker_after_sandbox_state_change
<1>3. /\ Follows(t, g) /\ IsManager(g)
      /\ g.next_live_prefix_belongs_to_reply = t.next_live_prefix_belongs_to_reply
      /\ g.tape = t.tape /\ g.settled_pending_completion = t.settled_pending_completion
      /\ update = None => g = t
  <2>1. Follows(t, g)
    BY SimpleFollows
  <2>2. /\ g.next_live_prefix_belongs_to_reply = t.next_live_prefix_belongs_to_reply
        /\ g.tape = t.tape /\ g.settled_pending_completion = t.settled_pending_completion
        /\ update = None => g = t
    BY DEF stage_sandbox_state_update, IsManager, Fields
  <2> QED BY <2>1, <2>2 DEF Follows
<1> HIDE DEF g
<1>4. /\ Follows(g, d) /\ IsManager(d)
      /\ d.next_live_prefix_belongs_to_reply = g.next_live_prefix_belongs_to_reply
      /\ d.tape = g.tape /\ d.settled_pending_completion = g.settled_pending_completion
  <2>1. Follows(g, d)
    BY <1>3, SimpleFollows
  <2>2. /\ d.next_live_prefix_belongs_to_reply = g.next_live_prefix_belongs_to_reply
        /\ d.tape = g.tape /\ d.settled_pending_completion = g.settled_pending_completion
    BY <1>3 DEF DropProcess, IsManager, Fields
  <2> QED BY <2>1, <2>2 DEF Follows
<1> HIDE DEF d
<1>5. Follows(t, d) /\ InLine(d) /\ FlagKept(d) /\ Moved(t, d)
  BY <1>3, <1>4, FollowsTrans, FollowsMoved DEF Follows
<1>6. has_detached_output_to_preserve(d) <=> has_detached_output_to_preserve(t)
  BY <1>3, <1>4 DEF has_detached_output_to_preserve
<1>7. Follows(t, q) /\ IsManager(q)
  BY <1>4, <1>5, ResetOutputFollows, FollowsTrans DEF Follows
<1>8. Follows(t, sq) /\ sq.pending_request = FALSE /\ sq.last_spawn = TRUE
  <2>1. q.pending_request = FALSE
    BY <1>4, ResetOutputFacts
  <2> HIDE DEF q
  <2>2. sq.pending_request = FALSE /\ sq.last_spawn = TRUE
    BY <1>7, <2>1, SpawnFacts
  <2> QED BY <1>7, <2>2, SimpleFollows, FollowsTrans
<1>9. /\ IsManager(p) /\ Moved(d, p) /\ p.next_live_prefix_belongs_to_reply = FALSE
      /\ d.next_live_prefix_belongs_to_reply \/ p.reply_owned_prefix = << >>
  BY <1>4, <1>5, PreserveMoves
<1>10. sp.pending_request = FALSE /\ sp.last_spawn = TRUE
  <2> DEFINE y == stage_prefix_before_respawn(d)
  <2>1. IsManager(y)
    BY <1>4 DEF stage_prefix_before_respawn, IsManager, Fields
  <2>2. p = reset_output_state(y, TRUE)
    BY DEF reset_output_state_preserving_detached_output
  <2> HIDE DEF y, p
  <2>3. p.pending_request = FALSE
    BY <2>1, <2>2, ResetOutputFacts
  <2> QED BY <1>9, <2>3, SpawnFacts
<1>11. /\ Moved(t, sp) /\ IsManager(sp)
       /\ sp.next_live_prefix_belongs_to_reply = FALSE
       /\ d.next_live_prefix_belongs_to_reply \/ sp.reply_owned_prefix = << >>
  <2>1. Moved(t, p)
    BY <1>5, <1>9 DEF Moved
  <2> HIDE DEF p
  <2>2. Follows(p, sp)
    BY <1>9, SimpleFollows
  <2>3. /\ sp.next_live_prefix_belongs_to_reply = p.next_live_prefix_belongs_to_reply
        /\ sp.reply_owned_prefix = p.reply_owned_prefix
    BY <1>9 DEF spawn_process, IsManager, Fields
  <2> HIDE DEF sp
  <2> QED BY <1>9, <2>1, <2>2, <2>3, MovedFollows DEF Follows
<1> HIDE DEF p, q, sp, sq
<1>12. /\ Moved(t, v) /\ IsManager(v) /\ v.pending_request = FALSE /\ v.last_spawn = TRUE
       /\ FlagKept(v) \/ t.next_live_prefix_belongs_to_reply
       /\ ~has_detached_output_to_preserve(t) => Follows(t, v)
  <2>1. ASSUME has_detached_output_to_preserve(t)
        PROVE  FlagKept(v) \/ t.next_live_prefix_belongs_to_reply
    BY <1>2, <1>3, <1>4, <1>6, <1>10, <1>11, <2>1 DEF FlagKept
  <2>2. ASSUME ~has_detached_output_to_preserve(t)
        PROVE  Follows(t, v) /\ FlagKept(v)
    BY <1>2, <1>6, <1>8, <2>2 DEF Follows
  <2>3. Moved(t, v) /\ IsManager(v) /\ v.pending_request = FALSE /\ v.last_spawn = TRUE
    BY <1>2, <1>8, <1>10, <1>11, FollowsMoved DEF Follows
  <2> QED BY <2>1, <2>2, <2>3
<1> HIDE DEF v
<1>13. /\ IsManager(vn)
       /\ vn.preserved_detached_prefix = v.preserved_detached_prefix
       /\ vn.reply_owned_prefix = v.reply_owned_prefix
       /\ vn.tape = v.tape
       /\ vn.next_live_prefix_belongs_to_reply = TRUE
       /\ vn.pending_request = v.pending_request /\ vn.last_spawn = v.last_spawn
  BY <1>12 DEF IsManager, Fields
<1> HIDE DEF vn
<1>14. /\ Moved(t, vn) /\ FlagKept(vn)
       /\ ~has_detached_output_to_preserve(t) /\ NoPrefix(t) => NoPrefix(vn)
  <2>1. Moved(t, vn)
    BY <1>12, <1>13 DEF Moved, InLine, AllAfter, AllUpTo
  <2>2. FlagKept(vn)
    BY <1>12, <1>13 DEF FlagKept
  <2>3. ~has_detached_output_to_preserve(t) /\ NoPrefix(t) => NoPrefix(vn)
    BY <1>12, <1>13 DEF Follows, NoPrefix
  <2> QED BY <2>1, <2>2, <2>3
<1>15. Follows(t, x) /\ x.pending_request = FALSE
  <2>1. Follows(t, w) /\ IsManager(w)
    BY <1>3, ResetOutputFollows, FollowsTrans DEF Follows
  <2>2. w.pending_request = FALSE
    BY <1>3, ResetOutputFacts
  <2> HIDE DEF w
  <2>3. x.pending_request = FALSE
    BY <2>1, <2>2, SpawnFacts
  <2> QED BY <2>1, <2>3, SimpleFollows, FollowsTrans
<1>16. Moved(t, x) /\ Moved(t, g)
  BY <1>3, <1>15, FollowsMoved
<1> HIDE DEF x, r
<1>17. ~requires_restart(t, update) => Follows(t, r) /\ Moved(t, r)
  BY <1>1, <1>3, <1>15, <1>16
<1>18. requires_restart(t, update) => IsManager(r) /\ Moved(t, r) /\ FlagKept(r)
  BY <1>1, <1>12, <1>13, <1>14 DEF FlagKept
<1>19. IsManager(r) /\ Moved(t, r) /\ FlagKept(r)
  BY <1>17, <1>18 DEF Follows
<1>20. update_spawns(t, update) => r.pending_request = FALSE
  BY <1>1, <1>12, <1>13, <1>15
<1>21. ~requires_restart(t, update) \/ ~has_detached_output_to_preserve(t) =>
         (NoPrefix(t) => NoPrefix(r))
  <2>1. ~requires_restart(t, update) /\ NoPrefix(t) => NoPrefix(r)
    BY <1>17 DEF Follows
  <2>2. requires_restart(t, update) /\ ~has_detached_output_to_preserve(t) /\ NoPrefix(t)
          => NoPrefix(r)
    BY <1>1, <1>12, <1>14 DEF Follows
  <2> QED BY <2>1, <2>2
<1>22. update = None => r = t
  BY <1>1, <1>3 DEF requires_restart, update_spawns
<1> QED BY <1>19, <1>20, <1>21, <1>22 DEF r

-----------------------------------------------------------------------------

\* A prefix is preserved by a respawn before the input of a call with text,
\* and that call consumes it: there is no poll in between.
PrefixHeld ==
  NoPrefix(s) \/ /\ pc \in {"write", "preflight", "dispatch"}
                 /\ call.tail /\ call.control = "none" /\ ~s.pending_request

\* A call without text that is tried again finds nothing to preserve.
NothingToPreserve ==
  pc = "retry" /\ ~call.tail /\ call.meta # None =>
    \/ s.sandbox_state = call.meta
    \/ ~is_running(s) /\ s.tape = << >> /\ s.settled_pending_completion = None

\* A manager that fits the items already shown or held by the call.
Ready(t) ==
  /\ IsManager(t) /\ InLine(t) /\ AllUpTo(t, items) /\ FlagKept(t)
  /\ AllAfter(shown, t) /\ AllAfter(call.held, t) /\ AllAfter(call.context, t)

\* What has been shown comes before what the call holds, that before its
\* context, and all of it before the items of the manager.
OrderInv ==
  /\ items \in Nat
  /\ shown \in Items /\ call.held \in Items /\ call.context \in Items
  /\ Ordered(shown) /\ Ordered(call.held) /\ Ordered(call.context)
  /\ Before(shown, call.held) /\ Before(shown, call.context) /\ Before(call.held, call.context)
  /\ UpTo(shown, items) /\ UpTo(call.held, items) /\ UpTo(call.context, items)
  /\ pc \notin {"send", "await"} => call.context = << >>
  /\ Ready(s) /\ PrefixHeld /\ NothingToPreserve

-----------------------------------------------------------------------------
(* The ways a step of a call ends.                                         *)

\* Contents that may be shown now, with t as the manager afterwards.
Fits(contents, t) ==
  /\ contents \in Items /\ Ordered(contents) /\ UpTo(contents, items)
  /\ Before(shown, contents) /\ Before(call.held, contents)
  /\ AllAfter(contents, t)

\* What follows a ready state is ready.
LEMMA FollowsReady ==
  ASSUME OrderInv, NEW t, NEW u, Ready(t), Follows(t, u)
  PROVE  Ready(u) /\ (NoPrefix(t) => NoPrefix(u))
BY DEF Follows, Ready, OrderInv

\* No call holds no output.
LEMMA NoCallItems == NoCall.held = << >> /\ NoCall.context = << >>
BY DEF NoCall, NewCall

\* An empty reply fits.
LEMMA EmptyFits == ASSUME OrderInv, NEW t PROVE Fits(<< >>, t)
BY EmptyFacts DEF Fits, AllAfter

\* A reply that fits continues what was shown.
LEMMA ReplyOrder ==
  ASSUME OrderInv, NEW t, Ready(t), NoPrefix(t), NEW contents, Fits(contents, t),
         NEW open, Reply(t, contents, open)
  PROVE  OrderInv'
<1> DEFINE a == shown \o call.held
           b == a \o contents
<1>1. /\ s' = t /\ pc' = "idle" /\ call' = NoCall /\ shown' = b /\ items' = items
  BY DEF Reply
<1>2. /\ a = shown \o call.held /\ b = a \o contents
  OBVIOUS
<1> HIDE DEF a, b
<1>3. /\ a \in Items /\ Ordered(a) /\ UpTo(a, items)
      /\ \A x \in Items : Before(shown, x) /\ Before(call.held, x) => Before(a, x)
  <2>1. Joins(shown, call.held, a)
    BY <1>2, Joined DEF OrderInv
  <2> QED BY <2>1 DEF OrderInv, Joins
<1>4. /\ b \in Items /\ Ordered(b) /\ UpTo(b, items)
      /\ \A x \in Items : Before(a, x) /\ Before(contents, x) => Before(b, x)
  <2>1. Joins(a, contents, b)
    BY <1>2, <1>3, Joined DEF Fits
  <2> QED BY <1>3, <2>1 DEF OrderInv, Fits, Joins
<1>5. AllAfter(b, t)
  <2>1. /\ t.preserved_detached_prefix \in Items /\ t.reply_owned_prefix \in Items
        /\ t.tape \in Items
    BY DEF Ready, InLine
  <2> QED BY <1>3, <1>4, <2>1 DEF Ready, Fits, AllAfter
<1>6. items' \in Nat /\ call'.held = << >> /\ call'.context = << >>
  BY <1>1, NoCallItems DEF OrderInv
<1>7. Ready(s)'
  <2>1. AllAfter(<< >>, t)
    BY EmptyFacts DEF AllAfter
  <2> QED BY <1>1, <1>5, <1>6, <2>1 DEF Ready
<1>8. PrefixHeld' /\ NothingToPreserve'
  BY <1>1 DEF PrefixHeld, NothingToPreserve
<1> QED BY <1>1, <1>4, <1>6, <1>7, <1>8, EmptyFacts DEF OrderInv

\* A call that ends without a reply keeps the order.
LEMMA EndOrder ==
  ASSUME OrderInv, NEW t, Ready(t), NoPrefix(t), s' = t, pc' = "idle", call' = NoCall,
         shown' = shown, items' = items
  PROVE  OrderInv'
<1>1. items' \in Nat /\ call'.held = << >> /\ call'.context = << >>
  BY NoCallItems DEF OrderInv
<1>2. Ready(s)'
  <2>1. AllAfter(<< >>, t)
    BY EmptyFacts DEF AllAfter
  <2> QED BY <1>1, <2>1 DEF Ready
<1>3. PrefixHeld' /\ NothingToPreserve'
  BY DEF PrefixHeld, NothingToPreserve
<1>4. shown \in Items /\ Ordered(shown) /\ UpTo(shown, items)
  BY DEF OrderInv
<1> QED BY <1>1, <1>2, <1>3, <1>4, EmptyFacts DEF OrderInv

\* An error reply without output keeps the order.
LEMMA FailOrder ==
  ASSUME OrderInv, NEW t, Ready(t), NoPrefix(t), NEW open, Fail(t, open)
  PROVE  OrderInv'
BY EndOrder DEF Fail

\* A step that holds what the call held.
LEMMA MoveOrder ==
  ASSUME OrderInv, NEW t, Ready(t), NEW place, NEW c, Goto(place, t, c),
         c.held = call.held, c.context = call.context,
         place # "retry", pc \notin {"send", "await"},
         NoPrefix(t) \/ ( /\ place \in {"write", "preflight", "dispatch"}
                          /\ c.tail /\ c.control = "none" /\ ~t.pending_request )
  PROVE  OrderInv'
<1>1. s' = t /\ pc' = place /\ call' = c /\ shown' = shown /\ items' = items
  BY DEF Goto
<1>2. Ready(s)'
  BY <1>1 DEF Ready
<1>3. PrefixHeld' /\ NothingToPreserve'
  BY <1>1 DEF PrefixHeld, NothingToPreserve
<1> QED BY <1>1, <1>2, <1>3 DEF OrderInv

\* A step after which the call holds other contents.
LEMMA HoldOrder ==
  ASSUME OrderInv, NEW t, Ready(t), NoPrefix(t), NEW contents, Fits(contents, t),
         NEW place, NEW c, Goto(place, t, c), place # "retry",
         c.held = contents, c.context = call.context, pc \notin {"send", "await"}
  PROVE  OrderInv'
<1>1. s' = t /\ pc' = place /\ call' = c /\ shown' = shown /\ items' = items
  BY DEF Goto
<1>2. call.context = << >>
  BY DEF OrderInv
<1>3. Ready(s)'
  BY <1>1 DEF Ready, Fits
<1>4. PrefixHeld' /\ NothingToPreserve'
  BY <1>1 DEF PrefixHeld, NothingToPreserve
<1>5. /\ shown \in Items /\ Ordered(shown) /\ UpTo(shown, items) /\ items \in Nat
      /\ contents \in Items /\ Ordered(contents) /\ UpTo(contents, items)
      /\ Before(shown, contents)
  BY DEF OrderInv, Fits
<1> QED BY <1>1, <1>2, <1>3, <1>4, <1>5, EmptyFacts DEF OrderInv

\* The retry holds what the first attempt set aside, in order.
LEMMA AskOrder ==
  ASSUME PlaceInv, PolicyInv, OrderInv, NEW t, Ready(t), NoPrefix(t), RequiresMeta(t),
         pc \notin {"send", "await", "called"}, t.sandbox_state = s.sandbox_state,
         \/ call.deferred = None
         \/ ~is_running(t) /\ t.tape = << >> /\ t.settled_pending_completion = None
  PROVE  OrderInv'
<1> DEFINE c == [call EXCEPT !.held = << >>, !.context = << >>,
                             !.in_control = FALSE, !.told = FALSE]
<1>1. /\ s' = t /\ shown' = shown /\ items' = items
      /\ (pc' = "idle" /\ call' = NoCall) \/ (pc' = "retry" /\ call' = c)
  BY DEF RequiresMeta
<1>2. c.held = << >> /\ c.context = << >> /\ c.tail = call.tail /\ c.meta = call.meta
  BY DEF PlaceInv, IsCall, CallFields
<1> HIDE DEF c
<1>3. CASE pc' = "idle" /\ call' = NoCall
  BY <1>1, <1>3, EndOrder
<1>4. CASE pc' = "retry" /\ call' = c
  <2>1. Ready(s)'
    <3>1. AllAfter(<< >>, t)
      BY EmptyFacts DEF AllAfter
    <3> QED BY <1>1, <1>2, <1>4, <3>1 DEF Ready
  <2>2. call.meta # None /\ call.deferred = None => s.sandbox_state = call.meta
    BY DEF PolicyInv, MetaHeld
  <2>3. PrefixHeld' /\ NothingToPreserve'
    BY <1>1, <1>2, <1>4, <2>2 DEF PrefixHeld, NothingToPreserve
  <2>4. items \in Nat /\ shown \in Items /\ Ordered(shown) /\ UpTo(shown, items)
    BY DEF OrderInv
  <2> QED BY <1>1, <1>2, <1>4, <2>1, <2>3, <2>4, EmptyFacts DEF OrderInv
<1> QED BY <1>1, <1>3, <1>4

-----------------------------------------------------------------------------
(* What a call shows.                                                      *)

\* The tape continues what was shown.
LEMMA TapeFits ==
  ASSUME OrderInv, NEW t, Ready(t), NoPrefix(t), NEW v, Follows([t EXCEPT !.tape = << >>], v)
  PROVE  Fits(t.tape, v) /\ Ready(v) /\ NoPrefix(v)
<1> DEFINE u == [t EXCEPT !.tape = << >>]
<1>1. Follows(t, u)
  BY DrainFollows DEF Ready
<1>2. Ready(u) /\ NoPrefix(u) /\ u.tape = << >>
  BY <1>1, FollowsReady DEF Ready, IsManager, Fields
<1> HIDE DEF u
<1>3. Follows(u, v)
  BY DEF u
<1>4. Ready(v) /\ NoPrefix(v)
  BY <1>2, <1>3, FollowsReady
<1>5. t.tape \in Items /\ AllAfter(t.tape, u)
  BY <1>2, EmptyFacts DEF Ready, InLine, AllAfter, NoPrefix
<1>6. AllAfter(t.tape, v)
  BY <1>2, <1>3, <1>5 DEF Follows, Ready
<1> QED BY <1>4, <1>5, <1>6 DEF Fits, Ready, InLine, AllAfter, AllUpTo

\* The prefixes and then the tape continue what was shown.
LEMMA ContextFits ==
  ASSUME OrderInv, NEW t, Ready(t), NEW v, Follows(prepare_input_context(t), v)
  PROVE  Fits(InputContext(t), v) /\ Ready(v) /\ NoPrefix(v)
<1> DEFINE u == prepare_input_context(t)
           a == t.preserved_detached_prefix
           b == t.reply_owned_prefix
           e == t.tape
           ab == a \o b
           abe == ab \o e
           ae == a \o e
<1>1. Follows(t, u) /\ NoPrefix(u)
  BY ClearPrefixesFollows DEF Ready
<1>2. u.tape = << >>
  <2> DEFINE x == clear_preserved_prefixes(t)
  <2>1. IsManager(x)
    BY DEF Ready, clear_preserved_prefixes, IsManager, Fields
  <2>2. u = [x EXCEPT !.tape = << >>, !.settled_pending_completion = None]
    BY DEF prepare_input_context
  <2> HIDE DEF x
  <2> QED BY <2>1, <2>2 DEF IsManager, Fields
<1>3. /\ a \in Items /\ b \in Items /\ e \in Items /\ Ordered(a) /\ Ordered(b) /\ Ordered(e)
      /\ Before(a, b) /\ Before(a, e) /\ Before(b, e)
      /\ UpTo(a, items) /\ UpTo(b, items) /\ UpTo(e, items)
      /\ Before(shown, a) /\ Before(shown, b) /\ Before(shown, e)
      /\ Before(call.held, a) /\ Before(call.held, b) /\ Before(call.held, e)
      /\ items \in Nat /\ shown \in Items /\ call.held \in Items
  BY DEF Ready, InLine, AllAfter, AllUpTo, OrderInv
<1>4. InputContext(t) = abe \/ (InputContext(t) = ae \o b /\ b = << >>)
  BY DEF InputContext, Ready, FlagKept
<1>5. ab = a \o b /\ abe = ab \o e /\ ae = a \o e
  OBVIOUS
<1> HIDE DEF a, b, e, ab, abe, ae
<1>6. /\ ab \in Items /\ Ordered(ab) /\ UpTo(ab, items) /\ Before(ab, e)
      /\ Before(shown, ab) /\ Before(call.held, ab)
  <2>1. Joins(a, b, ab)
    BY <1>3, <1>5, Joined
  <2> QED BY <1>3, <2>1 DEF Joins
<1>7. /\ abe \in Items /\ Ordered(abe) /\ UpTo(abe, items)
      /\ Before(shown, abe) /\ Before(call.held, abe)
  <2>1. Joins(ab, e, abe)
    BY <1>3, <1>5, <1>6, Joined
  <2> QED BY <1>3, <1>6, <2>1 DEF Joins
<1>8. /\ ae \in Items /\ Ordered(ae) /\ UpTo(ae, items)
      /\ Before(shown, ae) /\ Before(call.held, ae)
  <2>1. Joins(a, e, ae)
    BY <1>3, <1>5, Joined
  <2> QED BY <1>3, <2>1 DEF Joins
<1>9. ae \o << >> = ae
  BY <1>8 DEF Items
<1>10. InputContext(t) \in {abe, ae}
  BY <1>4, <1>9
<1> HIDE DEF u
<1>11. Follows(u, v)
  BY DEF u
<1>12. Ready(u) /\ Ready(v) /\ NoPrefix(v)
  BY <1>1, <1>11, FollowsReady
<1>13. \A q \in Items : AllAfter(q, u)
  BY <1>1, <1>2, EmptyFacts DEF AllAfter, NoPrefix
<1>14. \A q \in Items : AllAfter(q, v)
  BY <1>11, <1>12, <1>13 DEF Follows, Ready
<1> QED BY <1>7, <1>8, <1>10, <1>12, <1>14 DEF Fits

\* The reply to a request shows its context first.
LEMMA RequestFits ==
  ASSUME OrderInv, NEW t, Ready(t), NoPrefix(t), NEW v, Follows([t EXCEPT !.tape = << >>], v)
  PROVE  Fits(call.context \o t.tape, v) /\ Ready(v) /\ NoPrefix(v)
<1> DEFINE c == call.context \o t.tape
<1>1. Fits(t.tape, v) /\ Ready(v) /\ NoPrefix(v)
  BY TapeFits
<1>2. c = call.context \o t.tape
  OBVIOUS
<1> HIDE DEF c
<1>3. /\ call.context \in Items /\ t.tape \in Items /\ Ordered(call.context) /\ Ordered(t.tape)
      /\ Before(call.context, t.tape) /\ AllAfter(call.context, v) /\ AllAfter(t.tape, v)
      /\ UpTo(call.context, items) /\ UpTo(t.tape, items)
      /\ Before(shown, call.context) /\ Before(call.held, call.context)
      /\ Before(shown, t.tape) /\ Before(call.held, t.tape)
      /\ items \in Nat /\ shown \in Items /\ call.held \in Items
  BY <1>1 DEF OrderInv, Ready, InLine, AllAfter, Fits
<1>4. /\ c \in Items /\ Ordered(c) /\ UpTo(c, items) /\ Before(shown, c) /\ Before(call.held, c)
      /\ \A x \in Items : Before(call.context, x) /\ Before(t.tape, x) => Before(c, x)
  <2>1. Joins(call.context, t.tape, c)
    BY <1>2, <1>3, Joined
  <2> QED BY <1>3, <2>1 DEF Joins
<1>5. AllAfter(c, v)
  <2>1. /\ v.preserved_detached_prefix \in Items /\ v.reply_owned_prefix \in Items
        /\ v.tape \in Items
    BY <1>1 DEF Ready, InLine
  <2> QED BY <1>3, <1>4, <2>1 DEF AllAfter
<1> QED BY <1>1, <1>2, <1>4, <1>5 DEF Fits

-----------------------------------------------------------------------------
(* The steps of a call.                                                    *)

\* What OrderInv says of the call in progress.
LEMMA OrderFacts ==
  ASSUME PlaceInv, PolicyInv, OrderInv
  PROVE  /\ IsManager(s) /\ IsCall(call) /\ Ready(s) /\ Follows(s, s)
         /\ pc \notin {"write", "preflight", "dispatch"} => NoPrefix(s)
         /\ pc = "write" /\ call.control # "none" => NoPrefix(s)
BY FollowsSelf DEF PlaceInv, PolicyInv, OrderInv, PrefixHeld

\* The zero-wait look keeps the order.
LEMMA RecheckedFollows == ASSUME IsManager(s) PROVE Follows(s, Rechecked)
BY TimeoutMarkerFollows, FollowsSelf DEF Rechecked

\* Only a call with text makes a respawn preserve anything.
LEMMA ApplyOrder ==
  ASSUME PlaceInv, PolicyInv, OrderInv, pc \notin {"send", "await"},
         NEW t, Ready(t), NoPrefix(t),
         NEW c, IsCall(c), c.held = call.held, c.context = call.context, c.tail = call.tail,
         \/ c.tail
         \/ ~requires_restart(t, call.meta)
         \/ ~has_detached_output_to_preserve(t),
         ApplyMeta(t, c, TRUE)
  PROVE  OrderInv'
<1> DEFINE u == update_sandbox_state(t, call.meta, TRUE)
           n == normalize_input_after_sandbox_respawn(c)
<1>1. /\ IsManager(u) /\ Moved(t, u) /\ FlagKept(u)
      /\ update_spawns(t, call.meta) => u.pending_request = FALSE
      /\ ~requires_restart(t, call.meta) \/ ~has_detached_output_to_preserve(t) => NoPrefix(u)
  BY UpdateMoves DEF Ready
<1>2. Goto("write", u, IF update_spawns(t, call.meta) THEN n ELSE c)
  BY DEF ApplyMeta
<1>3. /\ n.held = call.held /\ n.context = call.context
      /\ c.tail => n.tail /\ n.control = "none"
  BY DEF normalize_input_after_sandbox_respawn, IsCall, CallFields
<1>4. requires_restart(t, call.meta) => update_spawns(t, call.meta)
  BY DEF requires_restart, update_spawns
<1> HIDE DEF u, n
<1>5. Ready(u)
  BY <1>1 DEF Ready, Moved, OrderInv
<1>6. CASE update_spawns(t, call.meta)
  BY <1>1, <1>2, <1>3, <1>5, <1>6, MoveOrder
<1>7. CASE ~update_spawns(t, call.meta)
  BY <1>1, <1>2, <1>4, <1>5, <1>7, MoveOrder
<1> QED BY <1>6, <1>7

\* The steps that deal with metadata keep OrderInv.
LEMMA MetaOrder ==
  ASSUME PlaceInv, PolicyInv, OrderInv,
         ApplyCallMeta(TRUE) \/ DeferCallMeta \/ RejectCall \/ Retry(TRUE)
  PROVE  OrderInv'
<1>0. IsManager(s) /\ IsCall(call) /\ Ready(s)
  BY OrderFacts
<1>1. ASSUME pc = "called" PROVE Ready(Rechecked) /\ NoPrefix(Rechecked)
  BY <1>0, <1>1, OrderFacts, RecheckedFollows, FollowsReady
<1>2. CASE ApplyCallMeta(TRUE)
  <2>1. pc = "called" /\ AppliesMeta(Rechecked) /\ ApplyMeta(Rechecked, call, TRUE)
    BY <1>2 DEF ApplyCallMeta
  <2>2. call.tail \/ ~has_detached_output_to_preserve(Rechecked)
    BY <1>0, <2>1 DEF AppliesMeta, Empty, BareInterrupt, IsCall, empty_input_requires_spawn,
       empty_input_polls_existing_output, has_detached_output_to_preserve
  <2> QED BY <1>0, <1>1, <2>1, <2>2, ApplyOrder
<1>3. CASE DeferCallMeta
  <2> DEFINE c == [call EXCEPT !.deferred = call.meta,
                               !.suppress = MetaMissing /\ DrainsOnly(Rechecked)]
  <2>1. pc = "called" /\ Goto("write", Rechecked, c)
    BY <1>3 DEF DeferCallMeta
  <2>2. c.held = call.held /\ c.context = call.context
    BY <1>0 DEF IsCall, CallFields
  <2> HIDE DEF c
  <2> QED BY <1>1, <2>1, <2>2, MoveOrder
<1>4. CASE RejectCall
  BY <1>1, <1>4, EndOrder DEF RejectCall
<1>5. CASE Retry(TRUE)
  <2> DEFINE c == [call EXCEPT !.retried = TRUE, !.prechecked = FALSE,
                               !.deferred = None, !.suppress = FALSE,
                               !.stage_after = FALSE]
  <2>1. pc = "retry" /\ (Fail(s, owed) \/ ApplyMeta(s, c, TRUE))
    BY <1>5 DEF Retry
  <2>2. NoPrefix(s)
    BY <2>1, OrderFacts
  <2>3. /\ IsCall(c) /\ c.tail = call.tail /\ c.meta = call.meta
        /\ c.held = call.held /\ c.context = call.context
    BY <1>0 DEF IsCall, CallFields
  <2>4. \/ call.tail \/ ~requires_restart(s, call.meta)
        \/ ~has_detached_output_to_preserve(s)
    BY <2>1 DEF OrderInv, NothingToPreserve, requires_restart, has_detached_output_to_preserve
  <2> HIDE DEF c
  <2> QED BY <1>0, <2>1, <2>2, <2>3, <2>4, FailOrder, ApplyOrder
<1> QED BY <1>2, <1>3, <1>4, <1>5

\* The reply of an interrupt keeps OrderInv.
LEMMA InterruptReplyOrder ==
  ASSUME PlaceInv, PolicyInv, OrderInv, pc \notin {"send", "await"},
         NEW t, Ready(t), NoPrefix(t), NEW tells, NEW ok,
         InterruptReply([t EXCEPT !.tape = << >>], t.tape, tells, ok)
  PROVE  OrderInv'
<1> DEFINE u == [t EXCEPT !.tape = << >>]
           r == ResetWithOptions(u, None, call.suppress, ok)
           c == [call EXCEPT !.held = t.tape, !.in_control = FALSE, !.told = tells]
<1>1. Goto("control", u, c) \/ Goto("control", r, c)
  BY DEF InterruptReply
<1>2. c.held = t.tape /\ c.context = call.context
  BY DEF PlaceInv, IsCall, CallFields
<1>3. IsManager(u)
  BY DEF Ready, IsManager, Fields
<1>4. Follows(u, u) /\ Follows(u, r)
  BY <1>3, FollowsSelf, ResetWithOptionsFollows
<1> HIDE DEF c, r
<1>5. Fits(t.tape, u) /\ Ready(u) /\ NoPrefix(u) /\ Fits(t.tape, r) /\ Ready(r) /\ NoPrefix(r)
  BY <1>4, TapeFits
<1> HIDE DEF u
<1> QED BY <1>1, <1>2, <1>5, HoldOrder

\* The steps of a control prefix keep OrderInv.
LEMMA ControlOrder ==
  ASSUME PlaceInv, PolicyInv, OrderInv, NEW ok,
         \/ StartControl \/ StartInput \/ Restart \/ Interrupt
         \/ InterruptFails(ok) \/ AwaitPrompt(ok) \/ FinishControl(ok)
  PROVE  OrderInv'
<1>0. IsManager(s) /\ IsCall(call) /\ Ready(s) /\ Follows(s, s)
  BY OrderFacts
<1>1. CASE StartControl
  <2> DEFINE t == clear_guardrail_busy_event(s)
             requires_spawn == call.control = "interrupt" /\ ~is_running(t)
             before == requires_spawn \/ call.control = "restart"
             u == stage_sandbox_state_update(t, call.deferred)
             c == [call EXCEPT !.stage_after = ~before,
                               !.deferred = IF before THEN None ELSE @]
  <2>1. /\ pc = "write" /\ call.control # "none" /\ call.control # "retry"
        /\ \/ RequiresMeta(t) /\ call.deferred = None
           \/ Goto(call.control, IF before THEN u ELSE t, c)
    BY <1>0, <1>1 DEF StartControl, IsCall
  <2>2. Follows(s, t) /\ IsManager(t) /\ t.sandbox_state = s.sandbox_state
    BY <1>0, SimpleFollows, ClearBusySteady DEF Follows, Steady
  <2> HIDE DEF t
  <2>3. Follows(s, u)
    BY <2>2, SimpleFollows, FollowsTrans
  <2>4. NoPrefix(s) /\ Ready(t) /\ NoPrefix(t) /\ Ready(u) /\ NoPrefix(u)
    BY <1>0, <2>1, <2>2, <2>3, OrderFacts, FollowsReady
  <2>5. c.held = call.held /\ c.context = call.context
    BY <1>0 DEF IsCall, CallFields
  <2> HIDE DEF u, c, before
  <2> QED BY <2>1, <2>2, <2>4, <2>5, AskOrder, MoveOrder
<1>2. CASE StartInput
  <2>1. pc = "write" /\ call.control = "none" /\ Goto("preflight", s, call)
    BY <1>2 DEF StartInput
  <2>2. NoPrefix(s) \/ (call.tail /\ ~s.pending_request)
    BY DEF OrderInv, PrefixHeld
  <2> QED BY <1>0, <2>1, <2>2, MoveOrder
<1>3. CASE Restart
  <2> DEFINE n == maybe_emit_pending_server_notice(s)
             t == DropProcess(n)
             x == clear_preserved_prefixes(t)
             u == [x EXCEPT !.guardrail_busy = FALSE]
             r == reset_output_state(u, TRUE)
             c == [call EXCEPT !.held = t.tape, !.told = TRUE]
  <2>1. /\ pc = "restart"
        /\ Fail(s, owed) \/ Goto("control", r, c)
    BY <1>3 DEF Restart
  <2>2. Follows(s, n) /\ IsManager(n)
    BY <1>0, SimpleFollows DEF Follows
  <2> HIDE DEF n
  <2>3. Follows(s, t) /\ IsManager(t)
    BY <2>2, SimpleFollows, FollowsTrans DEF Follows
  <2>4. c.held = t.tape /\ c.context = call.context
    BY <1>0 DEF IsCall, CallFields
  <2> HIDE DEF t, c
  <2>5. Ready(t) /\ NoPrefix(t) /\ NoPrefix(s)
    BY <1>0, <2>1, <2>3, OrderFacts, FollowsReady
  <2>6. /\ IsManager(x) /\ x.preserved_detached_prefix = << >> /\ x.reply_owned_prefix = << >>
        /\ x.next_live_prefix_belongs_to_reply = FALSE
    BY <2>3 DEF clear_preserved_prefixes, IsManager, Fields
  <2> HIDE DEF x
  <2>7. /\ IsManager(u) /\ u.preserved_detached_prefix = << >> /\ u.reply_owned_prefix = << >>
        /\ u.next_live_prefix_belongs_to_reply = FALSE
    BY <2>6 DEF IsManager, Fields
  <2> HIDE DEF u
  <2>8. /\ IsManager(r) /\ r.preserved_detached_prefix = << >> /\ r.reply_owned_prefix = << >>
        /\ r.next_live_prefix_belongs_to_reply = FALSE /\ r.tape = << >>
    <3> DEFINE y == clear_pending_request_state(u)
    <3>1. /\ IsManager(y) /\ y.preserved_detached_prefix = << >> /\ y.reply_owned_prefix = << >>
          /\ y.next_live_prefix_belongs_to_reply = FALSE
      BY <2>7 DEF clear_pending_request_state, IsManager, Fields
    <3>2. r = [y EXCEPT !.tape = << >>, !.pending_request_input = FALSE,
                        !.session_end_seen = FALSE]
      BY DEF reset_output_state
    <3> HIDE DEF y, r
    <3> QED BY <3>1, <3>2 DEF IsManager, Fields
  <2> HIDE DEF r
  <2>9. \A q : AllAfter(q, r)
    BY <2>8, EmptyFacts DEF AllAfter
  <2>10. Ready(r) /\ NoPrefix(r)
    BY <2>8, <2>9, EmptyFacts DEF Ready, InLine, AllUpTo, FlagKept, NoPrefix
  <2>11. Fits(t.tape, r)
    BY <2>5, <2>9 DEF Fits, Ready, InLine, AllAfter, AllUpTo
  <2> QED BY <1>0, <2>1, <2>4, <2>5, <2>10, <2>11, FailOrder, HoldOrder
<1>4. CASE Interrupt
  <2> DEFINE c == [call EXCEPT !.in_control = TRUE]
  <2>1. pc = "interrupt" /\ (Goto("poll", s, c) \/ Goto("prompt", s, call))
    BY <1>4 DEF Interrupt
  <2>2. c.held = call.held /\ c.context = call.context
    BY <1>0 DEF IsCall, CallFields
  <2> HIDE DEF c
  <2> QED BY <1>0, <2>1, <2>2, OrderFacts, MoveOrder
<1>5. CASE InterruptFails(ok)
  <2>1. pc = "interrupt" /\ Fail(reset(s, ok), {})
    BY <1>5 DEF InterruptFails
  <2>2. Ready(reset(s, ok)) /\ NoPrefix(reset(s, ok))
    BY <1>0, <2>1, OrderFacts, RespawnFollows, FollowsReady
  <2> QED BY <2>1, <2>2, FailOrder
<1>6. CASE AwaitPrompt(ok)
  <2> DEFINE f == [s EXCEPT !.fault = "taken"]
             n == note_session_end(f, TRUE)
             t == IF s.process /\ s.fault = "ended" THEN n ELSE s
  <2>1. /\ pc = "prompt"
        /\ \/ Fail(take_protocol_error(s), owed)
           \/ InterruptReply([t EXCEPT !.tape = << >>], t.tape, FALSE, ok)
    BY <1>6 DEF AwaitPrompt
  <2>2. Quiet(s, f) /\ IsManager(f)
    BY <1>0 DEF Quiet, IsManager, Fields
  <2> HIDE DEF f
  <2>3. Follows(s, n)
    BY <2>2, QuietFollows, SimpleFollows, FollowsTrans
  <2> HIDE DEF n
  <2>4. Follows(s, t)
    BY <1>0, <2>3
  <2> HIDE DEF t
  <2>5. Ready(t) /\ NoPrefix(t) /\ NoPrefix(s)
    BY <1>0, <2>1, <2>4, OrderFacts, FollowsReady
  <2>6. Ready(take_protocol_error(s)) /\ NoPrefix(take_protocol_error(s))
    BY <1>0, <2>5, SimpleFollows, FollowsReady
  <2> QED BY <2>1, <2>5, <2>6, FailOrder, InterruptReplyOrder
<1>7. CASE FinishControl(ok)
  <2> DEFINE resets == call.stage_after /\ s.session_end_seen /\ ~call.suppress
             r == ResetWithOptions(s, call.deferred, FALSE, ok)
             t == IF resets THEN r ELSE s
             c == [call EXCEPT !.control = "none", !.prechecked = FALSE, !.suppress = FALSE,
                               !.deferred = IF resets THEN None ELSE @]
  <2>1. /\ pc = "control"
        /\ \/ RequiresMeta(s) /\ call.deferred = None
           \/ Reply(t, << >>, Untold(FALSE))
           \/ Goto("preflight", t, c)
    BY <1>7 DEF FinishControl, stage_session_end_needs_meta
  <2>2. Follows(s, t)
    BY <1>0, ResetWithOptionsFollows
  <2>3. Ready(t) /\ NoPrefix(t) /\ NoPrefix(s)
    BY <1>0, <2>1, <2>2, OrderFacts, FollowsReady
  <2>4. c.held = call.held /\ c.context = call.context
    BY <1>0 DEF IsCall, CallFields
  <2> HIDE DEF t, c
  <2> QED BY <1>0, <2>1, <2>3, <2>4, EmptyFits, AskOrder, ReplyOrder, MoveOrder
<1> QED BY <1>1, <1>2, <1>3, <1>4, <1>5, <1>6, <1>7

\* The reply of a poll keeps OrderInv.
LEMMA PollReplyOrder ==
  ASSUME PlaceInv, PolicyInv, OrderInv, pc = "poll",
         NEW t, Ready(t), NoPrefix(t), t.sandbox_state = s.sandbox_state,
         NEW tells, NEW ok, PollReply(t, tells, ok)
  PROVE  OrderInv'
<1> DEFINE u == [t EXCEPT !.tape = << >>]
           r == ResetWithOptions(u, call.deferred, call.suppress, ok)
<1>1. \/ InterruptReply(u, t.tape, tells, ok)
      \/ RequiresMeta(u) /\ call.deferred = None
      \/ Reply(r, t.tape, Untold(tells \/ Notice \in Range(t.tape)))
  BY DEF PollReply, ResetNeedsMeta, stage_session_end_needs_meta
<1>2. Follows(t, u) /\ IsManager(u) /\ u.sandbox_state = t.sandbox_state
  BY DrainFollows DEF Ready, Follows, IsManager, Fields
<1>3. Ready(u) /\ NoPrefix(u)
  BY <1>2, FollowsReady
<1>4. Follows(u, r)
  BY <1>2, ResetWithOptionsFollows
<1> HIDE DEF r
<1>5. Fits(t.tape, r) /\ Ready(r) /\ NoPrefix(r)
  BY <1>4, TapeFits
<1>6. CASE InterruptReply(u, t.tape, tells, ok)
  BY <1>6, InterruptReplyOrder
<1> HIDE DEF u
<1>7. CASE RequiresMeta(u) /\ call.deferred = None
  BY <1>2, <1>3, <1>7, AskOrder
<1>8. CASE Reply(r, t.tape, Untold(tells \/ Notice \in Range(t.tape)))
  BY <1>5, <1>8, ReplyOrder
<1> QED BY <1>1, <1>6, <1>7, <1>8

\* The look before an input keeps the order.
LEMMA PreflightedFollows ==
  ASSUME IsManager(s)
  PROVE  Follows(s, Preflighted) /\ (Preflighted.pending_request => s.pending_request)
<1> DEFINE t == maybe_emit_guardrail_notice(s)
<1>1. Follows(s, t) /\ IsManager(t)
  BY GuardrailNoticeFollows DEF Follows
<1>2. t.pending_request = s.pending_request
  <2> DEFINE u == maybe_emit_pending_server_notice(s)
  <2>1. IsManager(u) /\ u.pending_request = s.pending_request
    BY DEF maybe_emit_pending_server_notice, IsManager, Fields
  <2>2. t \in {u, [u EXCEPT !.guardrail_event = "none", !.tape = Append(@, Notice)]}
    BY DEF maybe_emit_guardrail_notice
  <2> HIDE DEF u, t
  <2> QED BY <2>1, <2>2 DEF IsManager, Fields
<1>3. Preflighted = t \/ Preflighted = resolve_timeout_marker(t)
  BY DEF Preflighted
<1> HIDE DEF t
<1>4. ~t.pending_request => resolve_timeout_marker(t) = t
  BY DEF resolve_timeout_marker
<1>5. Follows(s, resolve_timeout_marker(t))
  BY <1>1, TimeoutMarkerFollows, FollowsTrans
<1> QED BY <1>1, <1>2, <1>3, <1>4, <1>5

\* An error reply with the context keeps OrderInv.
LEMMA ErrorReplyOrder ==
  ASSUME OrderInv, NEW t, Ready(t), NEW v, Follows(prepare_input_context(t), v),
         ErrorReply(t, v)
  PROVE  OrderInv'
BY ContextFits, ReplyOrder DEF ErrorReply

\* Preflight and poll keep OrderInv.
LEMMA InputOrder ==
  ASSUME PlaceInv, PolicyInv, OrderInv, NEW ok,
         \/ GuardrailBusyAbort(ok) \/ PreflightPoll \/ PreflightIdle(ok) \/ PreflightInput
         \/ PollError(ok) \/ PollPending(ok) \/ PollSettled(ok)
  PROVE  OrderInv'
<1>0. IsManager(s) /\ IsCall(call) /\ Ready(s) /\ Follows(s, s)
  BY OrderFacts
<1>1. CASE GuardrailBusyAbort(ok)
  <2> DEFINE n == maybe_emit_guardrail_notice(s)
             t == [n EXCEPT !.guardrail_event = "none", !.guardrail_busy = FALSE]
             p == prepare_input_context(t)
             r == reset(p, ok)
  <2>1. ErrorReply(t, DefaultReset(r, ok))
    BY <1>1 DEF GuardrailBusyAbort
  <2>2. Follows(s, n) /\ IsManager(n)
    BY <1>0, GuardrailNoticeFollows DEF Follows
  <2> HIDE DEF n
  <2>3. Quiet(n, t) /\ IsManager(t)
    BY <2>2 DEF IsManager, Fields, Quiet
  <2> HIDE DEF t
  <2>4. Ready(t)
    BY <1>0, <2>2, <2>3, QuietFollows, FollowsTrans, FollowsReady
  <2>5. IsManager(p)
    BY <2>3, ClearPrefixesFollows DEF Follows
  <2>6. Follows(p, r) /\ IsManager(r)
    BY <2>5, RespawnFollows DEF Follows
  <2> HIDE DEF r
  <2>7. Follows(p, DefaultReset(r, ok))
    BY <2>6, DefaultResetFollows, FollowsTrans
  <2> QED BY <2>1, <2>4, <2>7, ErrorReplyOrder
<1>2. CASE PreflightPoll \/ PreflightInput
  <2> DEFINE t == Preflighted
  <2>1. /\ pc = "preflight"
        /\ \/ Goto("poll", t, call) /\ (Empty \/ t.pending_request)
           \/ Goto("dispatch", t, call) /\ ~t.pending_request
        /\ call.control = "none"
    BY <1>2 DEF PreflightPoll, PreflightInput, Preflighting, PolicyInv
  <2>2. Follows(s, t) /\ (t.pending_request => s.pending_request)
    BY <1>0, PreflightedFollows
  <2> HIDE DEF t
  <2>3. Ready(t) /\ (NoPrefix(s) => NoPrefix(t))
    BY <1>0, <2>2, FollowsReady
  <2>4. NoPrefix(s) \/ (call.tail /\ ~s.pending_request)
    BY DEF OrderInv, PrefixHeld
  <2>5. Empty => ~call.tail
    BY DEF Empty
  <2>6. CASE Goto("poll", t, call) /\ (Empty \/ t.pending_request)
    BY <2>1, <2>2, <2>3, <2>4, <2>5, <2>6, MoveOrder
  <2>7. CASE Goto("dispatch", t, call) /\ ~t.pending_request
    BY <2>1, <2>3, <2>4, <2>7, MoveOrder
  <2> QED BY <2>1, <2>6, <2>7
<1>3. CASE PreflightIdle(ok)
  <2> DEFINE t == Preflighted
             u == ensure_process(t, ok)
             d == DefaultReset(u, ok)
             p == prepare_input_context(u)
             e == DefaultReset(p, ok)
  <2>1. /\ pc = "preflight" /\ Empty /\ ~empty_input_polls_existing_output(t)
        /\ \/ RequiresMeta(t) /\ ~is_running(t)
           \/ Reply(d, << >>, Untold(FALSE))
           \/ ErrorReply(u, e)
    BY <1>3 DEF PreflightIdle, Preflighting
  <2>2. NoPrefix(s) /\ t.tape = << >> /\ t.settled_pending_completion = None
    BY <2>1 DEF OrderInv, PrefixHeld, Empty, empty_input_polls_existing_output
  <2>3. Follows(s, t) /\ IsManager(t) /\ t.sandbox_state = s.sandbox_state
    BY <1>0, PreflightedFollows, PreflightedSteady DEF Follows, Steady
  <2> HIDE DEF t
  <2>4. Ready(t) /\ NoPrefix(t)
    BY <1>0, <2>2, <2>3, FollowsReady
  <2>5. Follows(t, u) /\ IsManager(u) /\ Ready(u) /\ NoPrefix(u)
    BY <2>3, <2>4, RespawnFollows, FollowsReady DEF Follows
  <2> HIDE DEF u
  <2>6. Ready(d) /\ NoPrefix(d)
    BY <2>5, DefaultResetFollows, FollowsReady
  <2>7. Follows(p, e)
    BY <2>5, ClearPrefixesFollows, DefaultResetFollows DEF Follows
  <2> HIDE DEF d, e
  <2>8. CASE RequiresMeta(t) /\ ~is_running(t)
    BY <2>1, <2>2, <2>3, <2>4, <2>8, AskOrder
  <2>9. CASE Reply(d, << >>, Untold(FALSE))
    BY <2>6, <2>9, EmptyFits, ReplyOrder
  <2>10. CASE ErrorReply(u, e)
    BY <2>5, <2>7, <2>10, ErrorReplyOrder
  <2> QED BY <2>1, <2>8, <2>9, <2>10
<1>4. CASE PollError(ok)
  <2> DEFINE t == [s EXCEPT !.settled_pending_error = FALSE]
  <2>1. pc = "poll" /\ Fail(reset(t, ok), {})
    BY <1>4 DEF PollError
  <2>2. Quiet(s, t) /\ IsManager(t)
    BY <1>0 DEF IsManager, Fields, Quiet
  <2> HIDE DEF t
  <2>3. Follows(s, reset(t, ok))
    BY <2>2, QuietFollows, RespawnFollows, FollowsTrans
  <2>4. Ready(reset(t, ok)) /\ NoPrefix(reset(t, ok))
    BY <1>0, <2>1, <2>3, OrderFacts, FollowsReady
  <2> QED BY <2>1, <2>4, FailOrder
<1>5. CASE PollPending(ok)
  <2>1. pc = "poll" /\ (Fail(s, owed) \/ \E w \in CompletionWaits(s) :
           LET cleared == clear_pending_request_state(w.state) IN
           \/ \E tells : PollReply(cleared, tells, ok)
           \/ \E tells : PollReply(note_session_end(cleared, TRUE), tells, ok)
           \/ \E tells : PollReply(w.state, tells, ok)
           \/ Fail(w.state, owed))
    BY <1>5 DEF PollPending
  <2>2. ASSUME NEW t, Follows(s, t) PROVE Ready(t) /\ NoPrefix(t)
    BY <1>0, <2>1, <2>2, OrderFacts, FollowsReady
  <2>3. ASSUME NEW w \in CompletionWaits(s)
        PROVE  LET cleared == clear_pending_request_state(w.state)
                   noted == note_session_end(cleared, TRUE) IN
               /\ Follows(s, w.state) /\ Follows(s, cleared) /\ Follows(s, noted)
               /\ w.state.sandbox_state = s.sandbox_state
               /\ cleared.sandbox_state = s.sandbox_state
               /\ noted.sandbox_state = s.sandbox_state
    <3> DEFINE t == w.state
               cleared == clear_pending_request_state(t)
               noted == note_session_end(cleared, TRUE)
    <3>1. Follows(s, t) /\ IsManager(t) /\ t.sandbox_state = s.sandbox_state
      BY <1>0, WaitsFollow, WaitsSteady DEF Steady, Follows
    <3> HIDE DEF t
    <3>2. Follows(s, cleared) /\ IsManager(cleared) /\ cleared.sandbox_state = s.sandbox_state
      BY <3>1, SimpleFollows, FollowsTrans, ClearPendingSteady DEF Steady, Follows
    <3> HIDE DEF cleared
    <3>3. Follows(s, noted) /\ noted.sandbox_state = s.sandbox_state
      BY <3>2, SimpleFollows, FollowsTrans, SessionEndSteady DEF Steady, Follows
    <3> QED BY <3>1, <3>2, <3>3 DEF t, cleared
  <2> QED BY <1>0, <2>1, <2>2, <2>3, FailOrder, PollReplyOrder
<1>6. CASE PollSettled(ok)
  <2> DEFINE t == [s EXCEPT !.settled_pending_completion = None]
             n == note_session_end(t, FALSE)
  <2>1. pc = "poll" /\ \E tells : PollReply(n, tells, ok) \/ PollReply(t, tells, ok)
    BY <1>6 DEF PollSettled
  <2>2. Quiet(s, t) /\ IsManager(t) /\ t.sandbox_state = s.sandbox_state
    BY <1>0 DEF IsManager, Fields, Quiet
  <2> HIDE DEF t
  <2>3. Follows(s, t) /\ Follows(s, n) /\ n.sandbox_state = s.sandbox_state
    BY <2>2, QuietFollows, SimpleFollows, FollowsTrans, SessionEndSteady DEF Steady
  <2> HIDE DEF n
  <2>4. Ready(t) /\ NoPrefix(t) /\ Ready(n) /\ NoPrefix(n)
    BY <1>0, <2>1, <2>3, OrderFacts, FollowsReady
  <2> QED BY <2>1, <2>2, <2>3, <2>4, PollReplyOrder
<1> QED BY <1>1, <1>2, <1>3, <1>4, <1>5, <1>6

\* The respawn, where there is one, moves what is left into the prefixes,
\* and the context takes all of it.
LEMMA DispatchOrder ==
  ASSUME PlaceInv, PolicyInv, OrderInv, Dispatch(TRUE)
  PROVE  OrderInv'
<1> DEFINE t == update_sandbox_state(s, call.deferred, TRUE)
           u == ensure_process(t, TRUE)
           p == prepare_input_context(u)
           e == DefaultReset(p, TRUE)
           x == InputContext(u)
           c == [call EXCEPT !.context = x]
<1>1. /\ pc = "dispatch"
      /\ Goto("send", p, c) \/ ErrorReply(u, e)
  BY DEF Dispatch
<1>2. IsManager(t) /\ Moved(s, t) /\ FlagKept(t)
  BY UpdateMoves DEF OrderInv, Ready
<1> HIDE DEF t
<1>3. Ready(t)
  BY <1>2 DEF Ready, Moved, OrderInv
<1>4. Ready(u) /\ IsManager(u)
  BY <1>2, <1>3, RespawnFollows, FollowsReady DEF Follows
<1> HIDE DEF u
<1>5. IsManager(p) /\ Follows(p, p) /\ Follows(p, e)
  BY <1>4, ClearPrefixesFollows, FollowsSelf, DefaultResetFollows DEF Follows
<1> HIDE DEF e
<1>6. CASE ErrorReply(u, e)
  BY <1>4, <1>5, <1>6, ErrorReplyOrder
<1>7. CASE Goto("send", p, c)
  <2>1. c.held = call.held /\ c.context = x
    BY DEF PlaceInv, IsCall, CallFields
  <2>2. Fits(x, p) /\ Ready(p) /\ NoPrefix(p)
    BY <1>4, <1>5, ContextFits
  <2> HIDE DEF p, c, x
  <2>3. s' = p /\ pc' = "send" /\ call' = c /\ shown' = shown /\ items' = items
    BY <1>7 DEF Goto
  <2>4. Ready(s)'
    BY <2>1, <2>2, <2>3 DEF Ready, Fits
  <2>5. PrefixHeld' /\ NothingToPreserve'
    BY <2>2, <2>3 DEF PrefixHeld, NothingToPreserve
  <2> QED BY <2>1, <2>2, <2>3, <2>4, <2>5 DEF OrderInv, Fits
<1> QED BY <1>1, <1>6, <1>7

\* Send and wait keep OrderInv.
LEMMA SendOrder ==
  ASSUME PlaceInv, PolicyInv, OrderInv, NEW ok,
         SendTimesOut \/ SendUncertain(ok) \/ SendAccepted \/ Await(ok)
  PROVE  OrderInv'
<1>0. /\ IsManager(s) /\ IsCall(call) /\ Ready(s) /\ Follows(s, s) /\ NoPrefix(s)
  <2>1. pc \in {"send", "await"}
    BY DEF SendTimesOut, SendUncertain, SendAccepted, Await
  <2> QED BY <2>1, OrderFacts
<1>1. ASSUME NEW t, Follows(s, t) PROVE IsManager(t) /\ Ready(t) /\ NoPrefix(t)
  BY <1>0, <1>1, FollowsReady DEF Follows
<1>2. ASSUME NEW t, Ready(t), NoPrefix(t), NEW v, Follows([t EXCEPT !.tape = << >>], v),
             NEW open, Reply(v, call.context \o t.tape, open)
      PROVE  OrderInv'
  BY <1>2, RequestFits, ReplyOrder
<1>3. CASE SendTimesOut
  <2> DEFINE d == [s EXCEPT !.tape = << >>]
             t == [s EXCEPT !.guardrail_busy = FALSE, !.tape = << >>,
                            !.pending_request_input = FALSE]
  <2>1. Reply(t, call.context \o s.tape, {})
    BY <1>3 DEF SendTimesOut, SendErrorReply
  <2>2. Quiet(d, t)
    BY <1>0 DEF IsManager, Fields, Quiet
  <2> HIDE DEF t
  <2>3. Follows([s EXCEPT !.tape = << >>], t)
    BY <2>2, QuietFollows
  <2> QED BY <1>0, <1>2, <2>1, <2>3
<1>4. CASE SendUncertain(ok)
  <2> DEFINE e == take_protocol_error(s)
             d == [e EXCEPT !.tape = << >>]
             r == reset(d, ok)
  <2>1. Reply(r, call.context \o s.tape, {})
    BY <1>4 DEF SendUncertain, SendErrorReply
  <2>2. Follows(s, e) /\ e.tape = s.tape
    BY <1>0, SimpleFollows DEF take_protocol_error, IsManager, Fields
  <2> HIDE DEF e
  <2>3. IsManager(e) /\ Ready(e) /\ NoPrefix(e)
    BY <1>1, <2>2
  <2>4. IsManager(d)
    BY <2>3 DEF IsManager, Fields
  <2>5. Follows([e EXCEPT !.tape = << >>], r)
    BY <2>4, RespawnFollows
  <2> HIDE DEF r, d
  <2> QED BY <1>2, <2>1, <2>2, <2>3, <2>5
<1>5. CASE SendAccepted
  <2> DEFINE t == [s EXCEPT !.batch = "running", !.settled_pending_completion = None,
                            !.guardrail_busy = TRUE, !.pending_request_input = TRUE]
  <2>1. /\ pc = "send" /\ pc' = "await" /\ s' = t /\ call' = call
        /\ shown' = shown /\ items' = items
    BY <1>5 DEF SendAccepted
  <2>2. Quiet(s, t)
    BY <1>0 DEF IsManager, Fields, Quiet
  <2> HIDE DEF t
  <2>3. Ready(t) /\ NoPrefix(t)
    BY <1>1, <2>2, QuietFollows
  <2>4. Ready(s)'
    BY <2>1, <2>3 DEF Ready
  <2>5. PrefixHeld' /\ NothingToPreserve'
    BY <2>1, <2>3 DEF PrefixHeld, NothingToPreserve
  <2> QED BY <2>1, <2>4, <2>5 DEF OrderInv
<1>6. CASE Await(ok)
  <2> DEFINE drained(u) == [u EXCEPT !.tape = << >>]
             quiet(u) == [u EXCEPT !.guardrail_busy = FALSE]
             pends(u) == [u EXCEPT !.pending_request = TRUE]
  <2>1. pc = "await" /\ \E w \in CompletionWaits(s) :
          LET t == w.state
              done == IF w.result = "ended" \/ ~t.alive THEN note_session_end(t, TRUE) ELSE t IN
          \/ \E y : Reply(DefaultReset(quiet(drained(done)), ok), call.context \o done.tape, y)
          \/ \E y : Fail(t, y)
          \/ \E y : Reply(DefaultReset(pends(drained(t)), ok), call.context \o t.tape, y)
          \/ \E y : Reply(DefaultReset(reset(drained(t), ok), ok), call.context \o t.tape, y)
    BY <1>6 DEF Await
  <2>2. PICK w \in CompletionWaits(s) :
          LET t == w.state
              done == IF w.result = "ended" \/ ~t.alive THEN note_session_end(t, TRUE) ELSE t IN
          \/ \E y : Reply(DefaultReset(quiet(drained(done)), ok), call.context \o done.tape, y)
          \/ \E y : Fail(t, y)
          \/ \E y : Reply(DefaultReset(pends(drained(t)), ok), call.context \o t.tape, y)
          \/ \E y : Reply(DefaultReset(reset(drained(t), ok), ok), call.context \o t.tape, y)
    BY <2>1
  <2> DEFINE t == w.state
             noted == note_session_end(t, TRUE)
             done == IF w.result = "ended" \/ ~t.alive THEN noted ELSE t
  <2>3. Follows(s, t) /\ IsManager(t)
    BY <1>0, WaitsFollow DEF Follows
  <2> HIDE DEF t
  <2>4. Follows(s, noted)
    BY <2>3, SimpleFollows, FollowsTrans
  <2> HIDE DEF noted
  <2>5. Follows(s, done)
    BY <2>3, <2>4
  <2>6. /\ Ready(t) /\ NoPrefix(t) /\ IsManager(t)
        /\ Ready(done) /\ NoPrefix(done) /\ IsManager(done)
    BY <1>1, <2>3, <2>5
  <2>7. \/ \E y : Reply(DefaultReset(quiet(drained(done)), ok), call.context \o done.tape, y)
        \/ \E y : Fail(t, y)
        \/ \E y : Reply(DefaultReset(pends(drained(t)), ok), call.context \o t.tape, y)
        \/ \E y : Reply(DefaultReset(reset(drained(t), ok), ok), call.context \o t.tape, y)
    BY <2>2 DEF t, noted
  <2> HIDE DEF done
  <2>8. ASSUME NEW u, IsManager(u)
        PROVE  /\ Follows(drained(u), DefaultReset(quiet(drained(u)), ok))
               /\ Follows(drained(u), DefaultReset(pends(drained(u)), ok))
               /\ Follows(drained(u), DefaultReset(reset(drained(u), ok), ok))
    <3>1. IsManager(drained(u))
      BY <2>8 DEF IsManager, Fields
    <3> HIDE DEF drained
    <3>2. /\ Quiet(drained(u), quiet(drained(u))) /\ IsManager(quiet(drained(u)))
          /\ Quiet(drained(u), pends(drained(u))) /\ IsManager(pends(drained(u)))
      BY <3>1 DEF Quiet, IsManager, Fields
    <3>3. Follows(drained(u), reset(drained(u), ok)) /\ IsManager(reset(drained(u), ok))
      BY <3>1, RespawnFollows DEF Follows
    <3> HIDE DEF quiet, pends
    <3> QED BY <3>2, <3>3, QuietFollows, DefaultResetFollows, FollowsTrans
  <2>9. CASE \E y : Fail(t, y)
    BY <2>6, <2>9, FailOrder
  <2>10. ASSUME NEW v, NEW y, Follows(drained(t), v), Reply(v, call.context \o t.tape, y)
         PROVE  OrderInv'
    BY <1>2, <2>6, <2>10
  <2>11. ASSUME NEW v, NEW y, Follows(drained(done), v), Reply(v, call.context \o done.tape, y)
         PROVE  OrderInv'
    BY <1>2, <2>6, <2>11
  <2> HIDE DEF drained, quiet, pends
  <2> QED BY <2>6, <2>7, <2>8, <2>9, <2>10, <2>11
<1> QED BY <1>3, <1>4, <1>5, <1>6

\* A bound may grow.
LEMMA UpToGrows ==
  ASSUME NEW q \in Items, NEW n \in Nat, UpTo(q, n) PROVE UpTo(q, n + 1)
BY DEF Items, UpTo

\* Output the worker produces is appended to the tape.
LEMMA ProduceOrder == ASSUME OrderInv, Produce PROVE OrderInv'
<1> DEFINE r == Append(s.tape, items + 1)
           t == [s EXCEPT !.tape = r]
<1>0. IsManager(s)
  BY DEF OrderInv, Ready
<1>1. /\ s' = t /\ items' = items + 1 /\ is_running(s)
      /\ pc' = pc /\ call' = call /\ shown' = shown
  BY DEF Produce
<1>2. /\ IsManager(t) /\ t.tape = r
      /\ t.preserved_detached_prefix = s.preserved_detached_prefix
      /\ t.reply_owned_prefix = s.reply_owned_prefix
      /\ t.next_live_prefix_belongs_to_reply = s.next_live_prefix_belongs_to_reply
      /\ t.last_spawn = s.last_spawn /\ t.pending_request = s.pending_request
      /\ t.sandbox_state = s.sandbox_state
  BY <1>0 DEF IsManager, Fields
<1>3. r = Append(s.tape, items + 1)
  OBVIOUS
<1> HIDE DEF r, t
<1>4. items \in Nat /\ s.tape \in Items /\ UpTo(s.tape, items) /\ Ordered(s.tape)
  BY DEF OrderInv, Ready, InLine, AllUpTo
<1>5. /\ r \in Items /\ Ordered(r) /\ UpTo(r, items + 1)
      /\ \A x \in Items : Before(x, s.tape) /\ UpTo(x, items) => Before(x, r)
  BY <1>3, <1>4, PieceFacts
<1>6. /\ UpTo(shown, items + 1) /\ UpTo(call.held, items + 1) /\ UpTo(call.context, items + 1)
      /\ UpTo(s.preserved_detached_prefix, items + 1)
      /\ UpTo(s.reply_owned_prefix, items + 1)
  BY <1>4, UpToGrows DEF OrderInv, Ready, InLine, AllUpTo
<1>7. InLine(t) /\ AllUpTo(t, items + 1) /\ FlagKept(t)
  BY <1>2, <1>5, <1>6 DEF OrderInv, Ready, InLine, AllUpTo, FlagKept
<1>8. AllAfter(shown, t) /\ AllAfter(call.held, t) /\ AllAfter(call.context, t)
  BY <1>2, <1>5 DEF OrderInv, Ready, AllAfter
<1>9. Ready(s)'
  BY <1>1, <1>2, <1>7, <1>8 DEF Ready
<1>10. PrefixHeld' /\ NothingToPreserve'
  BY <1>1, <1>2 DEF OrderInv, PrefixHeld, NothingToPreserve, NoPrefix
<1> QED BY <1>1, <1>4, <1>6, <1>9, <1>10 DEF OrderInv

\* The worker, its sideband and its guardrail thread otherwise leave the
\* items alone.
LEMMA EnvironmentOrder == ASSUME OrderInv, Environment PROVE OrderInv'
<1>0. IsManager(s)
  BY DEF OrderInv, Ready
<1>1. CASE Produce
  BY <1>1, ProduceOrder
<1>2. CASE ~Produce
  <2>1. /\ items' = items /\ pc' = pc /\ call' = call /\ shown' = shown
    BY <1>2 DEF Environment, Complete, SessionEnds, SidebandError, Disconnect, Exit,
                GuardrailDecides, GuardrailNotes, GuardrailKills, ManagerOnly
  <2>2. /\ IsManager(s') /\ s'.tape = s.tape
        /\ s'.preserved_detached_prefix = s.preserved_detached_prefix
        /\ s'.reply_owned_prefix = s.reply_owned_prefix
        /\ s'.next_live_prefix_belongs_to_reply = s.next_live_prefix_belongs_to_reply
        /\ s'.last_spawn = s.last_spawn /\ s'.pending_request = s.pending_request
        /\ s'.sandbox_state = s.sandbox_state
        /\ s'.settled_pending_completion = s.settled_pending_completion
        /\ is_running(s') => is_running(s)
    <3> DEFINE same ==
          /\ IsManager(s') /\ s'.tape = s.tape
          /\ s'.preserved_detached_prefix = s.preserved_detached_prefix
          /\ s'.reply_owned_prefix = s.reply_owned_prefix
          /\ s'.next_live_prefix_belongs_to_reply = s.next_live_prefix_belongs_to_reply
          /\ s'.last_spawn = s.last_spawn /\ s'.pending_request = s.pending_request
          /\ s'.sandbox_state = s.sandbox_state
          /\ s'.settled_pending_completion = s.settled_pending_completion
          /\ is_running(s') => is_running(s)
    <3>1. ASSUME Complete \/ SessionEnds \/ SidebandError \/ Disconnect PROVE same
      BY <1>0, <3>1 DEF Complete, SessionEnds, SidebandError, Disconnect,
                        IsManager, Fields, is_running
    <3>2. ASSUME Exit \/ GuardrailDecides \/ GuardrailNotes \/ GuardrailKills PROVE same
      BY <1>0, <3>2 DEF Exit, GuardrailDecides, GuardrailNotes, GuardrailKills,
                        IsManager, Fields, is_running
    <3> QED BY <1>2, <3>1, <3>2 DEF Environment
  <2>3. Ready(s)'
    BY <2>1, <2>2 DEF OrderInv, Ready, InLine, AllAfter, AllUpTo, FlagKept
  <2>4. PrefixHeld' /\ NothingToPreserve'
    BY <2>1, <2>2 DEF OrderInv, PrefixHeld, NothingToPreserve, NoPrefix
  <2> QED BY <2>1, <2>3, <2>4 DEF OrderInv
<1> QED BY <1>1, <1>2

\* The worker, its stream and the guardrail keep OrderInv.
LEMMA OtherOrder ==
  ASSUME PlaceInv, PolicyInv, OrderInv, Next, ~CallStep
  PROVE  OrderInv'
<1>0. IsManager(s) /\ Ready(s) /\ (pc = "idle" => NoPrefix(s))
  BY OrderFacts
<1>1. ASSUME NEW control, NEW tail, NEW meta, ToolCall(control, tail, meta) PROVE OrderInv'
  <2> DEFINE t == resolve_timeout_marker(s)
  <2>1. /\ pc = "idle" /\ pc' = "called" /\ call' = NewCall(control, tail, meta)
        /\ s' = t /\ shown' = shown /\ items' = items
    BY <1>1 DEF ToolCall
  <2>2. call'.held = << >> /\ call'.context = << >>
    BY <2>1 DEF NewCall
  <2>3. Ready(t) /\ NoPrefix(t)
    BY <1>0, <2>1, TimeoutMarkerFollows, FollowsReady
  <2> HIDE DEF t
  <2>4. Ready(s)'
    <3>1. AllAfter(<< >>, t)
      BY EmptyFacts DEF AllAfter
    <3> QED BY <2>1, <2>2, <2>3, <3>1 DEF Ready
  <2>5. PrefixHeld' /\ NothingToPreserve'
    BY <2>1, <2>3 DEF PrefixHeld, NothingToPreserve
  <2>6. items \in Nat /\ shown \in Items /\ Ordered(shown) /\ UpTo(shown, items)
    BY DEF OrderInv
  <2> QED BY <2>1, <2>2, <2>4, <2>5, <2>6, EmptyFacts DEF OrderInv
<1>2. ASSUME NEW ok, WarmStart(ok) PROVE OrderInv'
  <2> DEFINE t == ensure_process(s, ok)
  <2>1. pc = "idle" /\ pc' = pc /\ call' = call /\ s' = t /\ shown' = shown /\ items' = items
    BY <1>2 DEF WarmStart
  <2>2. Ready(t) /\ NoPrefix(t)
    BY <1>0, <2>1, RespawnFollows, FollowsReady
  <2> HIDE DEF t
  <2>3. Ready(s)'
    BY <2>1, <2>2 DEF Ready
  <2>4. PrefixHeld' /\ NothingToPreserve'
    BY <2>1, <2>2 DEF PrefixHeld, NothingToPreserve
  <2> QED BY <2>1, <2>3, <2>4 DEF OrderInv
<1>3. ASSUME Shutdown PROVE OrderInv'
  <2> DEFINE d == DropProcess(s)
             t == [d EXCEPT !.guardrail_busy = FALSE]
  <2>1. pc = "idle" /\ Goto("closed", t, call)
    BY <1>3 DEF Shutdown
  <2>2. Follows(s, d) /\ IsManager(d)
    BY <1>0, SimpleFollows DEF Follows
  <2> HIDE DEF d
  <2>3. Quiet(d, t)
    BY <2>2 DEF IsManager, Fields, Quiet
  <2> HIDE DEF t
  <2>4. Ready(t) /\ NoPrefix(t)
    BY <1>0, <2>1, <2>2, <2>3, QuietFollows, FollowsTrans, FollowsReady
  <2> QED BY <2>1, <2>4, MoveOrder
<1>4. ASSUME Closed PROVE OrderInv'
  BY <1>4 DEF Closed, vars, OrderInv, Ready, PrefixHeld, NothingToPreserve
<1> QED BY <1>1, <1>2, <1>3, <1>4, EnvironmentOrder DEF Next

\* Every step of a call keeps OrderInv while respawns succeed.
LEMMA CallStepOrder ==
  ASSUME PlaceInv, PolicyInv, OrderInv, "spawn" \notin setup.failures, CallStep
  PROVE  OrderInv'
<1>1. ASSUME RejectCall \/ DeferCallMeta \/ StartControl \/ StartInput \/ Restart \/ Interrupt
             \/ PreflightPoll \/ PreflightInput \/ SendTimesOut \/ SendAccepted
      PROVE  OrderInv'
  BY <1>1, MetaOrder, ControlOrder, InputOrder, SendOrder
<1>2. ASSUME \/ ApplyCallMeta(TRUE) \/ Retry(TRUE) \/ InterruptFails(TRUE) \/ AwaitPrompt(TRUE)
             \/ FinishControl(TRUE) \/ GuardrailBusyAbort(TRUE) \/ PreflightIdle(TRUE)
             \/ PollError(TRUE) \/ PollPending(TRUE) \/ PollSettled(TRUE)
             \/ Dispatch(TRUE) \/ SendUncertain(TRUE) \/ Await(TRUE)
      PROVE  OrderInv'
  BY <1>2, MetaOrder, ControlOrder, InputOrder, DispatchOrder, SendOrder
<1>3. SpawnOutcomes = {TRUE}
  BY DEF SpawnOutcomes
<1> QED BY <1>1, <1>2, <1>3 DEF CallStep

OrderedUnlessSpawnFails == "spawn" \notin setup.failures => OrderInv

\* ShownInOrder, for every setup without failing respawns: however the
\* preserved prefix, the reply-owned prefix and the tape are filled, moved by
\* a policy change and drained by a poll, an interrupt, a restart or a new
\* request, each reply continues where the previous one stopped.
THEOREM OrderCorrect == Spec => []ShownInOrder
<1> DEFINE Inv == PlaceInv /\ PolicyInv /\ OrderedUnlessSpawnFails
<1>1. Init => Inv
  <2> SUFFICES ASSUME Init PROVE Inv
    OBVIOUS
  <2>1. /\ IsManager(s) /\ Faithful(s) /\ NoPrefix(s) /\ s.tape = << >>
        /\ s.next_live_prefix_belongs_to_reply = FALSE
    BY DEF Init, NewManager, IsManager, Fields, Faithful, is_running, NoPrefix
  <2>2. pc = "idle" /\ call = NoCall /\ req = 0 /\ items = 0 /\ shown = << >>
    BY DEF Init
  <2>3. PlaceInv
    BY <2>2, NoCallFacts DEF PlaceInv
  <2>4. PolicyInv
    BY <2>1, <2>2, NoCallFacts DEF PolicyInv, MetaHeld
  <2>5. Ready(s)
    BY <2>1, <2>2, NoCallItems, EmptyFacts DEF Ready, InLine, AllAfter, AllUpTo, NoPrefix, FlagKept
  <2>6. OrderInv
    BY <2>1, <2>2, <2>5, NoCallItems, EmptyFacts DEF OrderInv, PrefixHeld, NothingToPreserve
  <2> QED BY <2>3, <2>4, <2>6 DEF OrderedUnlessSpawnFails
<1>2. Inv /\ [Next]_vars => Inv'
  <2>1. ASSUME Inv, UNCHANGED vars PROVE Inv'
    BY <2>1 DEF vars, PlaceInv, PolicyInv, OrderedUnlessSpawnFails, OrderInv, Ready, PrefixHeld,
                NothingToPreserve
  <2>2. ASSUME Inv, Next PROVE PlaceInv' /\ PolicyInv'
    BY <2>2, CallStepAdvances, OtherSteps, CallStepPolicy, OtherPolicy
  <2>3. ASSUME Inv, Next PROVE OrderedUnlessSpawnFails'
    BY <2>3, SetupKept, CallStepOrder, OtherOrder DEF OrderedUnlessSpawnFails
  <2> QED BY <2>1, <2>2, <2>3
<1>3. Inv => ShownInOrder
  BY DEF OrderedUnlessSpawnFails, OrderInv, Ordered, Precedes, ShownInOrder
<1> QED BY <1>1, <1>2, <1>3, PTL DEF Spec

-----------------------------------------------------------------------------
(***************************************************************************)
(* What becomes of the outcome of a request, under a policy of the         *)
(* server's own.                                                           *)
(***************************************************************************)

\* The session of t, if it has one, takes no other request: its batch will
\* not complete.
Spent(t) == ~is_running(t) \/ (t.batch = "running" /\ t.fault # "none")

\* A session ends in a batch, so it leaves the batch running; an end that is
\* noted is the end of the worker in use; and a request is pending only as
\* long as nothing is known of its end.
Sane(t) ==
  /\ IsManager(t) /\ ~t.inherit
  /\ t.fault = "ended" => t.batch = "running"
  /\ t.session_end_seen \/ t.settled_pending_completion = "ended" => Spent(t)
  /\ t.pending_request => ~t.session_end_seen /\ t.settled_pending_completion = None

\* The next poll finds the outcome.
Known(t) == t.pending_request \/ t.settled_pending_completion # None

\* The reply of a control prefix that told how the request ended.
ToldInv ==
  call.told =>
    /\ pc \in {"control", "preflight", "poll", "dispatch", "send", "await"}
    /\ pc = "control" \/ ~call.prechecked
    /\ ~call.in_control

OutcomeInv ==
  /\ Sane(s) /\ ToldInv
  /\ call.meta = None /\ call.deferred = None /\ ~call.suppress
  /\ owed \subseteq {req} \/ pc = "await"
  /\ calls \in Nat /\ (calls = 0 => owed = {} /\ pc \in {"idle", "closed"})
  /\ pc \in {"prompt", "dispatch", "send", "await"} => ~s.pending_request
  /\ pc = "prompt" => s.settled_pending_completion = None
  /\ pc = "send" => ~s.session_end_seen \/ s.batch = "running"
  /\ pc = "await" => ~s.session_end_seen /\ s.settled_pending_completion = None
  /\ pc \notin {"dispatch", "send", "await", "closed"} /\ owed # {} /\ ~call.told => Known(s)
  /\ pc = "control" /\ owed # {} /\ ~call.told => s.pending_request

NoLateEvents == ~setup.inherit /\ {"late_end", "late_warm"} \intersect setup.failures = {}
OutcomeUnlessLate == NoLateEvents => OutcomeInv

-----------------------------------------------------------------------------
(* What the methods of the manager do to it.                               *)

\* u differs from t in nothing that matters here.
Alike(t, u) ==
  /\ IsManager(u) /\ u.inherit = t.inherit
  /\ u.process = t.process /\ u.alive = t.alive /\ u.batch = t.batch
  /\ u.fault = t.fault \/ u.fault \notin {"none", "ended"}
  /\ u.pending_request = t.pending_request
  /\ u.session_end_seen = t.session_end_seen
  /\ u.settled_pending_completion = t.settled_pending_completion

\* Nothing is left of any request.
Clean(t) ==
  /\ Sane(t) /\ ~t.pending_request /\ ~t.session_end_seen
  /\ t.settled_pending_completion = None

\* What is alike is equally sane, known, spent and clean.
LEMMA AlikeSane ==
  ASSUME NEW t, Sane(t), NEW u, Alike(t, u)
  PROVE  /\ Sane(u) /\ (Known(t) <=> Known(u)) /\ (Spent(t) => Spent(u))
         /\ Clean(t) => Clean(u)
BY DEF Sane, Alike, Known, Spent, is_running, Clean

\* Alike is transitive.
LEMMA AlikeTrans == ASSUME NEW t, NEW u, NEW v, Alike(t, u), Alike(u, v) PROVE Alike(t, v)
BY DEF Alike

\* Notices and drains leave the request alone.
LEMMA SimpleAlike ==
  ASSUME NEW t, IsManager(t)
  PROVE  /\ Alike(t, t)
         /\ Alike(t, maybe_emit_pending_server_notice(t))
         /\ Alike(t, clear_guardrail_busy_event(t))
         /\ Alike(t, take_protocol_error(t))
         /\ Alike(t, [t EXCEPT !.tape = << >>])
<1> USE DEF Alike, IsManager, Fields
<1>1. Alike(t, maybe_emit_pending_server_notice(t))
  BY DEF maybe_emit_pending_server_notice
<1>2. Alike(t, clear_guardrail_busy_event(t))
  BY DEF clear_guardrail_busy_event
<1>3. Alike(t, take_protocol_error(t))
  BY DEF take_protocol_error
<1>4. Alike(t, t) /\ Alike(t, [t EXCEPT !.tape = << >>])
  OBVIOUS
<1> QED BY <1>1, <1>2, <1>3, <1>4

\* The guardrail's notice leaves the request alone.
LEMMA GuardrailNoticeAlike ==
  ASSUME NEW t, IsManager(t) PROVE Alike(t, maybe_emit_guardrail_notice(t))
<1> DEFINE u == maybe_emit_pending_server_notice(t)
           v == [u EXCEPT !.guardrail_event = "none", !.tape = Append(@, Notice)]
<1>1. Alike(t, u) /\ IsManager(u)
  BY SimpleAlike DEF Alike
<1>2. maybe_emit_guardrail_notice(t) = u \/ maybe_emit_guardrail_notice(t) = v
  BY DEF maybe_emit_guardrail_notice
<1> HIDE DEF u
<1>3. Alike(u, v)
  BY <1>1 DEF Alike, IsManager, Fields
<1> HIDE DEF v
<1> QED BY <1>1, <1>2, <1>3, AlikeTrans

\* Forgetting the request leaves none, and the session as it was.
LEMMA ClearPendingFacts ==
  ASSUME NEW t, Sane(t)
  PROVE  LET u == clear_pending_request_state(t) IN
         /\ Sane(u) /\ ~u.pending_request /\ u.settled_pending_completion = None
         /\ u.session_end_seen = t.session_end_seen
         /\ Spent(u) <=> Spent(t)
BY PolicyAssumption
   DEF clear_pending_request_state, Sane, IsManager, Fields, Spent, is_running

\* Noting the end of a spent session leaves what was settled.
LEMMA SessionEndFacts ==
  ASSUME NEW t, Sane(t), Spent(t), ~t.pending_request, NEW x
  PROVE  LET u == note_session_end(t, x) IN
         /\ Sane(u) /\ ~u.pending_request /\ Spent(u)
         /\ u.settled_pending_completion = t.settled_pending_completion
BY DEF note_session_end, Sane, IsManager, Fields, Spent, is_running

\* After the process is dropped and the output reset nothing is pending.
LEMMA DropClean ==
  ASSUME NEW t, Sane(t), NEW clear
  PROVE  Clean(reset_output_state(DropProcess(t), clear)) /\ ~is_running(DropProcess(t))
<1> DEFINE d == DropProcess(t)
           c == clear_pending_request_state(d)
           u == reset_output_state(d, clear)
<1>1. /\ IsManager(d) /\ ~d.inherit /\ ~d.process /\ d.fault = "none" /\ d.batch = "none"
  BY DEF Sane, DropProcess, IsManager, Fields
<1> HIDE DEF d
<1>2. /\ IsManager(c) /\ ~c.inherit /\ ~c.process /\ c.fault = "none"
      /\ ~c.pending_request /\ c.settled_pending_completion = None
  BY <1>1 DEF clear_pending_request_state, IsManager, Fields
<1>3. u = [c EXCEPT !.tape = IF clear THEN << >> ELSE @,
                    !.pending_request_input = FALSE, !.session_end_seen = FALSE]
  BY DEF reset_output_state
<1> HIDE DEF c, u
<1>4. /\ IsManager(u) /\ ~u.inherit /\ ~u.process /\ u.fault = "none"
      /\ ~u.pending_request /\ u.settled_pending_completion = None /\ ~u.session_end_seen
  BY <1>2, <1>3 DEF IsManager, Fields
<1>5. Clean(u)
  BY <1>4, PolicyAssumption DEF Clean, Sane, Spent, is_running
<1> QED BY <1>1, <1>5 DEF d, u, is_running

\* A new worker has nothing pending.
LEMMA SpawnClean == ASSUME NEW t, Clean(t), NEW ok PROVE Clean(spawn_process(t, ok))
BY PolicyAssumption DEF Clean, Sane, spawn_process, IsManager, Fields, Spent, is_running

\* Whatever respawns leaves nothing pending.
LEMMA RespawnClean ==
  ASSUME NEW t, Sane(t), NEW ok
  PROVE  /\ Clean(reset(t, ok))
         /\ (ensure_process(t, ok) = t /\ is_running(t)) \/ Clean(ensure_process(t, ok))
         /\ ~t.session_end_seen => maybe_reset_after_session_end(t, ok) = t
         /\ t.session_end_seen => Clean(maybe_reset_after_session_end(t, ok))
<1> DEFINE w(clear) == spawn_process(reset_output_state(DropProcess(t), clear), ok)
           r == reset(t, ok)
           v == [r EXCEPT !.session_end_seen = FALSE]
<1>0. ~missing_inherited_sandbox_state(t)
  BY DEF missing_inherited_sandbox_state, Sane
<1>1. r = w(TRUE) /\ ((ensure_process(t, ok) = t /\ is_running(t)) \/ ensure_process(t, ok) = w(FALSE))
  BY <1>0 DEF reset, ensure_process
<1>2. ASSUME NEW clear PROVE Clean(w(clear))
  BY DropClean, SpawnClean
<1> HIDE DEF w
<1>3. Clean(r)
  BY <1>1, <1>2
<1>4. maybe_reset_after_session_end(t, ok) = IF t.session_end_seen THEN v ELSE t
  BY DEF maybe_reset_after_session_end
<1> HIDE DEF r
<1>5. Clean(v)
  BY <1>3, PolicyAssumption DEF Clean, Sane, IsManager, Fields, Spent, is_running
<1> HIDE DEF v
<1> QED BY <1>1, <1>2, <1>3, <1>4, <1>5 DEF r

\* The reset after a reply.
LEMMA ResetClean ==
  ASSUME NEW t, Sane(t), NEW ok, NEW update, update = None, NEW suppress, ~suppress
  PROVE  LET u == ResetWithOptions(t, update, suppress, ok) IN
         IF t.session_end_seen THEN Clean(u) ELSE u = t
<1>1. stage_sandbox_state_update(t, update) = t
  BY DEF stage_sandbox_state_update
<1>2. ResetWithOptions(t, update, suppress, ok) =
        IF t.session_end_seen THEN maybe_reset_after_session_end(t, ok) ELSE t
  BY <1>1 DEF ResetWithOptions
<1> QED BY <1>2, RespawnClean

\* The reset after a reply acts only on a session that ended.
LEMMA DefaultResetClean ==
  ASSUME NEW t, Sane(t), NEW ok
  PROVE  IF t.session_end_seen THEN Clean(DefaultReset(t, ok)) ELSE DefaultReset(t, ok) = t
<1> DEFINE no == FALSE
<1>1. ~no /\ DefaultReset(t, ok) = ResetWithOptions(t, None, no, ok)
  BY DEF DefaultReset
<1> HIDE DEF no
<1> QED BY <1>1, ResetClean

\* Taking what the sideband said leaves the request, and an end leaves the
\* session spent.
LEMMA TakeAnswerFacts ==
  ASSUME NEW t, Sane(t)
  PROVE  LET u == TakeAnswer(t) IN
         /\ Sane(u) /\ u.alive = t.alive /\ u.process = t.process
         /\ u.pending_request = t.pending_request
         /\ u.session_end_seen = t.session_end_seen
         /\ u.settled_pending_completion = t.settled_pending_completion
         /\ CompletionAnswer(t) = "SessionEnd" => Spent(u)
<1>1. TakeAnswer(t) = CASE CompletionAnswer(t) = "Ok" -> [t EXCEPT !.batch = "none"]
    [] CompletionAnswer(t) = "SessionEnd" -> [t EXCEPT !.fault = "taken"]
    [] CompletionAnswer(t) = "Protocol" -> [t EXCEPT !.fault = "mute"]
    [] OTHER -> t
  BY DEF TakeAnswer
<1>2. /\ CompletionAnswer(t) = "Ok" => t.batch = "done" /\ t.fault # "ended"
      /\ CompletionAnswer(t) = "SessionEnd" => t.fault = "ended"
  BY DEF CompletionAnswer
<1>3. CASE CompletionAnswer(t) = "Ok"
  BY <1>1, <1>2, <1>3 DEF Sane, IsManager, Fields, Spent, is_running
<1>4. CASE CompletionAnswer(t) = "SessionEnd"
  BY <1>1, <1>2, <1>4 DEF Sane, IsManager, Fields, Spent, is_running
<1>5. CASE CompletionAnswer(t) \notin {"Ok", "SessionEnd"}
  BY <1>1, <1>5 DEF Sane, IsManager, Fields, Spent, is_running
<1> QED BY <1>3, <1>4, <1>5

\* Settling a session end makes the outcome known.
LEMMA SettleEndFacts ==
  ASSUME NEW t, Sane(t), Spent(t)
  PROVE  LET u == settle_pending_session_end(t) IN
         Sane(u) /\ Known(u) /\ ~u.pending_request
<1> DEFINE n == note_session_end(t, TRUE)
           c == clear_pending_request_state(n)
           u == [c EXCEPT !.settled_pending_completion = "ended"]
<1>1. /\ IsManager(n) /\ ~n.inherit /\ n.fault = t.fault /\ n.batch = t.batch
      /\ n.process = t.process /\ n.alive = t.alive
  BY DEF note_session_end, Sane, IsManager, Fields
<1> HIDE DEF n
<1>2. /\ IsManager(c) /\ ~c.inherit /\ c.fault = t.fault /\ c.batch = t.batch
      /\ c.process = t.process /\ c.alive = t.alive /\ ~c.pending_request
  BY <1>1 DEF clear_pending_request_state, IsManager, Fields
<1>3. settle_pending_session_end(t) = u
  BY DEF settle_pending_session_end, c, n
<1> HIDE DEF c
<1>4. /\ IsManager(u) /\ ~u.inherit /\ u.fault = t.fault /\ u.batch = t.batch
      /\ u.process = t.process /\ u.alive = t.alive /\ ~u.pending_request
      /\ u.settled_pending_completion = "ended"
  BY <1>2 DEF IsManager, Fields
<1> HIDE DEF u
<1>5. Sane(u) /\ Known(u) /\ ~u.pending_request
  BY <1>4, PolicyAssumption DEF Sane, Known, Spent, is_running
<1> QED BY <1>3, <1>5

\* What resolve_timeout_marker finds out is not lost.
LEMMA TimeoutMarkerFacts ==
  ASSUME NEW t, Sane(t)
  PROVE  LET u == resolve_timeout_marker(t) IN
         /\ Sane(u) /\ (Known(t) => Known(u))
         /\ u.pending_request => t.pending_request
<1> DEFINE u == TakeAnswer(t)
           v == clear_pending_request_state(u)
           done == [v EXCEPT !.settled_pending_completion = "done"]
           failed == [u EXCEPT !.settled_pending_error = TRUE]
           a == CompletionAnswer(t)
           r == resolve_timeout_marker(t)
<1>1. r = IF ~t.pending_request \/ t.settled_pending_error \/ ~t.process THEN t
          ELSE CASE a = "Ok" -> IF t.alive THEN done ELSE settle_pending_session_end(u)
                 [] a = "SessionEnd" -> settle_pending_session_end(u)
                 [] a = "Protocol" -> failed
                 [] OTHER -> IF t.alive THEN t ELSE settle_pending_session_end(t)
  BY DEF resolve_timeout_marker
<1>2. /\ Sane(u) /\ u.alive = t.alive /\ u.process = t.process
      /\ u.pending_request = t.pending_request /\ u.session_end_seen = t.session_end_seen
      /\ a = "SessionEnd" => Spent(u)
  BY TakeAnswerFacts
<1> HIDE DEF u, a, r
<1>3. Sane(v) /\ ~v.pending_request /\ v.session_end_seen = u.session_end_seen
  BY <1>2, ClearPendingFacts
<1> HIDE DEF v
<1>4. Sane(done) /\ Known(done) /\ ~done.pending_request
  BY <1>3, PolicyAssumption DEF Sane, IsManager, Fields, Known, Spent, is_running
<1>5. Sane(failed) /\ failed.pending_request = t.pending_request
  BY <1>2 DEF Sane, IsManager, Fields, Spent, is_running
<1> HIDE DEF done, failed
<1>6. ~t.alive => Spent(t) /\ Spent(u)
  BY <1>2 DEF Spent, is_running
<1>7. CASE ~t.pending_request \/ t.settled_pending_error \/ ~t.process
  BY <1>1, <1>7 DEF r
<1>8. CASE t.pending_request /\ ~t.settled_pending_error /\ t.process
  <2>1. \/ r = done \/ r = failed \/ r = t
        \/ r = settle_pending_session_end(u) /\ Spent(u)
        \/ r = settle_pending_session_end(t) /\ Spent(t)
    BY <1>1, <1>2, <1>6, <1>8
  <2>2. Spent(u) => /\ Sane(settle_pending_session_end(u)) /\ Known(settle_pending_session_end(u))
                    /\ ~settle_pending_session_end(u).pending_request
    BY <1>2, SettleEndFacts
  <2>3. Spent(t) => /\ Sane(settle_pending_session_end(t)) /\ Known(settle_pending_session_end(t))
                    /\ ~settle_pending_session_end(t).pending_request
    BY SettleEndFacts
  <2>4. Known(failed)
    BY <1>5, <1>8 DEF Known
  <2>5. Sane(r) /\ (Known(t) => Known(r)) /\ (r.pending_request => t.pending_request)
    BY <1>4, <1>5, <2>1, <2>2, <2>3, <2>4
  <2> QED BY <2>5 DEF r
<1> QED BY <1>7, <1>8

\* A wait leaves the request for its caller to settle.
LEMMA WaitFacts ==
  ASSUME NEW t, Sane(t), NEW w \in CompletionWaits(t)
  PROVE  /\ Sane(w.state) /\ w.state.process = t.process /\ w.state.alive = t.alive
         /\ w.state.pending_request = t.pending_request
         /\ w.state.session_end_seen = t.session_end_seen
         /\ w.state.settled_pending_completion = t.settled_pending_completion
         /\ w.result = "ended" => Spent(w.state)
<1> DEFINE u == TakeAnswer(t)
           e == take_protocol_error(u)
           quiet(x) == [x EXCEPT !.guardrail_event = "none"]
           a == CompletionAnswer(t)
<1>1. /\ w.state \in {t, u, e, quiet(t), quiet(u), quiet(e)}
      /\ w.result = "ended" => \/ w.state = t /\ a = "Disconnected" /\ ~t.alive
                               \/ w.state = u /\ a \notin {"Wait", "Disconnected", "Protocol", "Ok"}
  BY DEF CompletionWaits
<1>2. a \in {"Wait", "Disconnected", "Protocol", "Ok", "SessionEnd"}
  BY DEF CompletionAnswer
<1>3. /\ Sane(u) /\ u.alive = t.alive /\ u.process = t.process
      /\ u.pending_request = t.pending_request
      /\ u.session_end_seen = t.session_end_seen
      /\ u.settled_pending_completion = t.settled_pending_completion
      /\ a = "SessionEnd" => Spent(u)
  BY TakeAnswerFacts
<1> HIDE DEF u, a
<1>4. Alike(u, e) /\ IsManager(e)
  BY <1>3, SimpleAlike DEF Alike, Sane
<1> HIDE DEF e
<1>5. ASSUME NEW x, IsManager(x) PROVE Alike(x, quiet(x))
  BY <1>5 DEF Alike, IsManager, Fields
<1> HIDE DEF quiet
<1>6. /\ Alike(t, t) /\ Alike(t, quiet(t)) /\ Alike(u, u) /\ Alike(u, quiet(u)) /\ Alike(u, quiet(e))
  BY <1>3, <1>4, <1>5, AlikeTrans, SimpleAlike DEF Sane
<1>7. Alike(t, w.state) \/ Alike(u, w.state)
  BY <1>1, <1>4, <1>6
<1>8. Sane(w.state)
  BY <1>3, <1>7, AlikeSane
<1>9. w.result = "ended" => Spent(w.state)
  BY <1>1, <1>2, <1>3 DEF Spent, is_running
<1> QED BY <1>3, <1>7, <1>8, <1>9 DEF Alike

\* Taking the context of an input leaves the request.
LEMMA InputContextFacts ==
  ASSUME NEW t, Sane(t)
  PROVE  LET u == prepare_input_context(t) IN
         /\ Sane(u) /\ u.pending_request = t.pending_request /\ u.batch = t.batch
         /\ u.session_end_seen = t.session_end_seen
<1> DEFINE c == clear_preserved_prefixes(t)
           u == prepare_input_context(t)
<1>1. Alike(t, c)
  BY DEF Sane, clear_preserved_prefixes, Alike, IsManager, Fields
<1>2. u = [c EXCEPT !.tape = << >>, !.settled_pending_completion = None]
  BY DEF prepare_input_context
<1>3. Sane(c)
  BY <1>1, AlikeSane
<1> HIDE DEF c
<1>4. Sane(u) /\ u.pending_request = c.pending_request /\ u.batch = c.batch
      /\ u.session_end_seen = c.session_end_seen
  BY <1>2, <1>3, PolicyAssumption DEF Sane, IsManager, Fields, Spent, is_running
<1> QED BY <1>1, <1>4 DEF Alike

-----------------------------------------------------------------------------
(* The ways a step of a call ends.                                         *)

\* What a reply or an error may leave open, with t as the manager afterwards.
MayOwe(open, t) == open = {} \/ (open \subseteq {req} /\ Known(t))

\* A call that ends with every open outcome known keeps OutcomeInv.
LEMMA EndOutcome ==
  ASSUME OutcomeInv, pc \notin {"idle", "closed"}, NEW t, Sane(t), MayOwe(owed', t),
         s' = t, pc' = "idle", call' = NoCall, req' = req, calls' = calls
  PROVE  OutcomeInv'
<1>1. ~NoCall.told /\ NoCall.meta = None /\ NoCall.deferred = None /\ ~NoCall.suppress
  BY DEF NoCall, NewCall
<1>2. calls \in Nat /\ calls # 0
  BY DEF OutcomeInv
<1>3. ToldInv'
  BY <1>1 DEF ToldInv
<1> QED BY <1>1, <1>2, <1>3 DEF OutcomeInv, MayOwe

\* The same for a reply and for an error reply.
LEMMA ReplyOutcome ==
  ASSUME OutcomeInv, pc \notin {"idle", "closed"}, NEW t, Sane(t), NEW x, NEW open, MayOwe(open, t),
         Reply(t, x, open) \/ Fail(t, open)
  PROVE  OutcomeInv'
BY EndOutcome DEF Reply, Fail

\* A session that needs metadata loses no outcome.
LEMMA AskOutcome ==
  ASSUME PlaceInv, OutcomeInv, pc \notin {"idle", "closed", "await"}, NEW t, Sane(t),
         owed # {} => Known(t), RequiresMeta(t)
  PROVE  OutcomeInv'
<1> DEFINE c == [call EXCEPT !.held = << >>, !.context = << >>,
                             !.in_control = FALSE, !.told = FALSE]
<1>1. /\ s' = t /\ req' = req /\ calls' = calls /\ owed' = owed
      /\ (pc' = "idle" /\ call' = NoCall) \/ (pc' = "retry" /\ call' = c)
  BY DEF RequiresMeta
<1>2. /\ ~c.told /\ c.meta = call.meta /\ c.deferred = call.deferred /\ c.suppress = call.suppress
  BY DEF PlaceInv, IsCall, CallFields
<1> HIDE DEF c
<1>3. owed \subseteq {req}
  BY DEF OutcomeInv
<1>4. CASE pc' = "idle" /\ call' = NoCall
  BY <1>1, <1>3, <1>4, EndOutcome DEF MayOwe
<1>5. CASE pc' = "retry" /\ call' = c
  BY <1>1, <1>2, <1>3, <1>5 DEF OutcomeInv, ToldInv
<1> QED BY <1>1, <1>4, <1>5

\* A call that goes on keeps OutcomeInv.
LEMMA MoveOutcome ==
  ASSUME OutcomeInv, pc \notin {"idle", "closed", "await"},
         NEW place, NEW t, NEW c, Goto(place, t, c), place \notin {"idle", "await", "closed"},
         Sane(t), c.meta = None, c.deferred = None, ~c.suppress,
         c.told => /\ place \in {"control", "preflight", "poll", "dispatch", "send"}
                   /\ place = "control" \/ ~c.prechecked
                   /\ ~c.in_control,
         place \in {"prompt", "dispatch", "send"} => ~t.pending_request,
         place = "prompt" => t.settled_pending_completion = None,
         place = "send" => ~t.session_end_seen \/ t.batch = "running",
         place \notin {"dispatch", "send"} /\ owed # {} /\ ~c.told => Known(t),
         place = "control" /\ owed # {} /\ ~c.told => t.pending_request
  PROVE  OutcomeInv'
<1>1. /\ s' = t /\ pc' = place /\ call' = c /\ req' = req /\ calls' = calls /\ owed' = owed
  BY DEF Goto
<1>2. ToldInv'
  BY <1>1 DEF ToldInv
<1> QED BY <1>1, <1>2 DEF OutcomeInv

\* What OutcomeInv says of the call in progress.
LEMMA OutcomeFacts ==
  ASSUME PlaceInv, OutcomeInv
  PROVE  /\ Sane(s) /\ IsManager(s) /\ ~s.inherit /\ ~MetaMissing /\ IsCall(call)
         /\ call.meta = None /\ call.deferred = None /\ ~call.suppress
         /\ pc \notin {"control", "preflight", "poll", "dispatch", "send", "await"} => ~call.told
         /\ pc # "await" => owed \subseteq {req}
BY DEF PlaceInv, OutcomeInv, Sane, MetaMissing, ToldInv

\* Without an update the policy operations do nothing.
LEMMA NoUpdate ==
  ASSUME NEW t, NEW ok, NEW update, update = None
  PROVE  update_sandbox_state(t, update, ok) = t /\ ~update_spawns(t, update)
         /\ stage_sandbox_state_update(t, update) = t
BY DEF update_sandbox_state, update_spawns, requires_restart, stage_sandbox_state_update

-----------------------------------------------------------------------------
(* The steps of a call.                                                    *)

\* Without metadata the first steps of a call keep OutcomeInv.
LEMMA MetaOutcome ==
  ASSUME PlaceInv, OutcomeInv, NEW ok,
         ApplyCallMeta(ok) \/ DeferCallMeta \/ RejectCall \/ Retry(ok)
  PROVE  OutcomeInv'
<1>0. /\ Sane(s) /\ IsManager(s) /\ ~MetaMissing /\ IsCall(call)
      /\ call.meta = None /\ call.deferred = None /\ ~call.suppress
      /\ pc \in {"called", "retry"} => ~call.told
  BY OutcomeFacts
<1>1. Sane(Rechecked) /\ (Known(s) => Known(Rechecked))
  BY <1>0, TimeoutMarkerFacts DEF Rechecked
<1>2. ASSUME NEW t, NEW c, ApplyMeta(t, c, ok) PROVE Goto("write", t, c)
  BY <1>0, <1>2, NoUpdate DEF ApplyMeta
<1>3. CASE ApplyCallMeta(ok)
  <2>1. pc = "called" /\ Goto("write", Rechecked, call)
    BY <1>2, <1>3 DEF ApplyCallMeta
  <2>2. owed # {} => Known(s)
    BY <1>0, <2>1 DEF OutcomeInv
  <2> QED BY <1>0, <1>1, <2>1, <2>2, MoveOutcome
<1>4. CASE DeferCallMeta
  <2> DEFINE c == [call EXCEPT !.deferred = call.meta,
                               !.suppress = MetaMissing /\ DrainsOnly(Rechecked)]
  <2>1. pc = "called" /\ Goto("write", Rechecked, c)
    BY <1>4 DEF DeferCallMeta
  <2>2. c.meta = None /\ c.deferred = None /\ ~c.suppress /\ c.told = call.told
    BY <1>0 DEF IsCall, CallFields
  <2> HIDE DEF c
  <2>3. owed # {} => Known(s)
    BY <1>0, <2>1 DEF OutcomeInv
  <2> QED BY <1>0, <1>1, <2>1, <2>2, <2>3, MoveOutcome
<1>5. CASE RejectCall
  BY <1>0, <1>5 DEF RejectCall
<1>6. CASE Retry(ok)
  <2> DEFINE c == [call EXCEPT !.retried = TRUE, !.prechecked = FALSE,
                               !.deferred = None, !.suppress = FALSE,
                               !.stage_after = FALSE]
  <2>1. pc = "retry" /\ Goto("write", s, c)
    BY <1>0, <1>2, <1>6 DEF Retry
  <2>2. c.meta = None /\ c.deferred = None /\ ~c.suppress /\ c.told = call.told
    BY <1>0 DEF IsCall, CallFields
  <2> HIDE DEF c
  <2>3. owed # {} => Known(s)
    BY <1>0, <2>1 DEF OutcomeInv
  <2> QED BY <1>0, <2>1, <2>2, <2>3, MoveOutcome
<1> QED BY <1>3, <1>4, <1>5, <1>6

\* The reply of an interrupt, from a manager that knows nothing of the
\* request, or with the request still pending.
LEMMA InterruptReplyOutcome ==
  ASSUME PlaceInv, OutcomeInv, pc \in {"prompt", "poll"}, NEW t, Sane(t), NEW x, NEW tells, NEW ok,
         tells \/ owed = {} \/ t.pending_request,
         InterruptReply(t, x, tells, ok)
  PROVE  OutcomeInv'
<1> DEFINE r == ResetWithOptions(t, None, call.suppress, ok)
           c == [call EXCEPT !.held = x, !.in_control = FALSE, !.told = tells]
<1>0. IsCall(call) /\ call.meta = None /\ call.deferred = None /\ ~call.suppress
  BY OutcomeFacts
<1>1. Goto("control", t, c) \/ Goto("control", r, c)
  BY DEF InterruptReply
<1>2. /\ c.meta = None /\ c.deferred = None /\ ~c.suppress /\ (c.told <=> tells)
      /\ c.in_control = FALSE
  BY <1>0 DEF IsCall, CallFields
<1>3. IF t.session_end_seen THEN Clean(r) ELSE r = t
  BY <1>0, ResetClean
<1>4. Sane(r) /\ (t.pending_request => r = t)
  BY <1>3 DEF Clean, Sane
<1> HIDE DEF c, r
<1>5. t.pending_request => Known(t)
  BY DEF Known
<1>6. CASE Goto("control", t, c)
  BY <1>2, <1>5, <1>6, MoveOutcome
<1>7. CASE Goto("control", r, c)
  BY <1>2, <1>4, <1>5, <1>7, MoveOutcome
<1> QED BY <1>1, <1>6, <1>7

\* The steps of a control prefix keep OutcomeInv.
LEMMA ControlOutcome ==
  ASSUME PlaceInv, OutcomeInv, NEW ok,
         \/ StartControl \/ StartInput \/ Restart \/ Interrupt
         \/ InterruptFails(ok) \/ AwaitPrompt(ok) \/ FinishControl(ok)
  PROVE  OutcomeInv'
<1>0. /\ Sane(s) /\ IsManager(s) /\ ~s.inherit /\ IsCall(call)
      /\ call.meta = None /\ call.deferred = None /\ ~call.suppress
      /\ pc \in {"write", "restart", "interrupt", "prompt"} => ~call.told
  BY OutcomeFacts
<1>1. CASE StartControl
  <2> DEFINE t == clear_guardrail_busy_event(s)
             requires_spawn == call.control = "interrupt" /\ ~is_running(t)
             before == requires_spawn \/ call.control = "restart"
             c == [call EXCEPT !.stage_after = ~before,
                               !.deferred = IF before THEN None ELSE @]
  <2>1. /\ pc = "write" /\ call.control \in {"interrupt", "restart"}
        /\ RequiresMeta(t) \/ Goto(call.control, t, c)
    <3>1. stage_sandbox_state_update(t, call.deferred) = t
      BY <1>0, NoUpdate
    <3> QED BY <1>0, <1>1, <3>1 DEF StartControl, IsCall
  <2>2. Sane(t) /\ (Known(s) => Known(t))
    BY <1>0, SimpleAlike, AlikeSane
  <2> HIDE DEF t
  <2>3. c.meta = None /\ c.deferred = None /\ ~c.suppress /\ c.told = call.told
    BY <1>0 DEF IsCall, CallFields
  <2> HIDE DEF c
  <2>4. owed # {} => Known(s)
    BY <1>0, <2>1 DEF OutcomeInv
  <2> QED BY <1>0, <2>1, <2>2, <2>3, <2>4, AskOutcome, MoveOutcome
<1>2. CASE StartInput
  <2>1. pc = "write" /\ Goto("preflight", s, call)
    BY <1>2 DEF StartInput
  <2>2. owed # {} => Known(s)
    BY <1>0, <2>1 DEF OutcomeInv
  <2> QED BY <1>0, <2>1, <2>2, MoveOutcome
<1>3. CASE Restart
  <2> DEFINE n == maybe_emit_pending_server_notice(s)
             t == DropProcess(n)
             x == clear_preserved_prefixes(t)
             u == [x EXCEPT !.guardrail_busy = FALSE]
             y == clear_pending_request_state(u)
             r == reset_output_state(u, TRUE)
             c == [call EXCEPT !.held = t.tape, !.told = TRUE]
  <2>1. pc = "restart" /\ Goto("control", r, c)
    BY <1>0, <1>3 DEF Restart, missing_inherited_sandbox_state
  <2>2. IsManager(n) /\ ~n.inherit
    BY <1>0, SimpleAlike DEF Alike
  <2> HIDE DEF n
  <2>3. IsManager(t) /\ ~t.inherit /\ ~t.process /\ t.fault = "none"
    BY <2>2 DEF DropProcess, IsManager, Fields
  <2>4. /\ c.meta = None /\ c.deferred = None /\ ~c.suppress /\ c.told /\ c.in_control = call.in_control
    BY <1>0 DEF IsCall, CallFields
  <2> HIDE DEF t, c
  <2>5. IsManager(x) /\ ~x.inherit /\ ~x.process /\ x.fault = "none"
    BY <2>3 DEF clear_preserved_prefixes, IsManager, Fields
  <2> HIDE DEF x
  <2>6. IsManager(u) /\ ~u.inherit /\ ~u.process /\ u.fault = "none"
    BY <2>5 DEF IsManager, Fields
  <2> HIDE DEF u
  <2>7. IsManager(y) /\ ~y.inherit /\ ~y.process /\ y.fault = "none" /\ ~y.pending_request
    BY <2>6 DEF clear_pending_request_state, IsManager, Fields
  <2>8. r = [y EXCEPT !.tape = << >>, !.pending_request_input = FALSE,
                      !.session_end_seen = FALSE]
    BY DEF reset_output_state
  <2> HIDE DEF y, r
  <2>9. IsManager(r) /\ ~r.inherit /\ ~r.process /\ r.fault = "none" /\ ~r.pending_request
    BY <2>7, <2>8 DEF IsManager, Fields
  <2>10. Sane(r)
    BY <2>9 DEF Sane, Spent, is_running
  <2>11. ~c.in_control
    BY <2>1, <2>4 DEF PlaceInv
  <2> QED BY <2>1, <2>4, <2>10, <2>11, MoveOutcome
<1>4. CASE Interrupt
  <2> DEFINE c == [call EXCEPT !.in_control = TRUE]
  <2>1. /\ pc = "interrupt"
        /\ \/ Goto("poll", s, c)
           \/ Goto("prompt", s, call) /\ ~s.pending_request /\ s.settled_pending_completion = None
    BY <1>4 DEF Interrupt
  <2>2. c.meta = None /\ c.deferred = None /\ ~c.suppress /\ c.told = call.told
    BY <1>0 DEF IsCall, CallFields
  <2> HIDE DEF c
  <2>3. owed # {} => Known(s)
    BY <1>0, <2>1 DEF OutcomeInv
  <2> QED BY <1>0, <2>1, <2>2, <2>3, MoveOutcome
<1>5. CASE InterruptFails(ok)
  <2>1. pc = "interrupt" /\ Fail(reset(s, ok), {})
    BY <1>5 DEF InterruptFails
  <2>2. Sane(reset(s, ok))
    BY <1>0, RespawnClean DEF Clean
  <2> QED BY <2>1, <2>2, ReplyOutcome DEF MayOwe
<1>6. CASE AwaitPrompt(ok)
  <2> DEFINE f == [s EXCEPT !.fault = "taken"]
             n == note_session_end(f, TRUE)
             t == IF s.process /\ s.fault = "ended" THEN n ELSE s
             u == [t EXCEPT !.tape = << >>]
  <2>1. /\ pc = "prompt"
        /\ Fail(take_protocol_error(s), owed) \/ InterruptReply(u, t.tape, FALSE, ok)
    BY <1>6 DEF AwaitPrompt
  <2>2. owed = {} /\ ~s.pending_request
    BY <1>0, <2>1 DEF OutcomeInv, Known
  <2>3. Sane(f) /\ ~f.pending_request /\ (s.fault = "ended" => Spent(f))
    BY <1>0, <2>2 DEF Sane, IsManager, Fields, Spent, is_running
  <2> HIDE DEF f
  <2>4. s.fault = "ended" => Sane(n)
    BY <2>3, SessionEndFacts
  <2> HIDE DEF n
  <2>5. Sane(t) /\ Sane(take_protocol_error(s))
    BY <1>0, <2>4, SimpleAlike, AlikeSane
  <2> HIDE DEF t
  <2>6. Sane(u)
    BY <2>5, SimpleAlike, AlikeSane DEF Sane
  <2> HIDE DEF u
  <2> QED BY <2>1, <2>2, <2>5, <2>6, ReplyOutcome, InterruptReplyOutcome DEF MayOwe
<1>7. CASE FinishControl(ok)
  <2> DEFINE resets == call.stage_after /\ s.session_end_seen /\ ~call.suppress
             no == FALSE
             r == ResetWithOptions(s, call.deferred, no, ok)
             t == IF resets THEN r ELSE s
             c == [call EXCEPT !.control = "none", !.prechecked = FALSE, !.suppress = FALSE,
                               !.deferred = IF resets THEN None ELSE @]
  <2>1. /\ pc = "control"
        /\ Reply(t, << >>, Untold(FALSE)) \/ Goto("preflight", t, c)
    BY <1>0, <1>7 DEF FinishControl, stage_session_end_needs_meta
  <2>2. ~no
    OBVIOUS
  <2> HIDE DEF no
  <2>3. IF s.session_end_seen THEN Clean(r) ELSE r = s
    BY <1>0, <2>2, ResetClean
  <2>4. Sane(t) /\ (s.pending_request => t = s)
    BY <1>0, <2>3 DEF Clean, Sane
  <2>5. /\ c.meta = None /\ c.deferred = None /\ ~c.suppress /\ c.told = call.told /\ ~c.prechecked
        /\ c.in_control = call.in_control
    BY <1>0 DEF IsCall, CallFields
  <2>6. ~call.in_control /\ owed \subseteq {req} /\ (owed # {} /\ ~call.told => s.pending_request)
    BY <2>1 DEF PlaceInv, OutcomeInv
  <2>7. owed # {} /\ ~call.told => Known(t)
    BY <2>4, <2>6 DEF Known
  <2> HIDE DEF t, c
  <2>8. CASE Reply(t, << >>, Untold(FALSE))
    BY <2>1, <2>4, <2>6, <2>7, <2>8, ReplyOutcome DEF MayOwe, Untold
  <2>9. CASE Goto("preflight", t, c)
    BY <2>1, <2>4, <2>5, <2>6, <2>7, <2>9, MoveOutcome
  <2> QED BY <2>1, <2>8, <2>9
<1> QED BY <1>1, <1>2, <1>3, <1>4, <1>5, <1>6, <1>7

\* The reply of a poll tells the outcome or leaves the request pending.
LEMMA PollReplyOutcome ==
  ASSUME PlaceInv, OutcomeInv, pc = "poll", NEW t, Sane(t), NEW tells, NEW ok,
         tells \/ call.told \/ owed = {} \/ t.pending_request,
         PollReply(t, tells, ok)
  PROVE  OutcomeInv'
<1> DEFINE u == [t EXCEPT !.tape = << >>]
           r == ResetWithOptions(u, call.deferred, call.suppress, ok)
           open == Untold(tells \/ Notice \in Range(t.tape))
<1>0. /\ ~s.inherit /\ call.deferred = None /\ ~call.suppress
      /\ owed \subseteq {req} /\ (call.told => ~call.in_control)
  BY OutcomeFacts DEF OutcomeInv, ToldInv
<1>1. \/ call.in_control /\ InterruptReply(u, t.tape, tells, ok)
      \/ Reply(r, t.tape, open)
  BY <1>0 DEF PollReply, ResetNeedsMeta, stage_session_end_needs_meta
<1>2. Alike(t, u)
  BY SimpleAlike DEF Sane
<1>3. Sane(u) /\ u.pending_request = t.pending_request
  BY <1>2, AlikeSane DEF Alike
<1> HIDE DEF u
<1>4. IF u.session_end_seen THEN Clean(r) ELSE r = u
  BY <1>0, <1>3, ResetClean
<1>5. Sane(r) /\ (u.pending_request => r = u)
  BY <1>3, <1>4 DEF Clean, Sane
<1>6. open = {} \/ (open = owed /\ ~tells /\ ~call.told)
  BY DEF Untold
<1> HIDE DEF r, open
<1>7. MayOwe(open, r)
  BY <1>0, <1>3, <1>5, <1>6 DEF MayOwe, Known
<1>8. CASE call.in_control /\ InterruptReply(u, t.tape, tells, ok)
  BY <1>0, <1>3, <1>8, InterruptReplyOutcome
<1>9. CASE Reply(r, t.tape, open)
  BY <1>5, <1>7, <1>9, ReplyOutcome
<1> QED BY <1>1, <1>8, <1>9

\* The look before an input forgets no outcome.
LEMMA PreflightedFacts ==
  ASSUME Sane(s)
  PROVE  Sane(Preflighted) /\ (Known(s) => Known(Preflighted))
<1> DEFINE t == maybe_emit_guardrail_notice(s)
<1>1. Sane(t) /\ (Known(s) => Known(t))
  BY GuardrailNoticeAlike, AlikeSane DEF Sane
<1>2. Preflighted = t \/ Preflighted = resolve_timeout_marker(t)
  BY DEF Preflighted
<1> HIDE DEF t
<1> QED BY <1>1, <1>2, TimeoutMarkerFacts

\* Preflight keeps OutcomeInv.
LEMMA PreflightOutcome ==
  ASSUME PlaceInv, OutcomeInv, NEW ok,
         GuardrailBusyAbort(ok) \/ PreflightPoll \/ PreflightIdle(ok) \/ PreflightInput
  PROVE  OutcomeInv'
<1>0. /\ Sane(s) /\ IsManager(s) /\ IsCall(call)
      /\ call.meta = None /\ call.deferred = None /\ ~call.suppress
  BY OutcomeFacts
<1>1. pc = "preflight"
  BY DEF GuardrailBusyAbort, PreflightPoll, PreflightIdle, PreflightInput, Preflighting
<1>2. /\ owed \subseteq {req} /\ (call.told => ~call.prechecked /\ ~call.in_control)
      /\ owed # {} /\ ~call.told => Known(s)
  BY <1>1 DEF OutcomeInv, ToldInv
<1>3. CASE GuardrailBusyAbort(ok)
  <2> DEFINE n == maybe_emit_guardrail_notice(s)
             t == [n EXCEPT !.guardrail_event = "none", !.guardrail_busy = FALSE]
             r == reset(prepare_input_context(t), ok)
             d == DefaultReset(r, ok)
  <2>1. Reply(d, InputContext(t), {})
    BY <1>3 DEF GuardrailBusyAbort, ErrorReply
  <2>2. Sane(n)
    BY <1>0, GuardrailNoticeAlike, AlikeSane
  <2> HIDE DEF n
  <2>3. Alike(n, t)
    BY <2>2 DEF Sane, Alike, IsManager, Fields
  <2> HIDE DEF t
  <2>4. Sane(t)
    BY <2>2, <2>3, AlikeSane
  <2>5. Sane(r)
    BY <2>4, InputContextFacts, RespawnClean DEF Clean
  <2> HIDE DEF r
  <2>6. Sane(d)
    BY <2>5, DefaultResetClean DEF Clean
  <2> QED BY <1>1, <2>1, <2>6, ReplyOutcome DEF MayOwe
<1>4. CASE PreflightPoll \/ PreflightInput
  <2> DEFINE t == Preflighted
  <2>1. Goto("poll", t, call) \/ (Goto("dispatch", t, call) /\ ~t.pending_request)
    BY <1>4 DEF PreflightPoll, PreflightInput
  <2>2. Sane(t) /\ (Known(s) => Known(t))
    BY <1>0, PreflightedFacts
  <2> HIDE DEF t
  <2>3. CASE Goto("poll", t, call)
    BY <1>0, <1>1, <1>2, <2>2, <2>3, MoveOutcome
  <2>4. CASE Goto("dispatch", t, call) /\ ~t.pending_request
    BY <1>0, <1>1, <1>2, <2>2, <2>4, MoveOutcome
  <2> QED BY <2>1, <2>3, <2>4
<1>5. CASE PreflightIdle(ok)
  <2> DEFINE t == Preflighted
             u == ensure_process(t, ok)
             d == DefaultReset(u, ok)
             p == prepare_input_context(u)
             e == DefaultReset(p, ok)
  <2>1. /\ ~empty_input_polls_existing_output(t)
        /\ \/ RequiresMeta(t) /\ call.prechecked
           \/ Reply(d, << >>, Untold(FALSE))
           \/ Reply(e, InputContext(u), {})
    BY <1>5 DEF PreflightIdle, ErrorReply
  <2>2. Sane(t) /\ ~Known(t) /\ (Known(s) => Known(t))
    BY <1>0, <2>1, PreflightedFacts DEF Known, empty_input_polls_existing_output
  <2>3. owed = {} \/ call.told
    BY <1>2, <2>2
  <2> HIDE DEF t
  <2>4. Sane(u)
    BY <2>2, RespawnClean DEF Clean
  <2> HIDE DEF u
  <2>5. Sane(p)
    BY <2>4, InputContextFacts
  <2> HIDE DEF p
  <2>6. Sane(d) /\ Sane(e)
    BY <2>4, <2>5, DefaultResetClean DEF Clean
  <2> HIDE DEF d, e
  <2>7. MayOwe(Untold(FALSE), d) /\ MayOwe({}, e)
    BY <2>3 DEF Untold, MayOwe
  <2> QED BY <1>1, <1>2, <2>1, <2>2, <2>3, <2>6, <2>7, AskOutcome, ReplyOutcome
<1> QED BY <1>3, <1>4, <1>5

\* The wait of a poll keeps OutcomeInv.
LEMMA PollOutcome ==
  ASSUME PlaceInv, OutcomeInv, NEW ok, PollError(ok) \/ PollPending(ok) \/ PollSettled(ok)
  PROVE  OutcomeInv'
<1>0. Sane(s) /\ IsManager(s) /\ IsCall(call)
  BY OutcomeFacts
<1>1. pc = "poll"
  BY DEF PollError, PollPending, PollSettled
<1>2. owed \subseteq {req} /\ (owed # {} /\ ~call.told => Known(s))
  BY <1>1 DEF OutcomeInv
<1>3. CASE PollError(ok)
  <2> DEFINE t == [s EXCEPT !.settled_pending_error = FALSE]
  <2>1. Fail(reset(t, ok), {})
    BY <1>3 DEF PollError
  <2>2. Alike(s, t)
    BY <1>0 DEF Alike, IsManager, Fields
  <2> HIDE DEF t
  <2>3. Sane(reset(t, ok))
    BY <1>0, <2>2, AlikeSane, RespawnClean DEF Clean
  <2> QED BY <1>1, <2>1, <2>3, ReplyOutcome DEF MayOwe
<1>4. CASE PollPending(ok)
  <2>1. /\ s.pending_request
        /\ Fail(s, owed) \/ \E w \in CompletionWaits(s) :
             LET cleared == clear_pending_request_state(w.state) IN
             \/ PollReply(cleared, TRUE, ok)
             \/ PollReply(note_session_end(cleared, TRUE), TRUE, ok)
                  /\ (w.result = "ended" \/ ~w.state.alive)
             \/ PollReply(w.state, FALSE, ok)
             \/ Fail(w.state, owed)
    BY <1>4 DEF PollPending
  <2>2. CASE Fail(s, owed)
    BY <1>0, <1>1, <1>2, <2>1, <2>2, ReplyOutcome DEF MayOwe, Known
  <2>3. ASSUME NEW w \in CompletionWaits(s),
               LET cleared == clear_pending_request_state(w.state) IN
               \/ PollReply(cleared, TRUE, ok)
               \/ PollReply(note_session_end(cleared, TRUE), TRUE, ok)
                    /\ (w.result = "ended" \/ ~w.state.alive)
               \/ PollReply(w.state, FALSE, ok)
               \/ Fail(w.state, owed)
        PROVE  OutcomeInv'
    <3> DEFINE t == w.state
               cleared == clear_pending_request_state(t)
               noted == note_session_end(cleared, TRUE)
    <3>1. Sane(t) /\ t.pending_request /\ (w.result = "ended" \/ ~t.alive => Spent(t))
      BY <1>0, <2>1, WaitFacts DEF Spent, is_running
    <3>2. Sane(cleared) /\ ~cleared.pending_request /\ (Spent(t) => Spent(cleared))
      BY <3>1, ClearPendingFacts
    <3>3. Spent(t) => Sane(noted)
      BY <3>2, SessionEndFacts
    <3>4. \/ PollReply(cleared, TRUE, ok)
          \/ PollReply(noted, TRUE, ok) /\ Spent(t)
          \/ PollReply(t, FALSE, ok)
          \/ Fail(t, owed)
      BY <2>3, <3>1
    <3> HIDE DEF t, cleared, noted
    <3>5. CASE PollReply(cleared, TRUE, ok)
      BY <1>1, <3>2, <3>5, PollReplyOutcome
    <3>6. CASE PollReply(noted, TRUE, ok) /\ Spent(t)
      BY <1>1, <3>3, <3>6, PollReplyOutcome
    <3>7. CASE PollReply(t, FALSE, ok)
      BY <1>1, <3>1, <3>7, PollReplyOutcome
    <3>8. CASE Fail(t, owed)
      BY <1>1, <1>2, <3>1, <3>8, ReplyOutcome DEF MayOwe, Known
    <3> QED BY <3>4, <3>5, <3>6, <3>7, <3>8
  <2> QED BY <2>1, <2>2, <2>3
<1>5. CASE PollSettled(ok)
  <2> DEFINE t == [s EXCEPT !.settled_pending_completion = None]
             n == note_session_end(t, FALSE)
             tells == s.settled_pending_completion # None
  <2>1. /\ ~s.pending_request
        /\ \/ PollReply(n, tells, ok) /\ s.settled_pending_completion = "ended"
           \/ PollReply(t, tells, ok)
    BY <1>5 DEF PollSettled
  <2>2. /\ Sane(t) /\ ~t.pending_request
        /\ s.settled_pending_completion = "ended" => Spent(t)
    BY <1>0, <2>1, PolicyAssumption DEF Sane, IsManager, Fields, Spent, is_running
  <2> HIDE DEF t
  <2>3. s.settled_pending_completion = "ended" => Sane(n)
    BY <2>2, SessionEndFacts
  <2>4. tells \/ call.told \/ owed = {}
    BY <1>2, <2>1 DEF Known
  <2> HIDE DEF n, tells
  <2> QED BY <1>1, <2>1, <2>2, <2>3, <2>4, PollReplyOutcome
<1> QED BY <1>3, <1>4, <1>5

\* A worker that runs and is not spent is sent the input, so its session has
\* not ended.
LEMMA SendOutcome ==
  ASSUME PlaceInv, OutcomeInv, NEW ok,
         Dispatch(ok) \/ SendTimesOut \/ SendUncertain(ok) \/ SendAccepted
  PROVE  OutcomeInv'
<1>0. /\ Sane(s) /\ IsManager(s) /\ IsCall(call)
      /\ call.meta = None /\ call.deferred = None /\ ~call.suppress
  BY OutcomeFacts
<1>1. CASE Dispatch(ok)
  <2> DEFINE u == ensure_process(s, ok)
             p == prepare_input_context(u)
             e == DefaultReset(p, ok)
             c == [call EXCEPT !.context = InputContext(u)]
  <2>1. /\ pc = "dispatch"
        /\ (is_running(u) /\ Goto("send", p, c)) \/ Reply(e, InputContext(u), {})
    <3>1. /\ update_sandbox_state(s, call.deferred, ok) = s
          /\ ~update_spawns(s, call.deferred)
      BY <1>0, NoUpdate
    <3> QED BY <1>1, <3>1 DEF Dispatch, ErrorReply
  <2>2. ~s.pending_request /\ (call.told => ~call.prechecked /\ ~call.in_control)
    BY <2>1 DEF OutcomeInv, ToldInv
  <2>3. Sane(u) /\ ~u.pending_request
    BY <1>0, <2>2, RespawnClean DEF Clean
  <2>4. /\ c.meta = None /\ c.deferred = None /\ ~c.suppress /\ c.told = call.told
        /\ c.prechecked = call.prechecked /\ c.in_control = call.in_control
    BY <1>0 DEF IsCall, CallFields
  <2> HIDE DEF u, c
  <2>5. is_running(u) => ~u.session_end_seen \/ u.batch = "running"
    BY <2>3 DEF Sane, Spent
  <2>6. /\ Sane(p) /\ ~p.pending_request
        /\ is_running(u) => ~p.session_end_seen \/ p.batch = "running"
    BY <2>3, <2>5, InputContextFacts
  <2> HIDE DEF p
  <2>7. Sane(e)
    BY <2>6, DefaultResetClean DEF Clean
  <2> HIDE DEF e
  <2>8. CASE is_running(u) /\ Goto("send", p, c)
    BY <2>1, <2>2, <2>4, <2>6, <2>8, MoveOutcome
  <2>9. CASE Reply(e, InputContext(u), {})
    BY <2>1, <2>7, <2>9, ReplyOutcome DEF MayOwe
  <2> QED BY <2>1, <2>8, <2>9
<1>2. CASE SendTimesOut
  <2> DEFINE t == [s EXCEPT !.guardrail_busy = FALSE, !.tape = << >>,
                            !.pending_request_input = FALSE]
  <2>1. pc = "send" /\ Reply(t, call.context \o s.tape, {})
    BY <1>2 DEF SendTimesOut, SendErrorReply
  <2>2. Alike(s, t)
    BY <1>0 DEF IsManager, Fields, Alike
  <2> HIDE DEF t
  <2> QED BY <1>0, <2>1, <2>2, AlikeSane, ReplyOutcome DEF MayOwe
<1>3. CASE SendUncertain(ok)
  <2> DEFINE e == take_protocol_error(s)
             d == [e EXCEPT !.tape = << >>]
             r == reset(d, ok)
  <2>1. pc = "send" /\ Reply(r, call.context \o s.tape, {})
    BY <1>3 DEF SendUncertain, SendErrorReply
  <2>2. Sane(e)
    BY <1>0, SimpleAlike, AlikeSane
  <2> HIDE DEF e
  <2>3. Sane(d)
    BY <2>2, SimpleAlike, AlikeSane DEF Sane
  <2> HIDE DEF d
  <2>4. Sane(r)
    BY <2>3, RespawnClean DEF Clean
  <2> HIDE DEF r
  <2> QED BY <2>1, <2>4, ReplyOutcome DEF MayOwe
<1>4. CASE SendAccepted
  <2> DEFINE t == [s EXCEPT !.batch = "running", !.settled_pending_completion = None,
                            !.guardrail_busy = TRUE, !.pending_request_input = TRUE]
  <2>1. /\ pc = "send" /\ pc' = "await" /\ s' = t /\ call' = call /\ calls' = calls
        /\ s.batch # "running"
    BY <1>4 DEF SendAccepted
  <2>2. ~s.pending_request /\ ~s.session_end_seen
    BY <2>1 DEF OutcomeInv
  <2>3. /\ Sane(t) /\ ~t.pending_request /\ ~t.session_end_seen
        /\ t.settled_pending_completion = None
    BY <1>0, <2>2, PolicyAssumption DEF Sane, IsManager, Fields, Spent, is_running
  <2> HIDE DEF t
  <2>4. ToldInv'
    BY <2>1 DEF OutcomeInv, ToldInv
  <2> QED BY <2>1, <2>3, <2>4 DEF OutcomeInv
<1> QED BY <1>1, <1>2, <1>3, <1>4

\* Only a wait that times out leaves the request open, and no end has been
\* noted that would reset the worker with it.
LEMMA AwaitOutcome == ASSUME PlaceInv, OutcomeInv, NEW ok, Await(ok) PROVE OutcomeInv'
<1> DEFINE drained(u) == [u EXCEPT !.tape = << >>]
           quiet(u) == [u EXCEPT !.guardrail_busy = FALSE]
           pends(u) == [u EXCEPT !.pending_request = TRUE]
           over(w) == w.result = "ended" \/ ~w.state.alive
<1>0. /\ Sane(s) /\ pc = "await" /\ ~s.session_end_seen /\ ~s.pending_request
      /\ s.settled_pending_completion = None
  BY OutcomeFacts DEF OutcomeInv, Await
<1>1. PICK w \in CompletionWaits(s) :
        LET t == w.state
            done == IF over(w) THEN note_session_end(t, TRUE) ELSE t IN
        \/ \E x : Reply(DefaultReset(quiet(drained(done)), ok), x, {})
        \/ Fail(t, {})
        \/ \E x : Reply(DefaultReset(pends(drained(t)), ok), x, {req})
                  /\ w.result = "timeout"
        \/ \E x : Reply(DefaultReset(reset(drained(t), ok), ok), x, {})
  BY DEF Await
<1> DEFINE t == w.state
           n == note_session_end(t, TRUE)
           done == IF over(w) THEN n ELSE t
<1>2. /\ Sane(t) /\ ~t.session_end_seen /\ ~t.pending_request
      /\ t.settled_pending_completion = s.settled_pending_completion
      /\ over(w) => Spent(t)
  BY <1>0, WaitFacts DEF Spent, is_running
<1> DEFINE a == quiet(drained(done))
           b == pends(drained(t))
           c == reset(drained(t), ok)
<1>3. \/ \E x : Reply(DefaultReset(a, ok), x, {})
      \/ Fail(t, {})
      \/ \E x : Reply(DefaultReset(b, ok), x, {req})
      \/ \E x : Reply(DefaultReset(c, ok), x, {})
  BY <1>1
<1>4. over(w) => Sane(n)
  BY <1>2, SessionEndFacts
<1> HIDE DEF t, n, over
<1>5. Sane(done)
  BY <1>2, <1>4
<1> HIDE DEF done
<1>6. Sane(drained(done)) /\ Sane(drained(t)) /\ Alike(t, drained(t))
  BY <1>2, <1>5, SimpleAlike, AlikeSane DEF Sane
<1> HIDE DEF drained
<1>7. Alike(drained(done), a)
  BY <1>6 DEF Sane, Alike, IsManager, Fields
<1>8. Sane(a)
  BY <1>6, <1>7, AlikeSane
<1>9. Sane(c)
  BY <1>6, RespawnClean DEF Clean
<1>10. Sane(b) /\ Known(b) /\ ~b.session_end_seen
  <2>1. /\ ~drained(t).session_end_seen /\ drained(t).settled_pending_completion = None
    BY <1>0, <1>2, <1>6 DEF Alike
  <2> QED BY <1>6, <2>1, PolicyAssumption DEF Sane, IsManager, Fields, Spent, is_running, Known
<1> HIDE DEF a, b, c
<1>11. Sane(DefaultReset(a, ok)) /\ Sane(DefaultReset(c, ok)) /\ DefaultReset(b, ok) = b
  BY <1>8, <1>9, <1>10, DefaultResetClean DEF Clean
<1> QED BY <1>0, <1>2, <1>3, <1>10, <1>11, ReplyOutcome DEF MayOwe

-----------------------------------------------------------------------------
(* Everything else.                                                        *)

\* A session that does not end idle leaves its batch running.
LEMMA EnvironmentOutcome ==
  ASSUME PlaceInv, OutcomeInv, NoLateEvents, Environment PROVE OutcomeInv'
<1>0. Sane(s) /\ IsManager(s)
  BY OutcomeFacts
<1>1. pc' = pc /\ call' = call /\ req' = req /\ calls' = calls /\ owed' = owed
  BY DEF Environment, Produce, Complete, SessionEnds, SidebandError, Disconnect, Exit,
         GuardrailDecides, GuardrailNotes, GuardrailKills, ManagerOnly
<1> DEFINE same ==
      /\ Sane(s') /\ s'.pending_request = s.pending_request
      /\ s'.session_end_seen = s.session_end_seen
      /\ s'.settled_pending_completion = s.settled_pending_completion
      /\ s.session_end_seen /\ s.batch = "running" /\ pc = "send" => s'.batch = "running"
<1>2. ASSUME Produce \/ SidebandError \/ Exit \/ GuardrailDecides PROVE same
  BY <1>0, <1>2 DEF Produce, SidebandError, Exit, GuardrailDecides,
                    Sane, Spent, IsManager, Fields, is_running
<1>3. ASSUME Disconnect \/ GuardrailNotes \/ GuardrailKills PROVE same
  <2>1. ASSUME Disconnect PROVE same
    BY <1>0, <2>1 DEF Disconnect, Sane, Spent, IsManager, Fields, is_running
  <2>2. ASSUME GuardrailNotes PROVE same
    BY <1>0, <2>2 DEF GuardrailNotes, Sane, Spent, IsManager, Fields, is_running
  <2>3. ASSUME GuardrailKills PROVE same
    BY <1>0, <2>3 DEF GuardrailKills, Sane, Spent, IsManager, Fields, is_running
  <2> QED BY <1>3, <2>1, <2>2, <2>3
<1>4. ASSUME Complete PROVE same
  BY <1>0, <1>4 DEF Complete, Sane, Spent, IsManager, Fields, is_running
<1>5. ASSUME SessionEnds PROVE same
  <2>1. s.batch = "running" /\ s' = [s EXCEPT !.fault = "ended"]
    BY <1>5 DEF SessionEnds, NoLateEvents
  <2> QED BY <1>0, <2>1 DEF Sane, Spent, IsManager, Fields, is_running
<1>6. same
  BY <1>2, <1>3, <1>4, <1>5 DEF Environment
<1>7. ToldInv'
  BY <1>1 DEF OutcomeInv, ToldInv
<1> QED BY <1>1, <1>6, <1>7 DEF OutcomeInv, Known

\* The worker, its stream and the guardrail keep OutcomeInv.
LEMMA OtherOutcome ==
  ASSUME PlaceInv, OutcomeInv, NoLateEvents, Next, ~CallStep
  PROVE  OutcomeInv'
<1>0. Sane(s) /\ IsManager(s) /\ ~s.inherit /\ (pc = "idle" => ~call.told)
  BY OutcomeFacts
<1>1. ASSUME NEW control, NEW tail, NEW meta, ToolCall(control, tail, meta) PROVE OutcomeInv'
  <2> DEFINE t == resolve_timeout_marker(s)
  <2>1. /\ pc = "idle" /\ pc' = "called" /\ call' = NewCall(control, tail, meta) /\ meta = None
        /\ s' = t /\ req' = req /\ owed' = owed /\ calls' = calls + 1
    BY <1>0, <1>1 DEF ToolCall
  <2>2. /\ call'.meta = None /\ call'.deferred = None /\ ~call'.suppress /\ ~call'.told
    BY <2>1 DEF NewCall
  <2>3. Sane(t) /\ (Known(s) => Known(t))
    BY <1>0, TimeoutMarkerFacts
  <2> HIDE DEF t
  <2>4. /\ owed \subseteq {req} /\ calls \in Nat /\ (owed # {} => Known(s))
    BY <1>0, <2>1 DEF OutcomeInv
  <2>5. ToldInv'
    BY <2>2 DEF ToldInv
  <2> QED BY <2>1, <2>2, <2>3, <2>4, <2>5 DEF OutcomeInv
<1>2. ASSUME NEW ok, WarmStart(ok) PROVE OutcomeInv'
  <2> DEFINE t == ensure_process(s, ok)
  <2>1. /\ pc = "idle" /\ pc' = pc /\ call' = call /\ s' = t /\ req' = req /\ owed' = owed
        /\ calls' = calls /\ calls = 0
    BY <1>2 DEF WarmStart, NoLateEvents
  <2>2. Sane(t) /\ owed = {}
    BY <1>0, <2>1, RespawnClean DEF Clean, OutcomeInv
  <2> HIDE DEF t
  <2>3. ToldInv'
    BY <1>0, <2>1 DEF ToldInv
  <2> QED BY <2>1, <2>2, <2>3 DEF OutcomeInv
<1>3. ASSUME Shutdown PROVE OutcomeInv'
  <2> DEFINE d == DropProcess(s)
             t == [d EXCEPT !.guardrail_busy = FALSE]
  <2>1. /\ pc = "idle" /\ pc' = "closed" /\ call' = call /\ s' = t /\ req' = req
        /\ owed' = owed /\ calls' = calls
    BY <1>3 DEF Shutdown, Goto
  <2>2. Sane(d)
    BY <1>0 DEF DropProcess, Sane, Spent, IsManager, Fields, is_running
  <2> HIDE DEF d
  <2>3. Alike(d, t)
    BY <2>2 DEF Sane, Alike, IsManager, Fields
  <2> HIDE DEF t
  <2>4. Sane(t)
    BY <2>2, <2>3, AlikeSane
  <2>5. ToldInv'
    BY <1>0, <2>1 DEF ToldInv
  <2> QED BY <2>1, <2>4, <2>5 DEF OutcomeInv
<1>4. ASSUME Closed PROVE OutcomeInv'
  BY <1>4 DEF Closed, vars, OutcomeInv, ToldInv
<1> QED BY <1>1, <1>2, <1>3, <1>4, EnvironmentOutcome DEF Next

\* Every step of a call keeps OutcomeInv.
LEMMA CallStepOutcome == ASSUME PlaceInv, OutcomeInv, CallStep PROVE OutcomeInv'
<1>1. ASSUME RejectCall \/ DeferCallMeta \/ StartControl \/ StartInput \/ Restart \/ Interrupt
             \/ PreflightPoll \/ PreflightInput \/ SendTimesOut \/ SendAccepted
      PROVE  OutcomeInv'
  BY <1>1, MetaOutcome, ControlOutcome, PreflightOutcome, SendOutcome
<1>2. ASSUME NEW ok,
             \/ ApplyCallMeta(ok) \/ Retry(ok) \/ InterruptFails(ok) \/ AwaitPrompt(ok)
             \/ FinishControl(ok) \/ GuardrailBusyAbort(ok) \/ PreflightIdle(ok)
             \/ PollError(ok) \/ PollPending(ok) \/ PollSettled(ok)
             \/ Dispatch(ok) \/ SendUncertain(ok) \/ Await(ok)
      PROVE  OutcomeInv'
  BY <1>2, MetaOutcome, ControlOutcome, PreflightOutcome, PollOutcome, SendOutcome, AwaitOutcome
<1> QED BY <1>1, <1>2 DEF CallStep

\* OutcomeKept, for every setup it speaks of, failing spawns included: a
\* request that timed out stays pending or settled until a reply has told
\* the client how it ended.
THEOREM OutcomeCorrect == Spec => []OutcomeKept
<1> DEFINE Inv == PlaceInv /\ OutcomeUnlessLate
<1>1. Init => Inv
  <2> SUFFICES ASSUME Init PROVE Inv
    OBVIOUS
  <2>1. /\ IsManager(s) /\ s.inherit = setup.inherit /\ ~s.process /\ s.fault = "none"
        /\ ~s.pending_request
    BY DEF Init, NewManager, IsManager, Fields
  <2>2. pc = "idle" /\ call = NoCall /\ owed = {} /\ calls = 0
    BY DEF Init
  <2>3. ~NoCall.told /\ NoCall.meta = None /\ NoCall.deferred = None /\ ~NoCall.suppress
    BY DEF NoCall, NewCall
  <2>4. PlaceInv
    BY <2>2, NoCallFacts DEF PlaceInv
  <2>5. ~setup.inherit => Sane(s)
    BY <2>1 DEF Sane, Spent, is_running
  <2> QED BY <2>2, <2>3, <2>4, <2>5 DEF OutcomeUnlessLate, NoLateEvents, OutcomeInv, ToldInv
<1>2. Inv /\ [Next]_vars => Inv'
  <2>1. ASSUME Inv, UNCHANGED vars PROVE Inv'
    BY <2>1 DEF vars, PlaceInv, OutcomeUnlessLate, NoLateEvents, OutcomeInv, ToldInv
  <2>2. ASSUME Inv, Next PROVE PlaceInv'
    BY <2>2, CallStepAdvances, OtherSteps
  <2>3. ASSUME Inv, Next PROVE OutcomeUnlessLate'
    BY <2>3, SetupKept, CallStepOutcome, OtherOutcome DEF OutcomeUnlessLate, NoLateEvents
  <2> QED BY <2>1, <2>2, <2>3
<1>3. Inv => OutcomeKept
  <2>1. ASSUME OutcomeInv, pc = "idle", owed # {} PROVE owed = {req} /\ Known(s)
    BY <2>1 DEF OutcomeInv, ToldInv
  <2> QED BY <2>1 DEF OutcomeUnlessLate, NoLateEvents, OutcomeKept, Known
<1> QED BY <1>1, <1>2, <1>3, PTL DEF Spec
=============================================================================
