------------------------------ MODULE Sideband ------------------------------
(***************************************************************************)
(* One worker connection end to end: the server's reader thread and inbox  *)
(* (ServerIpc), the request thread of WorkerManager making its calls in    *)
(* the order the code makes them, and the built-in R worker on Unix        *)
(* (RSession) at the other end of the two pipes.                           *)
(*                                                                         *)
(* The client may at any time write a batch, poll, press Ctrl-C or ask for *)
(* a restart.  The behaviour ends when the manager gives the worker up: a  *)
(* replacement starts from a new connection, with nothing kept.            *)
(***************************************************************************)
EXTENDS ServerIpc

CONSTANTS
  Prompt,       \* the prompt R shows
  MaxBatches,   \* bound: batches the client writes
  BatchLines    \* bound: lines of one batch

ASSUME SidebandAssumption ==
  /\ Prompt \in Prompts
  /\ MaxBatches \in Nat
  /\ BatchLines \in Nat \ {0}

VARIABLES
  to_worker, ipc_thread, main, sigint, input_queue, active_input, shutdown,
  waiting_for_input, read_interrupted, session_end_emitted, protocol_failure,
  line, ran,      \* the worker, see RSession
  manager,        \* where the request thread is in WorkerManager
  batch,          \* number of the last batch written
  pending,        \* pending_request: the last batch is not yet known complete
  discarded       \* history: the last batch an interrupt was sent after

worker == <<to_worker, ipc_thread, main, sigint, input_queue, active_input,
            shutdown, waiting_for_input, read_interrupted,
            session_end_emitted, protocol_failure, line, ran>>
server == <<connection, request, seen>>
manage == <<manager, batch, pending, discarded>>
sidebandVars == <<pipe, peer, server, worker, manage>>

R == INSTANCE RSession

SidebandInit ==
  /\ Init
  /\ ~windows
  /\ R!Init
  /\ manager = "spawning"
  /\ batch = 0
  /\ pending = FALSE
  /\ discarded = 0

-----------------------------------------------------------------------------
(* The request thread.  Go(op, next) makes a call of ServerIpc; the thread *)
(* waits at next until the call has returned.                              *)

Go(op, next) ==
  /\ Call(op)
  /\ manager' = next
  /\ UNCHANGED worker

Blocked == caller \in Waits

\* A call returned at this point of the manager's code.
At(here) == manager = here /\ caller = "idle"
Got(value) == ret.value = value

Advance(next) ==
  /\ manager' = next
  /\ UNCHANGED <<pipe, peer, server, worker>>

\* The worker is given up: reset, or a reply that reports the session end.
GiveUp ==
  /\ manager' = "gone"
  /\ caller' = "dropped"
  /\ UNCHANGED <<pipe, peer, connection, ret, sent_at, delivery, clock, windows, seen, worker>>

ToWorker(m) == to_worker' = Append(to_worker, m)
WorkerUntouched ==
  UNCHANGED <<ipc_thread, main, input_queue, active_input, shutdown,
              waiting_for_input, read_interrupted, session_end_emitted,
              protocol_failure, line, ran>>

\* WorkerSupervisor spawn: worker_ready, then seed_initial_readiness.
SpawnFails ==
  /\ manager = "spawning" /\ caller = "dropped"
  /\ manager' = "gone"
  /\ UNCHANGED <<pipe, peer, server, worker, batch, pending, discarded>>

SeedImmediate ==
  /\ At("spawning") /\ inbox.last_prompt # NoPrompt
  /\ inbox' = [inbox EXCEPT !.last_prompt = NoPrompt]
  /\ manager' = "ready"
  /\ UNCHANGED <<pipe, peer, input, reader, handler, gate, handled, request, seen,
                 worker, batch, pending, discarded>>

SeedReadiness ==
  /\ At("spawning") /\ inbox.last_prompt = NoPrompt
  /\ Go("wait_for_input_readiness", "seeding")
  /\ UNCHANGED <<batch, pending, discarded>>

Seeded ==
  /\ At("seeding")
  /\ \/ ret.value \in {"Ok", "Timeout"} /\ Advance("ready")
     \/ ret.value \notin {"Ok", "Timeout"} /\ GiveUp
  /\ UNCHANGED <<batch, pending, discarded>>

\* A non-empty write with no request pending: on_input_start.
Write ==
  /\ At("ready") /\ ~pending
  /\ R!Alive
  /\ batch < MaxBatches
  /\ Go("begin_input_when_ready", "starting")
  /\ UNCHANGED <<batch, pending, discarded>>

\* The batch is on its way; an error latched meanwhile ends the request.
SendBatch ==
  /\ At("starting") /\ Got("Ok")
  /\ batch' = batch + 1
  /\ ToWorker([type |-> "input_batch", batch |-> batch + 1, lines |-> BatchLines])
  /\ manager' = "started"
  /\ UNCHANGED <<pipe, peer, server, sigint, pending, discarded>>
  /\ WorkerUntouched

StartFails ==
  /\ \/ At("starting") /\ ~Got("Ok")
     \/ At("started") /\ input.protocol_error # None
  /\ GiveUp
  /\ UNCHANGED <<batch, pending, discarded>>

AwaitCompletion ==
  /\ At("started")
  /\ input.protocol_error = None
  /\ Go("wait_for_request_completion", "awaiting")
  /\ UNCHANGED <<batch, pending, discarded>>

\* An empty write, or a write while busy, first runs resolve_timeout_marker
\* and then, if the request is still pending, waits for it.
Poll ==
  /\ At("ready") /\ pending
  /\ Go("wait_for_request_completion", "resolving")
  /\ UNCHANGED <<batch, pending, discarded>>

\* A protocol error found here is kept in settled_pending_error and resets
\* the worker at the next poll, which belongs to the same write.
Resolved ==
  /\ At("resolving")
  /\ CASE Got("Ok") /\ R!Alive -> Advance("ready") /\ pending' = FALSE
       [] ret.value \in {"Timeout", "Disconnected"} /\ R!Alive ->
            Advance("polling") /\ UNCHANGED pending
       [] OTHER -> GiveUp /\ UNCHANGED pending
  /\ UNCHANGED <<batch, discarded>>

\* poll_pending_output; a zero timeout does not wait at all.
PollWait ==
  /\ At("polling")
  /\ Go("wait_for_request_completion", "polled")
  /\ UNCHANGED <<batch, pending, discarded>>
PollZero ==
  /\ At("polling")
  /\ Advance("ready")
  /\ UNCHANGED <<batch, pending, discarded>>

\* wait_for_request_completion returns to the manager, which looks once more
\* for a latched error.
Completed ==
  /\ At("awaiting") \/ At("polled")
  /\ Got("Ok") /\ input.protocol_error = None
  /\ pending' = FALSE
  /\ Advance("ready")
  /\ UNCHANGED <<batch, discarded>>

\* A timeout leaves the request pending as long as the process runs.
StillPending ==
  /\ At("awaiting") \/ At("polled")
  /\ Got("Timeout") /\ R!Alive
  /\ pending' = TRUE
  /\ Advance("ready")
  /\ UNCHANGED <<batch, discarded>>

\* A session end, or a closed stream or a timeout with the process gone, and
\* any error of the wait that follows the batch itself.
CompletionEnds ==
  /\ \/ /\ At("awaiting")
        /\ ret.value = "Protocol" \/ (Got("Ok") /\ input.protocol_error # None)
     \/ /\ At("awaiting") \/ At("polled")
        /\ \/ ret.value \in {"SessionEnd", "Disconnected"}
           \/ Got("Timeout") /\ ~R!Alive
  /\ GiveUp
  /\ UNCHANGED <<batch, pending, discarded>>

\* An error in the wait of a poll is returned to the client and nothing
\* else: observe_active_pending_request neither resets nor clears.
PollFails ==
  /\ At("polled")
  /\ Got("Protocol") \/ (Got("Ok") /\ input.protocol_error # None)
  /\ manager' = "ready"
  /\ input' = take_protocol_error(input)
  /\ UNCHANGED <<pipe, peer, inbox, reader, handler, gate, handled, request,
                 seen, worker, batch, pending, discarded>>

\* Ctrl-C: driver.interrupt writes the IPC message, then signals.
SendInterrupt ==
  /\ At("ready") /\ R!Alive
  /\ Interrupt
  /\ ToWorker([type |-> "interrupt"])
  /\ manager' = "signalling"
  /\ discarded' = batch
  /\ UNCHANGED <<sigint, batch, pending>>
  /\ WorkerUntouched

SendSignal ==
  /\ At("signalling")
  /\ sigint' = R!Alive
  /\ manager' = "interrupting"
  /\ UNCHANGED <<pipe, peer, server, to_worker, batch, pending, discarded>>
  /\ WorkerUntouched

\* A pending request is waited for; at an idle prompt any input_wait will do.
AwaitInterrupted ==
  /\ At("interrupting")
  /\ IF pending THEN Go("wait_for_request_completion", "polled")
     ELSE Go("wait_for_input_wait_or_fresh_ready", "prompting")
  /\ UNCHANGED <<batch, pending, discarded>>

\* Only a session end replaces the worker here; an error is returned.
InterruptAnswered ==
  /\ At("prompting")
  /\ IF Got("SessionEnd") THEN GiveUp ELSE Advance("ready")
  /\ UNCHANGED <<batch, pending, discarded>>

\* ensure_process finds the process gone.
WorkerLost ==
  /\ At("ready") /\ ~pending
  /\ ~R!Alive
  /\ GiveUp
  /\ UNCHANGED <<batch, pending, discarded>>

\* Ctrl-D or server exit: shutdown is sent and the worker let go.
Restart ==
  /\ At("ready")
  /\ ToWorker([type |-> "shutdown"])
  /\ manager' = "gone"
  /\ caller' = "dropped"
  /\ UNCHANGED <<pipe, peer, connection, ret, sent_at, delivery, clock, windows, seen,
                 sigint, batch, pending, discarded>>
  /\ WorkerUntouched

Resume == (Wake \/ TimeOut) /\ UNCHANGED <<worker, manage>>

ManagerStep ==
  \/ SpawnFails \/ SeedImmediate \/ SeedReadiness \/ Seeded \/ Write
  \/ SendBatch \/ StartFails
  \/ AwaitCompletion \/ Poll \/ Resolved \/ PollWait \/ PollZero \/ Completed
  \/ StillPending \/ CompletionEnds \/ PollFails \/ SendInterrupt \/ SendSignal
  \/ AwaitInterrupted \/ InterruptAnswered \/ WorkerLost \/ Restart \/ Resume

ServerReader == ReaderStep /\ UNCHANGED <<worker, manage>>
WorkerIpc == R!IpcThread /\ UNCHANGED <<server, manage>>
WorkerMain == R!MainThread /\ UNCHANGED <<server, manage>>
WorkerCrash == R!Crash /\ UNCHANGED <<server, manage>>

\* Nothing is left to do once the manager has let the worker go.
Finished == manager = "gone" /\ UNCHANGED sidebandVars

SidebandNext ==
  ManagerStep \/ ServerReader \/ WorkerIpc \/ WorkerMain \/ WorkerCrash \/ Finished

SidebandSpec == SidebandInit /\ [][SidebandNext]_sidebandVars

\* The steps of the manager that finish a call in progress, and the polls of
\* a client that wants its answer.
ManagerProgress ==
  \/ SpawnFails \/ SeedImmediate \/ SeedReadiness \/ Seeded
  \/ SendBatch \/ StartFails
  \/ AwaitCompletion \/ Poll \/ Resolved \/ PollWait \/ Completed
  \/ StillPending \/ CompletionEnds \/ PollFails \/ SendSignal
  \/ AwaitInterrupted \/ InterruptAnswered \/ WorkerLost \/ Resume

Fairness ==
  /\ WF_sidebandVars(ManagerProgress)
  /\ WF_sidebandVars(ServerReader)
  /\ WF_sidebandVars(WorkerIpc)
  /\ WF_sidebandVars(WorkerMain)

FairSidebandSpec == SidebandSpec /\ Fairness

-----------------------------------------------------------------------------
\* Lines of batch b the worker has accepted and not yet handed to R.
Unread(b) == {i \in DOMAIN input_queue : input_queue[i].batch = b}
InFlight(b) ==
  \E i \in DOMAIN to_worker :
    to_worker[i].type = "input_batch" /\ to_worker[i].batch = b

\* A batch the server reports complete has been read by R to its last line,
\* unless an interrupt was sent after it.
CompletionMeansRead ==
  (CompletedWith("Ok") /\ discarded < batch) =>
    ~InFlight(batch) /\ Unread(batch) = {}

\* As long as the client has pressed no Ctrl-C, a completion means that the
\* batch was read, and the R worker never breaks the protocol: no line of
\* its stream is refused and it never sees a batch while one is active.
CompletedMeansRead ==
  clock = 0 =>
    /\ CompletionMeansRead
    /\ input.protocol_error = None /\ ~protocol_failure

\* Line k comes before line l in what the client wrote.
Before(k, l) == k.batch < l.batch \/ (k.batch = l.batch /\ k.number < l.number)

\* R is given the lines of the batches in the order they were written, and
\* never a line more than once.
LinesRunInOrder == \A i, j \in DOMAIN ran : i < j => Before(ran[i], ran[j])

\* Once the worker has received an interrupt, no line written before it is
\* left for R to read: the discard is ordered after those batches by the
\* stream and takes all of them.
InterruptDiscards ==
  (\A i \in DOMAIN to_worker : to_worker[i].type # "interrupt") =>
    \A b \in 1..discarded : Unread(b) = {}

\* Every batch sent to R is eventually reported complete, or the worker is
\* given up, as long as R finishes the lines it runs, the client polls and
\* presses no Ctrl-C: no wakeup is lost, and a worker that ends or dies is
\* noticed.
Unsettled == manager \in {"started", "awaiting"} \/ pending
BatchSettles == Unsettled ~> (~Unsettled \/ manager = "gone" \/ clock > 0)
=============================================================================
