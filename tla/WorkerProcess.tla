---------------------------- MODULE WorkerProcess ----------------------------
(***************************************************************************)
(* WorkerSupervisor and WorkerProcess of worker_supervisor.rs on Unix: the *)
(* spawn of a worker and every way in which it is torn down.  Generations  *)
(* follow one another, the old one sometimes still being reaped by a       *)
(* background thread, and share one temp dir, one output timeline and one  *)
(* guardrail slot.  A worker may start one descendant, which may leave the *)
(* process group and outlives it when the worker exits by itself.          *)
(***************************************************************************)
EXTENDS Integers

CONSTANTS
    MaxGen,         \* bound: workers started, one after the other
    MaxWrites       \* bound: outputs of one worker and its descendant

ASSUME GenAssumption == MaxGen \in Nat \ {0} /\ MaxWrites \in Nat

Gens == 1 .. MaxGen

VARIABLES
    cur,            \* the generation the manager works with, 0 before the first
    p,              \* p[g]: the process, its threads and its WorkerProcess value
    tmpdir,         \* the generation whose session temp dir exists, 0 for none
    event,          \* the guardrail event slot: the generation killed, 0 for none
    timeline        \* the output appended: whose it is, and during whose time

vars == <<cur, p, tmpdir, event, timeline>>

\* pc is how far the owner (the manager's thread or the reaper) is:
\*   none, starting, up, then soft (waits for the exit), term (after SIGTERM),
\*   join_out, join_ipc, drop, gone;
\*   end_live and end_dead are the joins of finish_session_end_for_respawn.
NotSpawned ==
    [pc |-> "none", owner |-> "server", root |-> "none", desc |-> "none",
     writes |-> 0, raw |-> 0, sideband |-> 0,
     out |-> "none", ipc |-> "none", gate |-> FALSE, guard |-> "off",
     known |-> FALSE, finalized |-> FALSE, tmp |-> FALSE]

Init ==
    /\ cur = 0
    /\ p = [g \in Gens |-> NotSpawned]
    /\ tmpdir = 0
    /\ event = 0
    /\ timeline = {}

Running(q) == q.root = "alive"

\* What a process that exits leaves: its descendant is reparented.
Exited(q) ==
    [q EXCEPT !.root = "zombie",
              !.desc = CASE @ = "child" -> "peer" [] @ = "away" -> "lost" [] OTHER -> @]
\* send_signal_and_descendants(SIGKILL): the group, and the tree below the root.
Sigkilled(q) ==
    [q EXCEPT !.root = IF @ = "alive" THEN "zombie" ELSE @,
              !.desc = IF @ \in {"child", "peer"} \/ (@ = "away" /\ Running(q)) THEN "dead" ELSE @]
\* send_signal_descendants_only(SIGKILL): the tree below the root.
DescendantsKilled(q) ==
    [q EXCEPT !.desc = IF @ \in {"child", "away"} /\ Running(q) THEN "dead" ELSE @]
Reaped(q) == [q EXCEPT !.root = "reaped", !.known = TRUE]
\* kill, then wait
Killed(q) == Reaped(Sigkilled(q))
\* finalize_terminated_process, up to the joins.
Finalized(q) ==
    [IF q.known THEN DescendantsKilled(q) ELSE Sigkilled(q) EXCEPT !.pc = "join_out"]

To(g, q) == p' = [p EXCEPT ![g] = q]
Others == UNCHANGED <<cur, tmpdir, event, timeline>>

-----------------------------------------------------------------------------
(* The worker, its descendant and the threads that serve them.             *)

\* The worker forks, and the child may leave the process group (setsid).  One
\* descendant, one writer and one guardrail kill at a time is a bound.
Fork(g) ==
    /\ Running(p[g]) /\ \A h \in Gens : p[h].desc = "none"
    /\ \E d \in {"child", "away"} : To(g, [p[g] EXCEPT !.desc = d])
    /\ Others

RootExits(g) == Running(p[g]) /\ To(g, Exited(p[g])) /\ Others

DescendantExits(g) ==
    p[g].desc \notin {"none", "dead"} /\ To(g, [p[g] EXCEPT !.desc = "dead"]) /\ Others

\* Raw output of either process; sideband output is the worker's alone.
Writes(g) ==
    /\ p[g].writes < MaxWrites /\ \A h \in Gens \ {g} : p[h].writes = 0
    /\ \/ /\ Running(p[g]) \/ p[g].desc \notin {"none", "dead"}
          /\ To(g, [p[g] EXCEPT !.writes = @ + 1, !.raw = @ + 1])
       \/ /\ Running(p[g]) /\ p[g].pc # "starting"
          /\ To(g, [p[g] EXCEPT !.writes = @ + 1, !.sideband = @ + 1])
    /\ Others

Shown(g) == timeline' = timeline \cup {[from |-> g, during |-> cur]}

\* spawn_output_reader: a read of what is there.
ReadRaw(g) ==
    /\ p[g].out \in {"reading", "asked"} /\ p[g].raw > 0
    /\ To(g, [p[g] EXCEPT !.raw = 0])
    /\ Shown(g)
    /\ UNCHANGED <<cur, tmpdir, event>>

\* Mutant: the reader ends with the pipe, whoever holds it.
ReaderEnds_eof(g) ==
    /\ p[g].out \in {"reading", "asked"}
    /\ p[g].root \in {"zombie", "reaped"} /\ p[g].desc \in {"none", "dead"} /\ p[g].raw = 0
    /\ To(g, [p[g] EXCEPT !.out = "done"])
    /\ Others

\* It ends at the end of the pipe, or some time after it was asked to stop.
ReaderEnds(g) ==
    /\ \/ p[g].out = "asked"
       \/ /\ p[g].out = "reading" /\ p[g].raw = 0
          /\ p[g].root \in {"zombie", "reaped"} /\ p[g].desc \in {"none", "dead"}
    /\ To(g, [p[g] EXCEPT !.out = "done"])
    /\ Others

\* The IPC reader: handlers run only while the gate is open.
ReadSideband(g) ==
    /\ p[g].ipc \in {"reading", "detached"} /\ p[g].sideband > 0
    /\ To(g, [p[g] EXCEPT !.sideband = @ - 1])
    /\ IF p[g].gate THEN Shown(g) ELSE UNCHANGED timeline
    /\ UNCHANGED <<cur, tmpdir, event>>

\* The memory guardrail thread: it finds the tree too large, then acts on it.
GuardDecides(g) ==
    /\ p[g].guard = "watching" /\ Running(p[g]) /\ event = 0
    /\ To(g, [p[g] EXCEPT !.guard = "decided"])
    /\ Others
GuardActs(g) ==
    /\ p[g].guard = "decided"
    /\ event' = IF event = 0 THEN g ELSE event
    /\ To(g, [Sigkilled(p[g]) EXCEPT !.guard = "off"])
    /\ UNCHANGED <<cur, tmpdir, timeline>>

-----------------------------------------------------------------------------
(* Spawning.                                                               *)

Free == \A g \in Gens : g = cur => p[g].pc = "gone" \/ p[g].owner = "reaper"
\* A process with its reader threads, its sideband and its guardrail thread.
Attached == [NotSpawned EXCEPT !.pc = "starting", !.root = "alive", !.out = "reading", !.ipc = "reading",
                 !.gate = TRUE, !.guard = "watching", !.tmp = TRUE]

\* The command could not be prepared or started, or exited at once.
NoWorker == [NotSpawned EXCEPT !.root = "reaped", !.pc = "gone"]

\* WorkerSupervisor::spawn up to the wait for worker_ready: the temp dir is
\* wiped and made anew, then the worker is started.
Spawn ==
    /\ Free /\ cur < MaxGen
    /\ cur' = cur + 1
    /\ tmpdir' = cur + 1
    /\ \E q \in {Attached, NoWorker} : To(cur + 1, q)
    /\ UNCHANGED <<event, timeline>>

\* worker_ready came, and a prompt or the end of the wait for one.
Ready == p[cur].pc = "starting" /\ To(cur, [p[cur] EXCEPT !.pc = "up"]) /\ Others
\* terminate_spawn_error
SpawnError ==
    /\ p[cur].pc = "starting"
    /\ To(cur, Finalized(Killed(p[cur]))) /\ Others

-----------------------------------------------------------------------------
(* Teardown.                                                               *)

\* shutdown_graceful, shutdown_for_restart: the shutdown message is sent and
\* stdin closed, now or (CloseAfter) before the end; the worker may ignore both.
Soft(q) == [q EXCEPT !.pc = "soft"]
ShutdownGraceful == p[cur].pc = "up" /\ To(cur, Soft(p[cur])) /\ Others

Kill == p[cur].pc = "up" /\ To(cur, Finalized(Killed(p[cur]))) /\ Others

\* is_running or exit_status_message: the exit is noticed.
NoticeExit ==
    /\ p[cur].pc = "up" /\ p[cur].root = "zombie"
    /\ To(cur, Reaped(p[cur])) /\ Others
FinishExited ==
    /\ p[cur].pc = "up" /\ p[cur].root \in {"zombie", "reaped"}
    /\ To(cur, Finalized(Reaped(p[cur]))) /\ Others

\* The value is dropped: at the end of the server, or on an error.
DropWorker == p[cur].pc = "up" /\ To(cur, [p[cur] EXCEPT !.pc = "drop"]) /\ Others

\* finish_session_end_for_respawn: what the worker still sends is ignored.
FinishSessionEnd ==
    LET q == [p[cur] EXCEPT !.gate = FALSE]
    IN /\ p[cur].pc = "up"
       /\ To(cur, IF Running(q) THEN [q EXCEPT !.pc = "end_live"]
                  ELSE [DescendantsKilled(Reaped(q)) EXCEPT !.pc = "end_dead"])
       /\ Others

\* OutputReader::stop_and_join: when the grace is over the reader is asked.
Joining(q) == q.pc \in {"join_out", "end_live", "end_dead"}
AskReader(g) ==
    /\ Joining(p[g]) /\ p[g].out = "reading"
    /\ To(g, [p[g] EXCEPT !.out = "asked"]) /\ Others

\* Mutant: the reaper keeps the path of the temp dir.
HandToReaper_keeps(g) ==
    /\ p[g].pc = "end_live" /\ p[g].out = "done"
    /\ To(g, [Soft(p[g]) EXCEPT !.owner = "reaper"])
    /\ Others
\* Mutant: the worker is handed over before its output was drained.
HandToReaper_early(g) ==
    /\ p[g].pc = "end_live"
    /\ To(g, [Soft(p[g]) EXCEPT !.owner = "reaper", !.tmp = FALSE])
    /\ Others

\* The running worker goes to the background reaper, without the temp dir.
HandToReaper(g) ==
    /\ p[g].pc = "end_live" /\ p[g].out = "done"
    /\ To(g, [Soft(p[g]) EXCEPT !.owner = "reaper", !.tmp = FALSE])
    /\ Others

\* cleanup_session_tmpdir
Cleaned(q) == [q EXCEPT !.tmp = FALSE]
EndDead(g) ==
    /\ p[g].pc = "end_dead" /\ p[g].out = "done"
    /\ To(g, [Cleaned(p[g]) EXCEPT !.ipc = "detached", !.pc = "drop"])
    /\ tmpdir' = IF p[g].tmp THEN 0 ELSE tmpdir
    /\ UNCHANGED <<cur, event, timeline>>

\* finish_timed_shutdown.  An exit between the end of the wait and the check
\* that follows is reaped without being recorded.
SoftWait(g) ==
    /\ p[g].pc = "soft"
    /\ \/ p[g].root = "zombie" /\ To(g, Finalized(Reaped(p[g])))
       \/ p[g].root = "zombie" /\ To(g, Finalized([p[g] EXCEPT !.root = "reaped"]))
       \/ p[g].root = "reaped" /\ To(g, Finalized(Reaped(p[g])))
       \/ Running(p[g]) /\ To(g, [p[g] EXCEPT !.pc = "term"])
    /\ Others
TermWait(g) ==
    /\ p[g].pc = "term"
    /\ \/ p[g].root = "zombie" /\ To(g, Finalized(Reaped(p[g])))
       \/ Running(p[g]) /\ To(g, Finalized(Killed(p[g])))
    /\ Others

JoinOut(g) ==
    p[g].pc = "join_out" /\ p[g].out \in {"done", "none"} /\ To(g, [p[g] EXCEPT !.pc = "join_ipc"]) /\ Others
\* The IPC reader ends with the worker, which alone holds the other end.
JoinIpc(g) ==
    /\ p[g].pc = "join_ipc"
    /\ p[g].ipc = "detached" \/ (p[g].sideband = 0 /\ p[g].root \in {"zombie", "reaped"})
    /\ To(g, [p[g] EXCEPT !.finalized = TRUE, !.pc = "drop"]) /\ Others

\* Drop: the guardrail thread is joined (one that has decided acts first);
\* a worker not finalized is killed, and finalized; the temp dir goes last.
StopGuardrail(g) ==
    /\ p[g].pc = "drop" /\ p[g].guard = "watching"
    /\ To(g, [p[g] EXCEPT !.guard = "off"]) /\ Others

TerminateForDrop(g) ==
    /\ p[g].pc = "drop" /\ p[g].guard = "off" /\ ~p[g].finalized
    /\ To(g, Finalized(IF p[g].known THEN p[g] ELSE IF Running(p[g]) THEN Killed(p[g]) ELSE Reaped(p[g])))
    /\ Others

\* What a descendant does from now on reaches no one: it is not followed.
DropTmpdir(g) ==
    /\ p[g].pc = "drop" /\ p[g].guard = "off" /\ p[g].finalized
    /\ To(g, [NotSpawned EXCEPT !.pc = "gone", !.owner = p[g].owner, !.root = p[g].root,
                                !.out = p[g].out, !.guard = p[g].guard])
    /\ tmpdir' = IF p[g].tmp THEN 0 ELSE tmpdir
    /\ UNCHANGED <<cur, event, timeline>>

\* The steps of whoever tears worker g down.
TeardownStep(g) ==
    \/ AskReader(g) \/ HandToReaper(g) \/ EndDead(g) \/ SoftWait(g) \/ TermWait(g)
    \/ JoinOut(g) \/ JoinIpc(g)
    \/ StopGuardrail(g) \/ TerminateForDrop(g) \/ DropTmpdir(g)
\* The steps of the threads of worker g.
ThreadStep(g) ==
    ReadRaw(g) \/ ReaderEnds(g) \/ ReadSideband(g) \/ GuardActs(g)
WorkerStep(g) == Fork(g) \/ RootExits(g) \/ DescendantExits(g) \/ Writes(g) \/ GuardDecides(g)
ManagerStep ==
    /\ cur # 0
    /\ \/ Ready \/ SpawnError \/ ShutdownGraceful \/ Kill
       \/ NoticeExit \/ FinishExited \/ DropWorker \/ FinishSessionEnd

Next ==
    \/ Spawn \/ ManagerStep
    \/ \E g \in Gens : TeardownStep(g) \/ ThreadStep(g) \/ WorkerStep(g)

Fairness == \A g \in Gens : WF_vars(TeardownStep(g)) /\ WF_vars(ThreadStep(g))
Spec == Init /\ [][Next]_vars /\ Fairness

-----------------------------------------------------------------------------
\* The temp dir of the worker in use is there, and is its own, although an
\* earlier worker may still be torn down and both have the same path.
TmpdirKept == cur # 0 /\ p[cur].pc \in {"starting", "up"} => tmpdir = cur

\* What is appended to the shared timeline comes from the worker of its time:
\* an old worker, or a descendant that still holds its stdout, adds nothing
\* once the next one is started.
NoOutputFromOldSession == \A o \in timeline : o.from = o.during

\* A teardown that began ends, also when the worker ignores the shutdown and
\* SIGTERM, and when a descendant keeps its stdout open for ever.
TeardownEnds ==
    \A g \in Gens : p[g].pc \notin {"none", "starting", "up", "gone"} ~> p[g].pc = "gone"
=============================================================================
