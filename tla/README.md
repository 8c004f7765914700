# A TLA+ development of mcp-repl

mcp-repl gives an MCP client a persistent R or Python session.  The server
process speaks MCP to the client; the session lives in a worker process; between
them run two pipes of JSON lines, the *worker sideband*, and the worker's plain
stdout and stderr.  This directory holds TLA+ models of that system, the TLC
configurations that check them and TLAPS proofs about them.  Source lines below are
relative to the crate's `src/` directory.

## 1. Inventory

| Component | State | Operations | Interacts through |
|---|---|---|---|
| Sideband, server side (`ipc/server_connection.rs`, `input_state.rs`) | `ServerIpcInbox` with its `InputState`: active batch, readiness, completion instant, latched protocol error, session end, prompts, the Windows interrupt transaction, image ids; the handler gate | reader thread: one step per message; request thread: ten blocking waits and a few takes | one mutex and condition variable; handlers into the output timeline |
| Messages and transport (`ipc/*.rs`) | pipes, a bounded writer | send, send with timeout, receive | pipes inherited by the worker |
| R worker (`worker.rs`, `r_session.rs`) | `SessionStateInner`: input queue, active batch, shutdown, waiting and interrupted flags, protocol failure | IPC thread: batch, interrupt, shutdown; main thread: `ReadConsole` | one mutex and condition variable, SIGINT, R callbacks |
| Python worker (`python_session.rs`, `python_input_queue.rs`) | queue of payloads with an owner, checkpoint, interrupt flags | sideband reader; cells on the main thread; `input()` on any thread | one mutex and condition variable, the observer's events on Windows |
| Windows observer (`windows_interrupt_observer.rs`) | arm and completion events, the handler thread's handle | arm, hand over, watch, consume | console handler thread |
| Worker manager (`worker_process/*.rs`) | process, pending request, settled completion or error, session end, detached output, deferred sandbox update | write, poll, interrupt, restart, sandbox change | calls the waits above; drains output; asks the supervisor for processes |
| Supervisor (`worker_supervisor.rs`) | child, process group, temp dir, output readers, ConPTY filter, memory guardrail | spawn, handshake, signal, staged shutdown, background reaping, kill | guardrail thread shares an event with the manager; readers append to the timeline |
| Output timeline (`output_capture.rs`, `pending_output_tape.rs`, `resolved_output.rs`) | ring of chunks and events with offsets, pending UTF-8 tails, the cursor of the drains | append from three threads, seal, drain, consume | shared ring, one lock for each part |
| Replies (`server/response.rs`) | output bundles on disk, quotas, the active timeout bundle, staged items | finalize, spill, append, prune | file system |
| Pager (`pager/*.rs`) | buffer, page position, ranges seen, search session | next, search, seek, list, quit | output timeline |
| Sandbox (`sandbox.rs`, `sandbox_cli.rs`, `windows_sandbox*.rs`, `managed_network.rs`) | effective policy, mount plan, access control lists, proxy | resolve a plan, project a profile, build the mounts, prepare and clean a launch | operating system, other servers on the same workspace |
| Tools (`install.rs`, `debug_repl.rs`, logs) | files | install, log | none |

What is hard in this code:

* **Two threads at each end, and messages between them.**  Readiness, completion, a
  protocol error, the end of the session and the end of the stream reach the
  request thread as facts in one record, in any order, between any two of its looks.
* **A request outlives its call.**  A timed-out batch is completed by a later poll, by
  the zero-wait look before a busy reply, or by the drain after Ctrl-C; its output is
  spread over several replies that share one bundle.
* **Ctrl-C is two things**, a cleanup message and a platform interrupt, which reach two
  threads of the worker in either order; on Windows a transaction joins them.
* **A call is many steps.**  Between two looks of one call the worker may finish, end or
  exit, and the guardrail thread may kill it; a policy change may respawn it on the way.
* **Output has many sources and one order.**  Raw pipes, sideband events and notices meet
  in a bounded ring, characters split over reads, and a drain is several locks long.
* **Everything may die**: the worker between any two messages, with or without
  `session_end`; the wrapper of a sandboxed launch; a file operation in the middle of an
  append.  What outlives it (descendants, old reader threads, access entries, half-written
  bundles) must not disturb what comes next.

What makes each component correct: a completion stands for the batch it is reported
for; no event of a worker is shown after its end or for another request; every batch
settles and every call returns; an interrupt takes the input before it and none after;
output is shown at most once, in order and with a notice for what is missing; a bundle
a reply names is there; a page continues the one before; the sandbox grants exactly what
the policy says; a launch disturbs no other.

## 2. Plan

| Order | Module | Models | Status |
|---|---|---|---|
| 1 | `InputState`, `ServerInbox`, `ServerIpc` | the shared records; reader thread and blocking calls against an arbitrary worker, both platforms | done |
| 2 | `RSession`, `Sideband` | the R worker on Unix; the server, the manager's call order and the worker together | done |
| 3 | `ManagerState`, `WorkerManager` | tool calls, polls, interrupts, restarts, sandbox changes, guardrail, detached output | done, files mode on Unix |
| 4 | `OutputRing`, `OutputTimeline`, `OutputLog` | the ring, UTF-8 tails and drains, and the abstract log they implement | done |
| 5 | `OutputStore`, `OutputBundles` | bundles, quotas, staging over polls | done |
| 6 | `ConptyFilter`, `ConptyCapture`, `WorkerProcess` | the supervisor's capture and teardown | done |
| 7 | `PagerBuffer`, `PagerSearch`, `Pager` | pages, searches and what was seen | done |
| 8 | `PythonQueue`, `InterruptObserver`, `PythonSession` | the Python worker and the Windows observer | done |
| 9 | `FilePolicy`, `LinuxMounts`, `SandboxCli`, `SandboxPlan` | from command line and profile to the mounts of a worker | done |
| 10 | `WindowsAcl`, `WindowsLaunch` | launches that share a workspace on Windows | done |
| 11 | `SidebandProofs`, `WorkerProcessProofs`, `WorkerManagerProofs`, `PythonSessionProofs`, `WindowsLaunchProofs`, `PagerProofs`, `ConptyCaptureProofs`, `OutputBundlesProofs` | theorems about `ServerIpc`, `Sideband`, `WorkerProcess`, `WorkerManager`, `PythonSession`, `WindowsLaunch`, `Pager`, `ConptyCapture` and `OutputBundles` | section 5 |

Still worth proving: `WritableWhileRunning` for `WindowsLaunch`, under a condition that holds
for more than two launches; `RequestKeptTogether` and `NothingLostSilently` on top of
`BundlesInv`; the refinement of `OutputLog` and the confinement of `SandboxPlan`, with their
loops written and reasoned about as in `OutputBundles`.  Still worth modelling: the proxy's admission decisions
(`managed_network.rs`), image ids, the R worker's checkpoint on Windows.

## 3. Modules and the code

**`InputState`** has one operator per method of `struct InputState`.  An
`Option<Instant>` is a natural number or `None`.

**`ServerInbox`** is the rest of `ServerIpcInbox` and the helper functions at the end of
`server_connection.rs`.  The queue is only ever searched by type, so it is a count per
type.  Error texts, and `protocol_warnings`, which nothing ever fills, are left out.

**`ServerIpc`** is one connection; `windows` says which platform's worker is at the other
end.  Each arm of the reader's `match` is an action; a refused line latches an error and
ends the thread.  Handlers run after the lock is released, so `Dispatch` is a step of its
own.  A blocking call is `Call` (first look), `Wake` (a later look) and `TimeOut`;
`Answer(op)` is what one look yields and `InputAfter`/`InboxAfter` what returning takes out
of the inbox.  `MayCall` is the order in which the manager makes the calls.  The worker is
arbitrary: any message of `Types` at any time, or the end of the stream.  Time: the code
compares instants only with the last interrupt's, or a completion with an error, so `clock`
advances at interrupts; every wait may expire whenever it is blocked.

**`RSession`** is the worker-ipc thread and `r_read_console`.  `main` is the program
point of R's thread; emitting a message is a step of its own because the lock is released
first.  What R does with a line (finish, print, quit, crash) is left open.  The save
prompt, which is answered without touching the queue, and splitting an overlong line are
left out.  A line is a batch number and its place in the batch.

**`Sideband`** composes the two with the manager's request thread: spawn handshake, write,
poll (the zero-wait look, then the wait), Ctrl-C, restart.  `manager` is the program
point; `At(p)` holds when the call made there has returned.  The behaviour ends when the
manager gives the worker up.

**`ManagerState`** is `struct WorkerManager` and what its fields stand for outside it: the
worker process, the batch it runs, what its sideband has said (`fault`), its guardrail
thread and the output tape.  Each `&mut self` method is an operator on that record with the
method's name; `ok` is the outcome of the spawn a method ends with.  A sandbox policy is an
opaque value, output a sequence of numbered items, and `Notice` any text the server adds.

**`WorkerManager`** is one `repl` call after another: `run_write_input`, `write_stdin_files`
and all they call.  The server lock admits one call at a time, so a call is a sequence of
steps at the program points of `pc`, cut where the code waits or looks again at something
another thread may change; between them the worker produces, completes, ends its session or
exits, its stream fails, and the guardrail thread decides, leaves its event and kills.
`call` holds the call's input class (control prefix, text or none after it), its metadata
and the options `run_write_input` computes from them.  `shown` and `owed` are histories:
what the client has seen, notices included, and which accepted requests it has not been told
the end of.
`setup` names the server and the failures of a behaviour and carries its bounds.  Left out:
pager mode, the Windows transaction, the bubblewrap fallback, malformed (as opposed to
missing) metadata, prompt texts, the item counts that only split a reply into bundles, the
settle windows (a completion counts once it is stable) and a second control character in
the tail.

**`OutputRing`** has the data structures of `output_capture.rs` as operators: the side buffer
that keeps incomplete characters back, the ring with both retention modes (oldest output
goes, or newest is refused) and its notices, and the rendering of a range.  A byte knows
its stream and its part in a character.  **`OutputTimeline`** is one timeline with its
cursor.  An append holds the state mutex to its end but the ring's for one chunk, one event or
one notice at a time, so it is a `job` of several steps (`Advance`, `AppendMore`).  A drain
seals the tails, reads the cursor and the end of the ring, reads the range, then renders and
consumes it (`DrainStart`, `DrainEnd`, `DrainRead`, `DrainConsume`), and may find an append
half done at each.  The server's status line seals, looks at the last text, and appends.
`inside` is a history of the bytes at which a drain ended between two chunks of one append.
`Clear` takes all locks in turn and is one step: it runs when the old worker's readers are
gone.  **`OutputLog`** is the promise: what is shown is a subsequence of what was
appended, in each source's order, at most once, and a gap is announced.  `ImplementsLog`
is `OutputLog`'s specification under the mapping given at the end of `OutputTimeline`.
Left out: `saw_stderr`, prompts.

**`OutputStore`** is the bundle store of `response.rs` as operators on one record (metadata,
accounted and reserved bytes, and the files themselves).  The parameter `io` says which file
operations fail: creating or removing a directory, or, at one item, its content, the removal of
an old alias, the alias, its index row, the index file or its first rows, or the omission
notice; `io.cut` bytes of the failing write reach the file.  What came before the failure is
written and accounted for, the directory is `torn` from then on, and one whose removal failed
is `gone`, since any part of it may be.  **`OutputBundles`** is the response finalizer; one action is one whole tool
call, since a reply is finalized under the state lock.  Inline materialization in pager mode,
previews, row spans and file extensions are abstracted.

**`ConptyFilter`** is the noise filter of `worker_supervisor.rs` on symbolic escape sequences
and **`ConptyCapture`** the race of raw reader, IPC reader and teardown for it; raw bytes
arrive in pieces of any size.  **`WorkerProcess`** is spawn and every teardown path on Unix
for generations of workers that share a temp dir, a timeline and a guardrail slot; one
descendant may leave the group and hold the pipes.

**`PagerBuffer`**, **`PagerSearch`** and **`Pager`** are the positions of `pager/`: where a page
ends, which ranges were seen, the hits indexed so far, and what each command shows.  Text is
a sequence of symbols, one of which ends a line and one of which is the pattern.  Headings,
streams, case, footers, contexts other than 0 for `:matches` and more than one hit for
`:hits` are abstracted.

**`PythonQueue`** is `PythonInputQueue`; **`InterruptObserver`** the console observer;
**`PythonSession`** the sideband reader, the main thread, a background reader of user code and
the server as far as it decides what to send.  The histories `last` and `again` record up to
which place the input is done with (taken, discarded, or left of a payload that has ended) and
whether something before that place was taken after all.  A step is one hold of the session lock;
publishing readiness is therefore two, the look at the checkpoint (`PreparePublication`) and
the rearming of the observer (`Rearm`), between which another thread may mark it.
Prompts, plots, the GIL and handlers installed later by a package are left out.

**`FilePolicy`** is what a policy's entries promise for a path, and the roots the backends are
given; **`LinuxMounts`** the mount operations and (external) what bubblewrap makes of them;
**`SandboxCli`** the command line's operations and the projection of profiles to modes;
**`SandboxPlan`** walks from a command line and a call's metadata to a launched worker.
Symbolic links, glob syntax, the override that disables the fallback and the macOS profile
are left out.

**`WindowsAcl`** is the access lists as explicit entries per path, with inheritance;
**`WindowsLaunch`** the preparation by the server, the refresh and the run by the wrapper, the
roll-back, and the cleanup, which takes no lock.  Every change of a list is a read and a
later write, and a wrapper may be killed between any two.  A cleanup takes the targets in the
code's order (`NextGuard`: a guard, then what lies below it in reverse) and passes over paths
that are gone.  `Missing` are writable roots that a launch has to make first.  Protected
directories exist from the start: the code denies nothing for a protected name that does not
exist, and neither do the properties speak of one.  Every launch has a policy, whose stable SID
it shares with the launches of that policy and after which the lock is named
(`windows_sandbox.rs:598`, `:700`): launches of two policies exclude each other in nothing.  The
writes by which a roll-back or a cleanup takes changes back may fail without anybody noticing
(`:2247`, `:3338`, `:3500`), at most `MaxLost` times.  The histories `spoiled` and `mixed` record
the launches that changed lists together with another one, or lost such a write, and the
policies whose launches changed lists together with those of another policy.  Targets are
listed once per step in a fixed order.  Offline identity, tokens, the null device, the stdio forwarders and a session temp
inside the workspace are left out.

The `MC` modules give the constants of a run their values.

## 4. Runs

| Run | Checks | Bounds |
|---|---|---|
| `ServerIpc` | types, `FreshCompletion`, `SettledInterrupt`, `CompletionNotHidden`, `NothingAfterSessionEnd` | 1 message in flight, 1 line, 1 readiness beyond the first; Unix: every message, 1 interrupt; Windows: the transaction's messages and readiness, 2 interrupts |
| `Sideband` | `CompletedMeansRead`, `LinesRunInOrder`, `InterruptDiscards`, liveness `BatchSettles` | 2 batches of 2 lines, 1 interrupt |
| `SidebandStaleReady` | violation, section 6 | 1 batch of 1 line, 1 interrupt |
| `WorkerManager` | `OutcomeKept`, `ShownInOrder`, `RunsUnderCallPolicy`, `CallsAdvance` | three setups: fixed policy, 3 calls, 2 items, all failures but spawns; policy from metadata (2 policies), 3 calls, 2 items, exits and session ends; the same with 2 calls, no output, failing respawns, guardrail, late session end and late warm start |
| `OutputBundles` | `QuotaKept`, `NamedBundleExists`, `IndexComplete`, `RequestKeptTogether`, `NothingLostSilently` | 3 calls, 2 bundles of 14 bytes, text and images above and below each limit; in one call one operation of one item fails after 2 bytes of it, alone or with the removal that should follow |
| `OutputTimeline` | `CharactersWhole`, `DrainExposes`, refinement `ImplementsLog` | ring of 5 bytes in chunks of 2, 2 texts (with a line end, a character split over reads and one split over chunks) on 2 streams, 4 events, 3 appends, 2 drains, both retention modes |
| `ConptyCapture` | `OnlyNoiseRemoved`, `LineFeedInPlace`, `SessionEndLast` | 7 raw streams in pieces of every size against 3 sideband scripts |
| `WorkerProcess` | `TmpdirKept`, `NoOutputFromOldSession`, liveness `TeardownEnds` | 2 generations, 1 write each, 1 descendant each |
| `Pager` | `ClaimsAreTrue`, `PagesFollowOn`, `HitsInOrder` | pages of 4, 3 outputs up to 15 characters, 22 commands, 5 calls |
| `PythonSession` | `SettledMeansQuiet`, `ConsumedInOrder`, liveness `ServerIsAnswered` | 2 inputs of 2 lines, 2 interrupts, 2 reads, 1 background reader, both platforms |
| `SandboxPlan` | `PlanConfines`, `PlanGrants`, `TargetsReady`, `ProfileHonoured` | 16 paths, 4 hosts, 11 command lines, about 1800 profiles of up to 4 entries |
| `WindowsLaunch` | `WritableWhileRunning`, `ProtectedWhileRunning`, `NothingLeftBehind` | 2 launches (symmetric) of 1 or 2 policies (symmetric), 7 paths, any failure of an apply, 1 lost write, any kill; constraint `MCWithin` |

Why the bounds are enough.  *ServerIpc*: the reader takes messages one at a time and the
worker's next one is arbitrary, so one in flight suffices; two interrupts let a message of
the first reach the second transaction.  *Sideband*: with two batches the readiness,
completion or lines of one can be taken for the other's; the pipes are unbounded there, and
what bounds them is the worker's own control flow.  *WorkerManager*: three calls are the
least in which a request times out, settles between calls and meets a third call that must
still show it; two items can be shown in the wrong order.  *OutputTimeline*: the capacity is
below the output of the three appends, so both retention modes drop, and two drains show
what one leaves to the next.  *OutputBundles*: two bundles fill the store, the third call
prunes.  *Pager*: the longest output has four pages, and five calls let a search, a jump and
a page follow one another; a line of the output is longer than `LineMax`, so `:hits` cuts one.  *WindowsLaunch*: with two launches every overlap of one
preparation with one cleanup occurs.  `MCWithin` does not go on from states in which launches of
two policies have overlapped, since with two launches both are then spoiled and both policies
mixed for good and the properties promise neither anything, nor from those in which an overlap
and a lost write have both happened.

Deadlock is checked for `ServerIpc`, `Sideband` and `WorkerManager`, where the end of a
behaviour is an explicit stuttering step; together with `CallsAdvance`, whose rank falls at
every step of a call, its absence in `WorkerManager` says that every call returns.  In the
other runs behaviours stop at their bounds or when the system is done, and deadlock is not
checked.

**Fairness.**  `Sideband`: weak fairness of the server's reader thread, of the worker's IPC
thread, of R's main thread (R finishes each line it runs) and of the manager's steps that
finish a call in progress, together with a client that polls a pending request.
`PythonSession`: of the sideband reader, the console threads, the main thread and the reading
threads.  `WorkerProcess`: of whoever tears a worker down and of the reader and guardrail
threads.  All are operating-system threads that nothing stops.  An endless evaluation is a
request that rightly stays pending, and is excluded.  No fairness is assumed of clients,
interrupts, crashes, descendants or the worker's own exit.

## 5. Proofs

The theorems hold for every value of the constants that the named assumptions allow: any
number of messages, batches, calls, workers, inputs, interrupts or launches where the runs of
section 4 have one, two or three.  The assumptions are those of the modules themselves (TLC
evaluates each in the run of its module) and say only that bounds are numbers, that marker
values such as `None` are no members of the sets they are added to, what the items of an
output look like, and, for Windows, how paths lie to each other.  `NamedCorrect` alone has a
hypothesis of its own, `Roomy`.  Every inductive invariant below was checked by TLC on the run's
instance before it was proved.

| Module | Theorem | States | Inductive invariant |
|---|---|---|---|
| `SidebandProofs` | `TypeCorrect` | `TypeOK` | itself |
| | `ReadinessCorrect` | `ReadinessSpentOnce`, `FreshCompletion` | `ReadinessInv` |
| | `InterruptCorrect` | `SettledInterrupt` | `InterruptInv` |
| | `SessionEndCorrect`, `SessionEndLast` | `SessionEndOnce`; the action property `NothingAfterSessionEnd` | `SessionInv` |
| | `CompletionKept` | `CompletionNotHidden` | `ErrorInv` |
| | `PromptCorrect` | `FreshReadyAfterInterrupt` | `PromptInv` |
| | `LinesCorrect` | `LinesRunInOrder` | `LineOrder` |
| | `DiscardCorrect` | `InterruptDiscards` | `DiscardInv` |
| | `CompletionCorrect` | `CompletedMeansRead` | `PlaceInv`, `SyncInv` |
| `WorkerProcessProofs` | `TmpdirCorrect`, `TimelineCorrect` | `TmpdirKept`, `NoOutputFromOldSession` | `OwnershipInv` |
| `WorkerManagerProofs` | `CallsAdvanceCorrect` | the action property `CallsAdvance` | `PlaceInv` |
| | `PolicyCorrect` | the action property `RunsUnderCallPolicy` | `PolicyInv` |
| | `OrderCorrect` | `ShownInOrder` | `OrderInv` |
| | `OutcomeCorrect` | `OutcomeKept` | `OutcomeInv` |
| `PythonSessionProofs` | `ConsumedCorrect` | `ConsumedInOrder` | `ConsumeInv` |
| | `SettledCorrect` | `SettledMeansQuiet` | `SettleInv` |
| `WindowsLaunchProofs` | `LaunchCorrect` | `LaunchInv` | itself |
| | `ProtectedCorrect` | `ProtectedWhileRunning` | `ProtectInv` |
| | `CleanCorrect` | `NothingLeftBehind` | `LeftInv` |
| `PagerProofs` | `ClaimsCorrect`, `PagesCorrect` | `ClaimsAreTrue`, `PagesFollowOn` | `PagerInv` |
| `ConptyCaptureProofs` | `NoiseCorrect`, `SessionEndCorrect` | `OnlyNoiseRemoved`, `SessionEndLast` | `Inv` |
| `OutputBundlesProofs` | `BundlesCorrect` | `BundlesInv` | itself |
| | `QuotaCorrect`, `IndexCorrect`, `NamedCorrect` | `QuotaKept`, `IndexComplete`, `NamedBundleExists` | `BundlesInv` |

**`ServerIpc`** (`PromptAssumption`, `BoundAssumption`).  None of the properties is inductive,
because what a call reports depends on what the reader recorded earlier.  `ReadinessInv` adds
that a completion on record was read since the batch was admitted; `InterruptInv` that the
transaction's fields never run ahead of what the stream has said and that a closed
transaction is in its last phase; `SessionInv` that the flag, the queued message and the final
mark of a session end agree; `ErrorInv` that a latched error stops the reader, so that no
completion on record is younger than the error; `PromptInv` that a remembered prompt means the
last readiness was an `input_wait`.  In each proof `ReaderEffects` reduces every step of the
reader to five kinds, `CallEffects` every look of a blocking call to "blocks" or "returns with
what it takes", and one lemma per group of steps shows that the invariant survives.

**`Sideband`** (also `SidebandAssumption`).  `LineOrder` is the order along the whole way of a
line: stream, queue, the line in R's hands, R.  `DiscardInv` adds that a batch on the stream
which no interrupt follows was written after the last one.  `CompletedMeansRead` speaks of
behaviours before the first Ctrl-C (section 6 says why).  Its argument is that of a token:
`TurnInv` says that the turn is in one place, as readiness at the server, as an admitted batch,
as a batch on the stream, as an `input_wait` on the stream, or with the running worker;
`StreamInv` that what the worker sends is then acceptable to the server; `CalmInv` that no
interrupt is on its way.  Each needs the others, and `SyncInv` joins them.

**`WorkerProcess`** (`GenAssumption`).  An earlier worker is `Released`: gone, or with the
background reaper, which has neither the temp dir's path nor an open gate nor a reader of raw
output that has not ended.

**`WorkerManager`** (`PolicyAssumption`, `SetupAssumption`).  About thirty operators stand for
methods of the manager, so the proofs first say what each method keeps: `Steady` (worker and
policy), `Follows` (the order of output), `Alike` (the request).  `PolicyInv` says that a
running worker has the manager's policy except between the staging of a policy and the restart
that ends it, and that the call's metadata is in force or deferred.  `OrderInv` says that what was
shown, what the call holds, its context, the detached prefix, the reply-owned prefix and the
tape are in the order of production; it holds for setups whose respawns succeed.  `OutcomeInv`
says at which places of a call an outcome the client was not told is pending, settled or in
the call's own hands; it holds for a policy of the server's own and without a late session end
or a late warm start.  Both conditions are part of the properties and section 6 says what
happens without them.

**`PythonSession`** (`LinesAssumption`).  `ConsumeInv` says that everything in the open
payload, in the queue and on the stream lies behind the place up to which the input is done
with, and that these are in order; so nothing that is taken later was taken, discarded or left
of an ended payload.  `SettleInv` says, for
each phase of the server's transaction, where the interrupt is: on the stream, with the
reader, in flight with its handler, or joined.

**`WindowsLaunch`** (`AclAssumption`, `LaunchAssumption`: ancestors are transitive, temp
directories lie outside the workspace, protected directories and the ancestors of what exists
exist from the start, no stable SID is a launch's).  A list can be in many hands: on the path,
read and not yet written, or saved for a roll-back.  The invariants speak of all of them
(`Current`, `Saved`, `Lists`), and `StepKind` reduces the actions to a few kinds of change.
`LaunchInv` says that of each policy only the holder of its lock applies and restores, that what
existed stays, and that a denial always covers the tree.  `ProtectInv` says that, once an undisturbed
launch has completed its refresh, the stable SID's denial is on every list of the protected
directory or of one of its ancestors, in whosever hands, so that no cleanup without the lock
can lose it; that during the refresh it is on the current lists as far as the targets are done.
`LeftInv` says
that nobody names a launch before its overlay, that from then on its guards cover every list
that names it, and that a launch that is not spoiled can still be rolled back or has the target
still to do.

**Loops.**  The pager, the ConPTY filter and the bundle store compute in loops: over lines and
ranges, over raw bytes, over items and entries.  The models write each as a recursive function
of the round (`prune[k]`, `sum[k]`).  The library's induction theorems take a predicate as
a parameter, which the provers cannot instantiate, so each of these proof modules first shows
from the well-foundedness of `<` that a set of numbers has a least member, from that that a
set closed under successor holds every number (`Counting`, `CountingUp`), and from that that
the function of a loop exists and is unique.  Induction is then an argument about the set of
rounds after which an invariant holds.

**`Pager`** (`PagerAssumption`, `OutputAssumption`, `InputAssumption`).  `PagerInv` says that what
the pager has marked as seen, a reply has held, or `:hits` has cut off a line it listed
(section 6); that its view history holds only what a reply has held; and that buffer and pager
are well formed, so that cursor, lines and images lie inside the text.  The work is in the
operators: a page ends inside the buffer and after its start unless images fill it
(`Crowded`), a page that skips seen ranges shows all others, a search or a jump shows what it
marks.

**`ConptyCapture`** (`ScriptAssumption`, `TitleAssumption`).  `Inv` says of the filter that what it
holds is one run of raw bytes, the last ones read (`Good`); that every byte before it is shown
or was noise when it was removed; that whatever is shown arrived, each thing once; and which of
the three threads may still speak: before the final flush nothing is final (`NotFinal`), after
it everything is (`IsFinal`) and the end of the session is the last thing shown.

**`OutputBundles`** (`QuotaAssumption`, `SegmentAssumption`).  `BundlesInv` is about three things.
`StoreOK`: entries have distinct numbers and one directory each, an entry's bytes are those of
its files unless the directory is torn or gone, the files of a torn one still fit the bundle's
quota, with its reserved bytes an entry keeps that quota, the total is their sum, and a
directory has an index that covers it, or lists a part of it once it is torn, or none.  `ActiveOK`: the bundle that polls append to is
the newest one and `Tracks` its directory, that is, knows the length of its transcript, whether
it has images and how many came before the index; that is what makes an index that is written
late complete.  It is whole, because an append that fails gives its bundle up, and so is every
bundle the last reply named.  None is inductive alone:
the quota holds because an append never writes more than `prepare_append_capacity` granted
(`Room`, `GrowKeeps`), a failing one included, which holds because the index's rows were reserved when the images were
written; the entry is there because pruning spares the newest bundle.  A follow-up names two
bundles, the prefix's and its own.  The first is spared by the prune for the second
(`protected_bundle_id`), but by the appends to the second only if both fit in the total quota:
`PruneTotalPair` shows that pruning stops in front of the last two entries when
`2 * MaxBundleBytes <= MaxTotalBytes` (`Roomy`).  The defaults of `server/response.rs:32`, 1 GiB
of 2 GiB, satisfy it; section 6 says what happens without it.  The proof follows the code:
one lemma per function, from `RemoveStored` over `AppendItemsKeeps` (an append may fail in
any of its writes), `SegmentKeeps` and `PrefixKeeps` to `FinalizeReplyKeeps`, then one per call.

**Only model-checked.**
* Liveness (`BatchSettles`, `TeardownEnds`, `ServerIsAnswered`): fairness and ENABLED are beyond
  the prover.
* The refinement `ImplementsLog`, `CharactersWhole` and `DrainExposes` of `OutputTimeline`: the
  ring's trimming is a nest of loops over chunks and events whose results the properties compare
  byte by byte; it was not brought into the form above.
* `RequestKeptTogether` and `NothingLostSilently`: they follow single items through the
  rendering of a reply, of which `BundlesInv` keeps the bundle and the store only.
* `LineFeedInPlace`: it compares the places of a line feed in two sequences and needs an
  invariant about the order of what the filter holds across both readers.
* `HitsInOrder`: it counts matching lines, a cardinality over the search's whole index.
* The properties of `SandboxPlan`: what folds over lists of mounts make of a profile is a fact
  about each of a fixed set of profiles, and the run enumerates them.
* `WritableWhileRunning`: that a launch that is not spoiled keeps its own entries was not reduced to an
  invariant for more than two launches, where a late file's entry can be read by one cleanup,
  written by another and lost although the launch itself overlapped neither.

## 6. Findings

`SidebandStaleReady`: on Unix, Ctrl-C at an idle prompt is answered by the prompt already
on record; the next batch can then be completed by the prompt R shows when it returns
from the interrupt, before R has read the batch.

The models contain further disagreements with the documentation.  They have no run; the
properties of section 4 state the condition under which they hold.

*Sideband and manager*
* A protocol error met in the wait of a poll is returned without a reset
  (`worker_process/pending_poll.rs:249`); the request stays pending on a connection whose
  reader has ended.  `BatchSettles` therefore ends at the first Ctrl-C.
* On Unix the IPC interrupt wakes R by itself (`r_session.rs:166`);
  `docs/worker_sideband_protocol.md:86` says that it must not.
* Input sent while a timed-out request is pending first drains that request; if the drain
  meets the end of the session, the call is repeated under its metadata and the drained reply
  is dropped (`worker_process/write_preflight.rs:306`, `server.rs:368`).  `OutcomeKept` speaks
  of a fixed policy.
* A policy change sets the old output aside and respawns; when the spawn fails, that output
  waits for the next accepted input while polls already show the new worker's
  (`worker_process/session_lifecycle.rs:286`).  `ShownInOrder` speaks of respawns that succeed.
* A request sent to a worker whose end was already settled times out, and the reset after its
  reply (`worker_process/write_dispatch.rs:65`) forgets it; `warm_start` (`server.rs:657`), if
  it comes late, respawns an exited worker without settling its request.
* A poll that meets a guardrail kill resets the worker under the policy in force although it
  carries another one (`worker_process/write_preflight.rs:122`; `docs/sandbox.md:53`).
* A timed-out wait on an exited worker is an error (`worker_process/request_reply.rs:119`) that
  drops the detached output taken for it.

*Output*
* Retention may drop an event between a drain's read and its consume
  (`output_capture.rs:1153`), and the stale count then takes a newer one: with
  `DropsDuringDrain = TRUE` the refinement fails.
* Head retention cuts the ring's end without taking the offsets back, and
  `trim_range_to_complete_utf8` (`output_capture.rs:1683`) takes an offset for a count of bytes: a
  drain that keeps an incomplete character back behind such a gap consumes less than it shows,
  and shows the rest again.  With `TrimsOverGaps = TRUE` the refinement fails.
* A final drain, or one of pager mode, that reads the end of the ring between two chunks of one
  append may find a character cut in two and show its halves escaped (`output_capture.rs:787`,
  `:814`).  `CharactersWhole` excepts these bytes (`inside`).
* When a file operation of an append fails, a bundle that an earlier reply has named is kept as
  it is (`server/response.rs:1771`): its transcript or an image may be cut, its index may lack
  rows, and the bytes of the failed write are in no account, so the files of all bundles
  together may exceed the total quota by them.  No later reply names it or appends to it.
* In head retention a character cut by the limit stops a drain that is not final; an image
  that with its notice exceeds the ring drops older output without a notice, or vanishes in
  pager mode.  `RingAssumption` excludes such images.
* With a total quota below two bundles the prune for a new bundle takes the one a poll still
  names (`server/response.rs:1065`).
* A fresh request that times out without output reuses the previous bundle's path.
* Bytes that may begin a ConPTY frame are held back and overtaken by sideband events.

*Supervisor*
* After a worker exited by itself, the sweep that should kill "any remaining session peers"
  (`worker_supervisor.rs:2633`) finds none, since they have another parent by then.
* The guardrail thread of a worker in the background reaper still writes the shared event
  slot; an exit between the deadline and its re-check is reaped without being recorded.

*Pager*
* `:next` leaves the pager as soon as the rest fits one page (`pager/mod.rs:2265`), and `:help`,
  `:where` and `:range` close it too; `docs/tool-descriptions/repl_tool_r_pager.md:14` says
  that the remaining pages are consumed first.
* `:hits` marks a long line seen as a whole although it shows a snippet
  (`pager/search.rs:1493`); the pager then skips the rest of it.  The history `cut` records such
  lines, and `ClaimsAreTrue` and `PagesFollowOn` except them.
* Three images at one offset keep `:next` from advancing; empty input while output is pending
  polls, and may replace the pager.

*Python*
* A background reader that was interrupted waits again without republishing `input_wait`
  (`python_session.rs:1202`; `docs/worker_sideband_protocol.md:281`).
* With `MainWaitsBehind = TRUE`, a main thread that waits behind a background reader
  (`python_session.rs:1027`), `ServerIsAnswered` fails.
* On Unix an interrupt is taken by whichever thread sees it first; a background thread that
  marks the checkpoint after the main thread has joined leaves it set; the ready of a finished
  cell may follow a background reader's `input_wait`.

*Sandbox*
* A profile put as workspace-write reads the whole disk.  A read entry below a writable
  temporary directory is dropped by the projection, since the roots it is compared with
  (`is_under_any_root`, `sandbox.rs:1718`) leave the temporary ones out, and what it names becomes
  writable.  `ProfileHonoured` states the exception (`ReadBelowTemporary`); the instance has such
  profiles.
* Denials below denials and writable roots that are files give plans whose targets cannot be
  made; `TargetsReady` leaves them out.  Read entries below a denial are not exposed again;
  `PlanGrants` leaves them and the git directory of a worktree out, `PlanConfines` the metadata
  below the temporary directories.
* Windows: because cleanup takes no lock, and because launches of two policies have two locks,
  the read and the write of one launch's cleanup, preparation or roll-back can drop or resurrect
  another launch's entries.  Within one policy the stable SID's entries, which every list then
  holds, make up for it, and only the launch SID's own entries are at risk: a launch that
  overlapped is `spoiled`, is promised nothing for files made later, and may leave entries behind.
  Across policies nothing makes up for it.  A server whose policy changes, or two servers on one
  workspace, can have a launch A of one policy read `.git`'s list in its cleanup, a launch B of
  another deny under both its SIDs and start its worker, and A write its old list back; B's
  worker then may write `.git`.  A's roll-back under its own lock can do the same.  The two
  properties of running workers therefore speak of launches that are `Undisturbed`: they changed
  lists alone, or no launch of their policy ever did so together with one of another policy.
* Windows: the writes that take changes back ignore errors, so entries may stay.  A failed add
  leaves a directory it had made, and an entry revoked before it is not put back; a failure
  after the session temp was granted, and a killed wrapper, leave entries behind.

## 7. Not modelled

Installation, logging, HTML conversion, foreign-function glue and the macOS profile text have
no protocol of their own.  Left out although they have state: image ids
(`ipc/server_connection.rs:1101`), the helper thread of `send_with_timeout`
(`ipc/worker_connection.rs:63`; every such timeout after admission resets the worker), the
network proxy (`managed_network.rs`), the setup of Windows users and identities
(`windows_sandbox_setup.rs`), the R worker's checkpoint on Windows, and the manager's part in
the Windows interrupt transaction beyond the order of its calls.  Each component's note in
`PROJECT.json` says what is missing of it.
