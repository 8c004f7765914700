------------------------ MODULE WorkerProcessProofs ------------------------
(***************************************************************************)
(* Proofs about WorkerProcess, for any number of workers started one after *)
(* the other and any number of writes: the temp dir and the timeline,      *)
(* which all workers share, belong to the worker in use.                   *)
(*                                                                         *)
(* The argument is about ownership.  A worker is left behind in two ways   *)
(* only: it is gone, or the background reaper has it; and the reaper gets  *)
(* neither the path of the temp dir, nor an open gate, nor a reader of raw *)
(* output that has not ended.                                              *)
(***************************************************************************)
EXTENDS WorkerProcess, TLAPS

Pcs == {"none", "starting", "up", "soft", "term", "join_out", "join_ipc",
        "drop", "gone", "end_live", "end_dead"}
ReaperPcs == {"soft", "term", "join_out", "join_ipc", "drop", "gone"}

Procs ==
    [pc: Pcs, owner: {"server", "reaper"},
     root: {"none", "alive", "zombie", "reaped"},
     desc: {"none", "child", "away", "peer", "lost", "dead"},
     writes: Nat, raw: Nat, sideband: Nat,
     out: {"none", "reading", "asked", "done"}, ipc: {"none", "reading", "detached"},
     gate: BOOLEAN, guard: {"off", "watching", "decided"},
     known: BOOLEAN, finalized: BOOLEAN, tmp: BOOLEAN]

\* Neither the timeline nor the temp dir can be reached through q.
Harmless(q) == ~q.tmp /\ ~q.gate /\ q.out \in {"none", "done"}

\* The manager has nothing more to do with q.
Released(q) == q.pc = "gone" \/ q.owner = "reaper"

\* What holds of the worker of generation g whatever happens to the others.
Kept(q) ==
    /\ q \in Procs
    /\ Released(q) => Harmless(q)
    /\ q.owner = "reaper" => q.pc \in ReaperPcs
    /\ q.pc = "join_ipc" \/ q.finalized => q.out \in {"none", "done"}
    /\ q.pc = "end_live" => ~q.gate

\* The inductive invariant.
OwnershipInv ==
    /\ cur \in 0 .. MaxGen
    /\ p \in [Gens -> Procs]
    /\ \A g \in Gens : Kept(p[g])
    /\ \A g \in Gens : g < cur => Released(p[g])
    /\ \A g \in Gens : g > cur => p[g] = NotSpawned
    /\ TmpdirKept
    /\ NoOutputFromOldSession

-----------------------------------------------------------------------------
(* What the operators on a worker change.                                  *)

\* q and r differ at most in the state of the processes.
SameThreads(q, r) ==
    /\ r.pc = q.pc /\ r.owner = q.owner /\ r.out = q.out /\ r.ipc = q.ipc
    /\ r.gate = q.gate /\ r.guard = q.guard
    /\ r.finalized = q.finalized /\ r.tmp = q.tmp

\* An exit, a signal and a wait touch the processes only.
LEMMA SignalFacts ==
    ASSUME NEW q \in Procs
    PROVE  /\ Exited(q) \in Procs /\ SameThreads(q, Exited(q))
           /\ Sigkilled(q) \in Procs /\ SameThreads(q, Sigkilled(q))
           /\ DescendantsKilled(q) \in Procs /\ SameThreads(q, DescendantsKilled(q))
           /\ Reaped(q) \in Procs /\ SameThreads(q, Reaped(q))
           /\ [q EXCEPT !.root = "reaped"] \in Procs
           /\ SameThreads(q, [q EXCEPT !.root = "reaped"])
<1>1. Exited(q) \in Procs /\ SameThreads(q, Exited(q))
  BY DEF Procs, Exited, SameThreads
<1>2. Sigkilled(q) \in Procs /\ SameThreads(q, Sigkilled(q))
  BY DEF Procs, Sigkilled, SameThreads
<1>3. DescendantsKilled(q) \in Procs /\ SameThreads(q, DescendantsKilled(q))
  BY DEF Procs, DescendantsKilled, SameThreads
<1>4. Reaped(q) \in Procs /\ SameThreads(q, Reaped(q))
  BY DEF Procs, Reaped, SameThreads
<1>5. /\ [q EXCEPT !.root = "reaped"] \in Procs
      /\ SameThreads(q, [q EXCEPT !.root = "reaped"])
  BY DEF Procs, SameThreads
<1>. QED  BY <1>1, <1>2, <1>3, <1>4, <1>5

\* A kill and the wait for it do too.
LEMMA KilledFacts ==
    ASSUME NEW q \in Procs
    PROVE  Killed(q) \in Procs /\ SameThreads(q, Killed(q))
<1>1. Sigkilled(q) \in Procs /\ SameThreads(q, Sigkilled(q))
  BY SignalFacts
<1>2. Killed(q) \in Procs /\ SameThreads(Sigkilled(q), Killed(q))
  BY <1>1, SignalFacts DEF Killed
<1>. QED  BY <1>1, <1>2 DEF SameThreads

\* finalize_terminated_process leaves the threads to the joins.
LEMMA FinalizedFacts ==
    ASSUME NEW q \in Procs
    PROVE  /\ Finalized(q) \in Procs
           /\ Finalized(q).pc = "join_out" /\ Finalized(q).owner = q.owner
           /\ Finalized(q).out = q.out /\ Finalized(q).gate = q.gate
           /\ Finalized(q).tmp = q.tmp /\ Finalized(q).finalized = q.finalized
<1>. DEFINE r == IF q.known THEN DescendantsKilled(q) ELSE Sigkilled(q)
<1>1. r \in Procs /\ SameThreads(q, r)
  BY SignalFacts
<1>2. Finalized(q) = [r EXCEPT !.pc = "join_out"]
  BY DEF Finalized
<1>. HIDE DEF r
<1>. QED  BY <1>1, <1>2 DEF Procs, Pcs, SameThreads

-----------------------------------------------------------------------------
(* One worker changes.                                                     *)

\* q may follow r as the value of one worker: it is not given back to the
\* manager, and is in use only if r was.
Follows(r, q) ==
    /\ r # NotSpawned
    /\ Kept(q)
    /\ Released(r) => Released(q)
    /\ q.pc \in {"starting", "up"} => r.pc \in {"starting", "up"}

\* Such a step keeps the invariant, when only a worker that is not harmless
\* removes the temp dir, on its way out, or appends output.
LEMMA OneWorker ==
    ASSUME OwnershipInv, NEW g \in Gens, NEW q, To(g, q), Follows(p[g], q),
           UNCHANGED cur,
           \/ UNCHANGED tmpdir
           \/ ~Harmless(p[g]) /\ q.pc \notin {"starting", "up"},
           \/ UNCHANGED timeline
           \/ ~Harmless(p[g]) /\ Shown(g)
    PROVE  OwnershipInv'
<1>0. /\ cur \in 0 .. MaxGen /\ MaxGen \in Nat
      /\ p \in [Gens -> Procs] /\ q \in Procs /\ g \in 1 .. MaxGen
  BY GenAssumption DEF OwnershipInv, Follows, Kept, Gens
<1>1. /\ p' \in [Gens -> Procs] /\ p'[g] = q
      /\ \A h \in Gens \ {g} : p'[h] = p[h]
  BY <1>0 DEF To
<1>2. g <= cur
  BY <1>0 DEF Follows, OwnershipInv, Gens
<1>3. ~Harmless(p[g]) => g = cur
  BY <1>0, <1>2 DEF OwnershipInv, Kept
<1>4. \A h \in Gens : Kept(p'[h])
  BY <1>1 DEF OwnershipInv, Follows
<1>5. /\ \A h \in Gens : h < cur => Released(p'[h])
      /\ \A h \in Gens : h > cur => p'[h] = NotSpawned
  BY <1>0, <1>1, <1>2 DEF OwnershipInv, Follows, Gens
<1>6. TmpdirKept'
  <2>1. SUFFICES ASSUME cur # 0, p'[cur].pc \in {"starting", "up"}
                 PROVE  tmpdir' = cur
    BY DEF TmpdirKept
  <2>2. cur \in Gens
    BY <1>0, <2>1 DEF Gens
  <2>3. p[cur].pc \in {"starting", "up"}
    BY <1>1, <2>1, <2>2 DEF Follows
  <2>4. UNCHANGED tmpdir
    BY <1>1, <1>3, <2>1
  <2>. QED  BY <2>1, <2>3, <2>4 DEF OwnershipInv, TmpdirKept
<1>7. NoOutputFromOldSession'
  <2>1. CASE UNCHANGED timeline
    BY <2>1 DEF OwnershipInv, NoOutputFromOldSession
  <2>2. CASE ~Harmless(p[g]) /\ Shown(g)
    BY <1>3, <2>2 DEF OwnershipInv, NoOutputFromOldSession, Shown
  <2>. QED  BY <2>1, <2>2
<1>. QED  BY <1>0, <1>1, <1>4, <1>5, <1>6, <1>7 DEF OwnershipInv

\* The value of a worker that only loses processes follows it.
LEMMA SameThreadsFollow ==
    ASSUME NEW r, NEW q \in Procs, Kept(r), r # NotSpawned, SameThreads(r, q)
    PROVE  Follows(r, q)
BY DEF SameThreads, Follows, Kept, Released, Harmless

\* So does a finalized one, when its owner had not released it for good.
LEMMA FinalizedFollows ==
    ASSUME NEW r, NEW q \in Procs, Kept(r), r # NotSpawned, SameThreads(r, q),
           r.pc # "gone"
    PROVE  Follows(r, Finalized(q))
<1>1. /\ Finalized(q) \in Procs
      /\ Finalized(q).pc = "join_out" /\ Finalized(q).owner = q.owner
      /\ Finalized(q).out = q.out /\ Finalized(q).gate = q.gate
      /\ Finalized(q).tmp = q.tmp /\ Finalized(q).finalized = q.finalized
  BY FinalizedFacts
<1>. QED  BY <1>1 DEF SameThreads, Follows, Kept, Released, Harmless, ReaperPcs

-----------------------------------------------------------------------------
(* The steps.                                                              *)

\* The worker, its descendant and the threads that serve them.
LEMMA WorkerSteps ==
    ASSUME OwnershipInv, NEW g \in Gens, WorkerStep(g) \/ ThreadStep(g)
    PROVE  OwnershipInv'
<1>0. p[g] \in Procs /\ Kept(p[g])
  BY DEF OwnershipInv
<1>. USE DEF Others
<1>1. CASE Fork(g)
  <2>1. PICK d \in {"child", "away"} : To(g, [p[g] EXCEPT !.desc = d])
    BY <1>1 DEF Fork
  <2>. DEFINE q == [p[g] EXCEPT !.desc = d]
  <2>2. q \in Procs /\ SameThreads(p[g], q) /\ p[g] # NotSpawned
    BY <1>0, <1>1 DEF Fork, Running, Procs, SameThreads, NotSpawned
  <2>3. Follows(p[g], q)
    BY <1>0, <2>2, SameThreadsFollow
  <2>. HIDE DEF q
  <2>. QED  BY <1>1, <2>1, <2>3, OneWorker DEF Fork, q
<1>2. CASE RootExits(g)
  <2>1. p[g] # NotSpawned
    BY <1>2 DEF RootExits, Running, NotSpawned
  <2>2. Follows(p[g], Exited(p[g]))
    BY <1>0, <2>1, SignalFacts, SameThreadsFollow
  <2>. QED  BY <1>2, <2>2, OneWorker DEF RootExits
<1>3. CASE DescendantExits(g)
  <2>. DEFINE q == [p[g] EXCEPT !.desc = "dead"]
  <2>1. q \in Procs /\ SameThreads(p[g], q) /\ p[g] # NotSpawned
    BY <1>0, <1>3 DEF DescendantExits, Procs, SameThreads, NotSpawned
  <2>2. Follows(p[g], q)
    BY <1>0, <2>1, SameThreadsFollow
  <2>. HIDE DEF q
  <2>. QED  BY <1>3, <2>2, OneWorker DEF DescendantExits, q
<1>4. CASE Writes(g)
  <2>1. p[g] # NotSpawned
    BY <1>4 DEF Writes, Running, NotSpawned
  <2>. DEFINE a == [p[g] EXCEPT !.writes = @ + 1, !.raw = @ + 1]
              b == [p[g] EXCEPT !.writes = @ + 1, !.sideband = @ + 1]
  <2>2. a \in Procs /\ SameThreads(p[g], a) /\ b \in Procs /\ SameThreads(p[g], b)
    <3>1. p[g].writes + 1 \in Nat /\ p[g].raw + 1 \in Nat /\ p[g].sideband + 1 \in Nat
      BY <1>0 DEF Procs
    <3>2. a \in Procs /\ SameThreads(p[g], a)
      BY <1>0, <3>1 DEF Procs, SameThreads
    <3>3. b \in Procs /\ SameThreads(p[g], b)
      BY <1>0, <3>1 DEF Procs, SameThreads
    <3>. QED  BY <3>2, <3>3
  <2>3. \E q : q \in Procs /\ SameThreads(p[g], q) /\ To(g, q)
    <3>1. To(g, a) \/ To(g, b)
      BY <1>4 DEF Writes
    <3>. HIDE DEF a, b
    <3>. QED  BY <2>2, <3>1
  <2>4. PICK q : q \in Procs /\ SameThreads(p[g], q) /\ To(g, q)
    BY <2>3
  <2>5. Follows(p[g], q)
    BY <1>0, <2>1, <2>4, SameThreadsFollow
  <2>. QED  BY <1>4, <2>4, <2>5, OneWorker DEF Writes
<1>5. CASE GuardDecides(g)
  <2>. DEFINE q == [p[g] EXCEPT !.guard = "decided"]
  <2>1. Follows(p[g], q)
    BY <1>0, <1>5 DEF GuardDecides, NotSpawned, Follows, Kept, Procs, Released, Harmless
  <2>. HIDE DEF q
  <2>. QED  BY <1>5, <2>1, OneWorker DEF GuardDecides, q
<1>6. CASE ReadRaw(g)
  <2>. DEFINE q == [p[g] EXCEPT !.raw = 0]
  <2>1. q \in Procs /\ SameThreads(p[g], q) /\ p[g] # NotSpawned /\ ~Harmless(p[g])
    BY <1>0, <1>6 DEF ReadRaw, NotSpawned, Procs, SameThreads, Harmless
  <2>2. Follows(p[g], q)
    BY <1>0, <2>1, SameThreadsFollow
  <2>. HIDE DEF q
  <2>. QED  BY <1>6, <2>1, <2>2, OneWorker DEF ReadRaw, q
<1>7. CASE ReaderEnds(g)
  <2>. DEFINE q == [p[g] EXCEPT !.out = "done"]
  <2>1. Follows(p[g], q)
    BY <1>0, <1>7 DEF ReaderEnds, NotSpawned, Follows, Kept, Procs, Released, Harmless
  <2>. HIDE DEF q
  <2>. QED  BY <1>7, <2>1, OneWorker DEF ReaderEnds, q
<1>8. CASE ReadSideband(g)
  <2>. DEFINE q == [p[g] EXCEPT !.sideband = @ - 1]
  <2>1. q \in Procs /\ SameThreads(p[g], q) /\ p[g] # NotSpawned
    BY <1>0, <1>8 DEF ReadSideband, NotSpawned, Procs, SameThreads
  <2>2. Follows(p[g], q)
    BY <1>0, <2>1, SameThreadsFollow
  <2>3. UNCHANGED timeline \/ (~Harmless(p[g]) /\ Shown(g))
    BY <1>8 DEF ReadSideband, Harmless
  <2>. HIDE DEF q
  <2>. QED  BY <1>8, <2>2, <2>3, OneWorker DEF ReadSideband, q
<1>9. CASE GuardActs(g)
  <2>. DEFINE r == Sigkilled(p[g])
              q == [r EXCEPT !.guard = "off"]
  <2>1. r \in Procs /\ SameThreads(p[g], r) /\ p[g] # NotSpawned
    <3>1. p[g] # NotSpawned
      BY <1>9 DEF GuardActs, NotSpawned
    <3>. QED  BY <1>0, <3>1, SignalFacts
  <2>2. To(g, q)
    BY <1>9 DEF GuardActs
  <2>. HIDE DEF r
  <2>3. /\ q \in Procs
        /\ q.pc = p[g].pc /\ q.owner = p[g].owner /\ q.out = p[g].out
        /\ q.gate = p[g].gate /\ q.finalized = p[g].finalized /\ q.tmp = p[g].tmp
    BY <2>1 DEF SameThreads, Procs
  <2>4. Follows(p[g], q)
    BY <1>0, <2>1, <2>3 DEF Follows, Kept, Released, Harmless
  <2>. HIDE DEF q
  <2>. QED  BY <1>9, <2>2, <2>4, OneWorker DEF GuardActs
<1>. QED  BY <1>1, <1>2, <1>3, <1>4, <1>5, <1>6, <1>7, <1>8, <1>9
     DEF WorkerStep, ThreadStep

\* The steps of a teardown, by the manager's thread or by the reaper.
LEMMA TeardownSteps ==
    ASSUME OwnershipInv, NEW g \in Gens, TeardownStep(g)
    PROVE  OwnershipInv'
<1>0. p[g] \in Procs /\ Kept(p[g])
  BY DEF OwnershipInv
<1>. USE DEF Others
<1>1. CASE AskReader(g)
  <2>. DEFINE q == [p[g] EXCEPT !.out = "asked"]
  <2>1. Follows(p[g], q)
    BY <1>0, <1>1 DEF AskReader, Joining, NotSpawned, Follows, Kept, Procs,
                      Released, Harmless, ReaperPcs
  <2>. HIDE DEF q
  <2>. QED  BY <1>1, <2>1, OneWorker DEF AskReader, q
<1>2. CASE HandToReaper(g)
  <2>. DEFINE q == [Soft(p[g]) EXCEPT !.owner = "reaper", !.tmp = FALSE]
  <2>1. /\ q \in Procs /\ q.pc = "soft" /\ q.owner = "reaper"
        /\ ~q.tmp /\ q.gate = p[g].gate /\ q.out = p[g].out
    BY <1>0 DEF Soft, Procs, Pcs
  <2>. HIDE DEF q
  <2>2. p[g].pc = "end_live" /\ p[g].out = "done" /\ To(g, q)
    BY <1>2 DEF HandToReaper, q
  <2>3. ~p[g].gate
    BY <1>0, <2>2 DEF Kept
  <2>4. Follows(p[g], q)
    BY <1>0, <2>1, <2>2, <2>3 DEF NotSpawned, Follows, Kept, Released, Harmless, ReaperPcs
  <2>. QED  BY <1>2, <2>2, <2>4, OneWorker DEF HandToReaper
<1>3. CASE EndDead(g)
  <2>. DEFINE q == [Cleaned(p[g]) EXCEPT !.ipc = "detached", !.pc = "drop"]
  <2>0. /\ q \in Procs /\ q.pc = "drop" /\ q.owner = p[g].owner
        /\ ~q.tmp /\ q.gate = p[g].gate /\ q.out = p[g].out
    <3>. DEFINE r == Cleaned(p[g])
    <3>1. /\ r \in Procs /\ ~r.tmp
          /\ r.owner = p[g].owner /\ r.gate = p[g].gate /\ r.out = p[g].out
      BY <1>0 DEF Cleaned, Procs
    <3>. HIDE DEF r
    <3>. DEFINE t == [r EXCEPT !.ipc = "detached"]
    <3>2. /\ t \in Procs /\ ~t.tmp
          /\ t.owner = r.owner /\ t.gate = r.gate /\ t.out = r.out
      BY <3>1 DEF Procs
    <3>3. q = [t EXCEPT !.pc = "drop"]
      BY DEF r
    <3>. HIDE DEF t, q
    <3>. QED  BY <3>1, <3>2, <3>3 DEF Procs, Pcs
  <2>1. Follows(p[g], q) /\ q.pc \notin {"starting", "up"}
    <3>1. p[g].pc = "end_dead" /\ p[g].out = "done"
      BY <1>3 DEF EndDead
    <3>. HIDE DEF q
    <3>. QED  BY <1>0, <2>0, <3>1 DEF NotSpawned, Follows, Kept, Released, Harmless, ReaperPcs
  <2>2. UNCHANGED tmpdir \/ ~Harmless(p[g])
    BY <1>3 DEF EndDead, Harmless
  <2>. HIDE DEF q
  <2>. QED  BY <1>3, <2>1, <2>2, OneWorker DEF EndDead, q
<1>4. CASE SoftWait(g)
  <2>0. p[g] # NotSpawned /\ p[g].pc = "soft"
    BY <1>4 DEF SoftWait, NotSpawned
  <2>. DEFINE r == [p[g] EXCEPT !.root = "reaped"]
              q == [p[g] EXCEPT !.pc = "term"]
  <2>1. Follows(p[g], Finalized(Reaped(p[g]))) /\ Follows(p[g], Finalized(r))
    BY <1>0, <2>0, SignalFacts, FinalizedFollows
  <2>2. Follows(p[g], q)
    BY <1>0, <2>0 DEF Follows, Kept, Procs, Released, Harmless, ReaperPcs, Pcs
  <2>3. \/ To(g, Finalized(Reaped(p[g]))) \/ To(g, Finalized(r)) \/ To(g, q)
    BY <1>4 DEF SoftWait
  <2>. HIDE DEF r, q
  <2>. QED  BY <1>4, <2>1, <2>2, <2>3, OneWorker DEF SoftWait
<1>5. CASE TermWait(g)
  <2>0. p[g] # NotSpawned /\ p[g].pc = "term"
    BY <1>5 DEF TermWait, NotSpawned
  <2>1. /\ Follows(p[g], Finalized(Reaped(p[g])))
        /\ Follows(p[g], Finalized(Killed(p[g])))
    BY <1>0, <2>0, SignalFacts, KilledFacts, FinalizedFollows
  <2>. QED  BY <1>5, <2>1, OneWorker DEF TermWait
<1>6. CASE JoinOut(g)
  <2>. DEFINE q == [p[g] EXCEPT !.pc = "join_ipc"]
  <2>1. Follows(p[g], q)
    BY <1>0, <1>6 DEF JoinOut, NotSpawned, Follows, Kept, Procs, Released,
                      Harmless, ReaperPcs, Pcs
  <2>. HIDE DEF q
  <2>. QED  BY <1>6, <2>1, OneWorker DEF JoinOut, q
<1>7. CASE JoinIpc(g)
  <2>. DEFINE q == [p[g] EXCEPT !.finalized = TRUE, !.pc = "drop"]
  <2>0. /\ q \in Procs /\ q.pc = "drop" /\ q.owner = p[g].owner
        /\ q.tmp = p[g].tmp /\ q.gate = p[g].gate /\ q.out = p[g].out
    BY <1>0 DEF Procs, Pcs
  <2>1. Follows(p[g], q)
    <3>1. p[g].pc = "join_ipc"
      BY <1>7 DEF JoinIpc
    <3>. HIDE DEF q
    <3>. QED  BY <1>0, <2>0, <3>1 DEF NotSpawned, Follows, Kept, Released, Harmless, ReaperPcs
  <2>. HIDE DEF q
  <2>. QED  BY <1>7, <2>1, OneWorker DEF JoinIpc, q
<1>8. CASE StopGuardrail(g)
  <2>. DEFINE q == [p[g] EXCEPT !.guard = "off"]
  <2>1. Follows(p[g], q)
    BY <1>0, <1>8 DEF StopGuardrail, NotSpawned, Follows, Kept, Procs, Released, Harmless
  <2>. HIDE DEF q
  <2>. QED  BY <1>8, <2>1, OneWorker DEF StopGuardrail, q
<1>9. CASE TerminateForDrop(g)
  <2>0. p[g] # NotSpawned /\ p[g].pc = "drop"
    BY <1>9 DEF TerminateForDrop, NotSpawned
  <2>. DEFINE q == IF p[g].known THEN p[g]
                   ELSE IF Running(p[g]) THEN Killed(p[g]) ELSE Reaped(p[g])
  <2>1. q \in Procs /\ SameThreads(p[g], q)
    BY <1>0, SignalFacts, KilledFacts DEF SameThreads
  <2>2. To(g, Finalized(q))
    BY <1>9 DEF TerminateForDrop
  <2>. HIDE DEF q
  <2>3. Follows(p[g], Finalized(q))
    BY <1>0, <2>0, <2>1, FinalizedFollows
  <2>. QED  BY <1>9, <2>2, <2>3, OneWorker DEF TerminateForDrop
<1>10. CASE DropTmpdir(g)
  <2>. DEFINE q == [NotSpawned EXCEPT !.pc = "gone", !.owner = p[g].owner,
                                      !.root = p[g].root, !.out = p[g].out,
                                      !.guard = p[g].guard]
  <2>0. /\ q \in Procs /\ q.pc = "gone" /\ q.owner = p[g].owner
        /\ ~q.tmp /\ ~q.gate /\ q.out = p[g].out
    <3>1. /\ p[g].owner \in {"server", "reaper"}
          /\ p[g].root \in {"none", "alive", "zombie", "reaped"}
          /\ p[g].out \in {"none", "reading", "asked", "done"}
          /\ p[g].guard \in {"off", "watching", "decided"}
      BY <1>0 DEF Procs
    <3>2. q \in Procs
      BY <3>1 DEF NotSpawned, Procs, Pcs
    <3>. QED  BY <3>2 DEF NotSpawned
  <2>1. Follows(p[g], q) /\ q.pc \notin {"starting", "up"}
    <3>1. p[g].pc = "drop" /\ p[g].finalized /\ p[g] # NotSpawned
      BY <1>10 DEF DropTmpdir, NotSpawned
    <3>. HIDE DEF q
    <3>. QED  BY <1>0, <2>0, <3>1 DEF Follows, Kept, Released, Harmless, ReaperPcs
  <2>2. UNCHANGED tmpdir \/ ~Harmless(p[g])
    BY <1>10 DEF DropTmpdir, Harmless
  <2>. HIDE DEF q
  <2>. QED  BY <1>10, <2>1, <2>2, OneWorker DEF DropTmpdir, q
<1>. QED  BY <1>1, <1>2, <1>3, <1>4, <1>5, <1>6, <1>7, <1>8, <1>9, <1>10
     DEF TeardownStep

\* The manager's own steps on the worker in use.
LEMMA ManagerSteps ==
    ASSUME OwnershipInv, ManagerStep
    PROVE  OwnershipInv'
<1>0. cur \in Gens /\ p[cur] \in Procs /\ Kept(p[cur])
  BY GenAssumption DEF OwnershipInv, ManagerStep, Gens
<1>1. p[cur].pc \in {"starting", "up"} /\ p[cur] # NotSpawned
  BY DEF ManagerStep, Ready, SpawnError, ShutdownGraceful, Kill, NoticeExit,
         FinishExited, DropWorker, FinishSessionEnd, NotSpawned
<1>2. p[cur].owner = "server"
  BY <1>0, <1>1 DEF Kept, ReaperPcs, Procs
<1>3. ASSUME NEW q, To(cur, q), Others, Follows(p[cur], q) PROVE OwnershipInv'
  BY <1>0, <1>3, OneWorker DEF Others
<1>4. ASSUME NEW q \in Procs, q.owner = "server", q.pc \in {"starting", "up", "soft", "drop", "end_live", "end_dead"},
             q.pc = "end_live" => ~q.gate,
             q.finalized => q.out \in {"none", "done"}
      PROVE  Follows(p[cur], q)
  BY <1>1, <1>2, <1>4 DEF Follows, Kept, Released, Harmless
<1>5. /\ Follows(p[cur], Finalized(Killed(p[cur])))
      /\ Follows(p[cur], Finalized(Reaped(p[cur])))
      /\ Follows(p[cur], Reaped(p[cur]))
  BY <1>0, <1>1, SignalFacts, KilledFacts, FinalizedFollows, SameThreadsFollow
<1>6. CASE SpawnError \/ Kill \/ NoticeExit \/ FinishExited
  BY <1>3, <1>5, <1>6 DEF SpawnError, Kill, NoticeExit, FinishExited
<1>7. CASE Ready \/ ShutdownGraceful \/ DropWorker
  <2>1. ASSUME NEW pc \in {"up", "soft", "drop"}
        PROVE  Follows(p[cur], [p[cur] EXCEPT !.pc = pc])
    <3>. DEFINE q == [p[cur] EXCEPT !.pc = pc]
    <3>1. /\ q \in Procs /\ q.owner = "server" /\ q.pc = pc
          /\ q.finalized = p[cur].finalized /\ q.out = p[cur].out
      BY <1>0, <1>2 DEF Procs, Pcs
    <3>2. q.finalized => q.out \in {"none", "done"}
      BY <1>0, <3>1 DEF Kept
    <3>. HIDE DEF q
    <3>3. Follows(p[cur], q)
      BY <1>4, <3>1, <3>2
    <3>. QED  BY <3>3 DEF q
  <2>. QED  BY <1>3, <1>7, <2>1 DEF Ready, ShutdownGraceful, Soft, DropWorker
<1>8. CASE FinishSessionEnd
  <2>. DEFINE q == [p[cur] EXCEPT !.gate = FALSE]
              live == [q EXCEPT !.pc = "end_live"]
              r == DescendantsKilled(Reaped(q))
              dead == [r EXCEPT !.pc = "end_dead"]
  <2>1. To(cur, live) \/ To(cur, dead)
    BY <1>8 DEF FinishSessionEnd
  <2>2. q \in Procs /\ ~q.gate /\ q.owner = "server" /\ (q.finalized => q.out \in {"none", "done"})
    BY <1>0, <1>2 DEF Procs, Kept
  <2>. HIDE DEF q
  <2>3. r \in Procs /\ SameThreads(q, r)
    <3>1. Reaped(q) \in Procs /\ SameThreads(q, Reaped(q))
      BY <2>2, SignalFacts
    <3>2. r \in Procs /\ SameThreads(Reaped(q), r)
      BY <3>1, SignalFacts
    <3>. QED  BY <3>1, <3>2 DEF SameThreads
  <2>. HIDE DEF r
  <2>4. /\ live \in Procs /\ live.owner = "server" /\ live.pc = "end_live" /\ ~live.gate
        /\ live.finalized => live.out \in {"none", "done"}
    BY <2>2 DEF Procs, Pcs
  <2>5. /\ dead \in Procs /\ dead.owner = "server" /\ dead.pc = "end_dead"
        /\ dead.finalized => dead.out \in {"none", "done"}
    BY <2>2, <2>3 DEF SameThreads, Procs, Pcs
  <2>. HIDE DEF live, dead
  <2>6. Follows(p[cur], live) /\ Follows(p[cur], dead)
    BY <1>4, <2>4, <2>5
  <2>. QED  BY <1>3, <1>8, <2>1, <2>6 DEF FinishSessionEnd
<1>. QED  BY <1>6, <1>7, <1>8 DEF ManagerStep

\* A worker is started once the last one is released; the temp dir becomes its.
LEMMA SpawnStep ==
    ASSUME OwnershipInv, Spawn
    PROVE  OwnershipInv'
<1>. DEFINE n == cur + 1
<1>0. /\ MaxGen \in Nat /\ cur \in 0 .. MaxGen /\ n \in Gens /\ cur' = n /\ tmpdir' = n
      /\ p \in [Gens -> Procs]
  BY GenAssumption DEF Spawn, OwnershipInv, Gens
<1>1. PICK q \in {Attached, NoWorker} : To(n, q)
  BY DEF Spawn
<1>2. q \in Procs /\ Kept(q)
  <2>1. Attached \in Procs /\ Kept(Attached)
    BY DEF Attached, NotSpawned, Procs, Pcs, Kept, Released, Harmless
  <2>2. NoWorker \in Procs /\ Kept(NoWorker)
    BY DEF NoWorker, NotSpawned, Procs, Pcs, Kept, Released, Harmless
  <2>. QED  BY <2>1, <2>2
<1>3. p' \in [Gens -> Procs] /\ p'[n] = q /\ \A h \in Gens \ {n} : p'[h] = p[h]
  BY <1>0, <1>1, <1>2 DEF To
<1>4. \A h \in Gens : Kept(p'[h])
  BY <1>2, <1>3 DEF OwnershipInv
<1>5. \A h \in Gens : h < n => Released(p'[h])
  <2>1. \A h \in Gens : h < n => (h < cur \/ h = cur) /\ h # n
    BY <1>0 DEF Gens
  <2>2. \A h \in Gens : h = cur => Released(p[h])
    BY DEF Spawn, Free, Released
  <2>. QED  BY <1>3, <2>1, <2>2 DEF OwnershipInv
<1>6. \A h \in Gens : h > n => p'[h] = NotSpawned
  <2>1. \A h \in Gens : h > n => h > cur /\ h # n
    BY <1>0 DEF Gens
  <2>. QED  BY <1>3, <2>1 DEF OwnershipInv
<1>7. TmpdirKept' /\ NoOutputFromOldSession'
  BY <1>0 DEF TmpdirKept, Spawn, OwnershipInv, NoOutputFromOldSession
<1>8. n \in 0 .. MaxGen
  BY <1>0 DEF Gens
<1>. QED  BY <1>0, <1>3, <1>4, <1>5, <1>6, <1>7, <1>8 DEF OwnershipInv

\* Before the first worker nothing is shared.
LEMMA OwnershipInit == Init => OwnershipInv
<1>. SUFFICES ASSUME Init PROVE OwnershipInv
  OBVIOUS
<1>1. NotSpawned \in Procs /\ Kept(NotSpawned)
  BY DEF NotSpawned, Procs, Pcs, Kept, Released, Harmless
<1>2. cur = 0 /\ 0 \in 0 .. MaxGen /\ \A g \in Gens : ~(g < 0)
  BY GenAssumption DEF Init, Gens
<1>. QED  BY <1>1, <1>2
     DEF Init, OwnershipInv, TmpdirKept, NoOutputFromOldSession

\* The invariant is inductive.
LEMMA OwnershipStep == OwnershipInv /\ [Next]_vars => OwnershipInv'
<1>. SUFFICES ASSUME OwnershipInv, [Next]_vars PROVE OwnershipInv'
  OBVIOUS
<1>1. CASE UNCHANGED vars
  BY <1>1 DEF vars, OwnershipInv, TmpdirKept, NoOutputFromOldSession
<1>. QED  BY <1>1, WorkerSteps, TeardownSteps, ManagerSteps, SpawnStep DEF Next

\* The temp dir of the worker in use is its own and is not removed under it,
\* however long earlier workers take to be torn down.
THEOREM TmpdirCorrect == Spec => []TmpdirKept
<1>1. OwnershipInv => TmpdirKept
  BY DEF OwnershipInv
<1>. QED  BY <1>1, OwnershipInit, OwnershipStep, PTL DEF Spec

\* No output of an earlier worker, of its descendant or of a reader thread
\* that outlives it reaches the timeline once the next worker is started.
THEOREM TimelineCorrect == Spec => []NoOutputFromOldSession
<1>1. OwnershipInv => NoOutputFromOldSession
  BY DEF OwnershipInv
<1>. QED  BY <1>1, OwnershipInit, OwnershipStep, PTL DEF Spec
=============================================================================
