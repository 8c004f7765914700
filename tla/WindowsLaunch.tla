---------------------------- MODULE WindowsLaunch ----------------------------
(***************************************************************************)
(* Sandboxed launches on Windows (windows_sandbox.rs): the server prepares *)
(* the entries of the stable SID, the wrapper refreshes them and adds its  *)
(* own for the run, both under a lock per stable SID; a failure rolls      *)
(* back, and the wrapper takes its entries away at the end, without the    *)
(* lock.  Every change of a list is a read and a later write.  Launches    *)
(* may belong to one server or to several with the same workspace; the     *)
(* stable SID, and with it the lock, is that of the launch's policy.       *)
(***************************************************************************)
EXTENDS WindowsAcl

CONSTANTS
    Launches,    \* the launches, each named by its launch SID
    Policies,    \* the policies on the workspace, each named by its stable SID
    Missing,     \* roots that do not exist yet
    Late,        \* files a worker may create while it runs
    Temp,        \* the session's temporary directory of each launch
    MaxLost      \* bound on the writes that fail when a change is taken back

(* The protected directories are there from the start; what is there lies  *)
(* in directories that are.                                                *)
Lasting == Paths \ (Late \cup Missing)
ASSUME LaunchAssumption ==
    /\ Temp \in [Launches -> Temps]
    /\ Policies \cap Launches = {}
    /\ MaxLost \in Nat
    /\ Late \subseteq Walk
    /\ Missing \subseteq Roots
    /\ Protected \subseteq Lasting
    /\ \A p \in Lasting : Up[p] \subseteq Lasting

VARIABLES
    policy,      \* the policy of each launch
    at,          \* how far each launch has come
    lock,        \* the launches that hold the prepared-launch lock of their policy
    acl,         \* explicit entries of every path
    exists,      \* the paths that exist
    todo,        \* targets each launch has still to handle
    read,        \* the list a launch has read and not yet written
    restores,    \* lists to restore if the step under way fails
    guards,      \* entries to take away at the end
    known,       \* paths that existed when the wrapper refreshed the entries
    spoiled,     \* history: launches whose changes overlapped those of another, or
                 \* that failed to take one back
    mixed,       \* history: policies with a launch that overlapped one of another policy
    lost         \* the writes that failed when a change was taken back

vars == <<policy, at, lock, acl, exists, todo, read, restores, guards, known,
          spoiled, mixed, lost>>

Nothing == [task |-> Task("none", "none"), own |-> {}, seen |-> {}, made |-> FALSE]
Locked == {"prepare", "refresh", "overlay", "undo prepare", "undo refresh", "undo overlay"}
Cleaning == {"cleaning"}

Init ==
    /\ policy \in [Launches -> Policies]
    /\ at = [l \in Launches |-> "idle"]
    /\ lock = {}
    /\ acl = [p \in Paths |-> {}]
    /\ exists = Lasting
    /\ todo = [l \in Launches |-> {}]
    /\ read = [l \in Launches |-> Nothing]
    /\ restores = [l \in Launches |-> <<>>]
    /\ guards = [l \in Launches |-> {}]
    /\ known = [l \in Launches |-> {}]
    /\ spoiled = {} /\ mixed = {} /\ lost = 0

(* Launches that change lists at the same time.                            *)
Cross(next) ==
    LET busy == {l \in Launches : next[l] \in Locked \cup Cleaning}
    IN  /\ spoiled' = IF \E j, k \in busy : j # k THEN spoiled \cup busy ELSE spoiled
        /\ mixed' = IF \E j, k \in busy : policy[j] # policy[k]
                    THEN mixed \cup {policy[k] : k \in busy} ELSE mixed

Goes(l, stage) ==
    /\ at' = [at EXCEPT ![l] = stage] /\ Cross(at')
    /\ UNCHANGED <<policy, lost>>
Same == UNCHANGED <<policy, at, spoiled, mixed, lost>>

(* A list that is to be taken back is written, or that fails and nobody    *)
(* notices.                                                                *)
Loses(l) ==
    /\ lost < MaxLost
    /\ lost' = lost + 1
    /\ spoiled' = spoiled \cup {l}
    /\ UNCHANGED <<policy, at, mixed>>

(* acquire_prepared_launch_acl_lock: the lock is named after the SID.      *)
Acquire(l) ==
    /\ \A k \in lock : policy[k] # policy[l]
    /\ lock' = lock \cup {l}
Release(l) == lock' = lock \ {l}

(* prepare_sandbox_launch_with_network_identity (the roots only) or        *)
(* refresh_prepared_sandbox_launch_acl_state (and their children).         *)
Prepare(l, depth) ==
    /\ at[l] = "idle"
    /\ Acquire(l)
    /\ todo' = [todo EXCEPT ![l] = Targets(exists, depth)]
    /\ Goes(l, "prepare")
    /\ UNCHANGED <<acl, exists, read, restores, guards, known>>

(* The wrapper: refresh_runtime_prepared_launch_acl_state_unlocked.        *)
Refresh(l) ==
    /\ at[l] = "prepared"
    /\ Acquire(l)
    /\ todo' = [todo EXCEPT ![l] = Targets(exists, Len(Order))]
    /\ known' = [known EXCEPT ![l] = exists]
    /\ Goes(l, "refresh")
    /\ UNCHANGED <<acl, exists, read, restores, guards>>

(* capture_prepared_launch_acl_restore and the read of the list; a missing *)
(* root is created, any other missing target is passed over.               *)
ReadTarget(l) ==
    /\ at[l] \in {"prepare", "refresh", "overlay"}
    /\ read[l] = Nothing
    /\ todo[l] # {}
    /\ LET t == NextTask(todo[l])
       IN  IF t.path \in exists \cup Roots
           THEN /\ exists' = exists \cup {t.path}
                /\ read' = [read EXCEPT ![l] =
                        [task |-> t, own |-> acl[t.path], seen |-> Seen(acl, t.path),
                         made |-> t.path \notin exists]]
                /\ UNCHANGED todo
           ELSE /\ todo' = [todo EXCEPT ![l] = @ \ {t}]
                /\ UNCHANGED <<exists, read>>
    /\ Same /\ UNCHANGED <<lock, acl, restores, guards, known>>

(* apply_allow_acl_targets and apply_deny_acl_targets: the stable SID does *)
(* not inherit from the workspace, the launch SID does.                    *)
WriteTarget(l) ==
    /\ at[l] \in {"prepare", "refresh", "overlay"}
    /\ read[l] # Nothing
    /\ read[l].task.path \in exists
    /\ LET t == read[l].task
           own == read[l].own
           seen == read[l].seen
           overlay == at[l] = "overlay"
           sid == IF overlay THEN l ELSE policy[l]
           new == IF t.kind = "deny" THEN WithDeny(own, seen, sid)
                  ELSE WithAllow(t.path, own, seen, sid, overlay, t.path # First(Roots))
       IN  /\ acl' = IF new = own THEN acl ELSE [acl EXCEPT ![t.path] = new]
           /\ restores' = IF new = own /\ ~read[l].made THEN restores
                          ELSE [restores EXCEPT ![l] =
                                  Append(@, [path |-> t.path, own |-> own, made |-> read[l].made])]
           /\ guards' = IF overlay /\ (new # own \/ t.path \in Dirs)
                        THEN [guards EXCEPT ![l] = @ \cup {t}] ELSE guards
           /\ todo' = [todo EXCEPT ![l] = @ \ {t}]
    /\ read' = [read EXCEPT ![l] = Nothing]
    /\ Same /\ UNCHANGED <<lock, exists, known>>

(* A protected descendant that may not be changed is passed over.          *)
SkipDenied(l) ==
    /\ at[l] \in {"prepare", "refresh", "overlay"}
    /\ read[l] # Nothing
    /\ read[l].task.kind = "deny"
    /\ read[l].task.path \notin Protected
    /\ todo' = [todo EXCEPT ![l] = @ \ {read[l].task}]
    /\ read' = [read EXCEPT ![l] = Nothing]
    /\ Same /\ UNCHANGED <<lock, acl, exists, restores, guards, known>>

(* Any other failure: cleanup_prepared_launch_acl_state restores the lists *)
(* changed in this step, last one first, and removes the directories that  *)
(* it made, if they are still empty.                                       *)
ApplyFails(l) ==
    /\ at[l] \in {"prepare", "refresh", "overlay"}
    /\ todo[l] # {}
    /\ Goes(l, CASE at[l] = "prepare" -> "undo prepare"
                 [] at[l] = "refresh" -> "undo refresh"
                 [] at[l] = "overlay" -> "undo overlay")
    /\ todo' = [todo EXCEPT ![l] = {}]
    /\ read' = [read EXCEPT ![l] = Nothing]
    /\ UNCHANGED <<lock, acl, exists, restores, guards, known>>

(* There is no list to write where a launch of another policy has removed  *)
(* the directory.                                                          *)
Restore(l, written) ==
    /\ at[l] \in {"undo prepare", "undo refresh", "undo overlay"}
    /\ restores[l] # <<>>
    /\ LET n == Len(restores[l])
           last == restores[l][n]
           empty == last.made /\ \A p \in exists : last.path \notin Up[p]
       IN  /\ acl' = [acl EXCEPT ![last.path] =
                        IF empty THEN {} ELSE IF written /\ last.path \in exists THEN last.own ELSE @]
           /\ exists' = IF empty THEN exists \ {last.path} ELSE exists
           /\ restores' = [restores EXCEPT ![l] = SubSeq(@, 1, n - 1)]
    /\ IF written THEN Same ELSE Loses(l)
    /\ UNCHANGED <<lock, guards, todo, read, known>>

RestoreDone(l) ==
    /\ at[l] \in {"undo prepare", "undo refresh", "undo overlay"}
    /\ restores[l] = <<>>
    /\ Goes(l, "failed")
    /\ Release(l)
    /\ guards' = [guards EXCEPT ![l] = {}]
    /\ UNCHANGED <<acl, exists, restores, todo, read, known>>

(* A step is complete.  After the refresh the live marker is created and   *)
(* apply_runtime_launch_acl_state_unlocked follows under the same lock.    *)
StepDone(l) ==
    /\ at[l] \in {"prepare", "refresh", "overlay"}
    /\ todo[l] = {}
    /\ Goes(l, CASE at[l] = "prepare" -> "prepared"
                 [] at[l] = "refresh" -> "overlay"
                 [] at[l] = "overlay" -> "overlaid")
    /\ todo' = [todo EXCEPT ![l] = IF at[l] = "refresh" THEN Targets(exists, Len(Order)) ELSE {}]
    /\ restores' = [restores EXCEPT ![l] = <<>>]
    /\ IF at[l] = "refresh" THEN UNCHANGED lock ELSE Release(l)
    /\ UNCHANGED <<acl, exists, read, guards, known>>

(* create_prepared_launch_live_marker fails: what was refreshed stays.     *)
MarkerFails(l) ==
    /\ at[l] = "refresh"
    /\ todo[l] = {}
    /\ Goes(l, "failed")
    /\ restores' = [restores EXCEPT ![l] = <<>>]
    /\ Release(l)
    /\ UNCHANGED <<acl, exists, todo, read, guards, known>>

(* apply_session_temp_launch_acl, then the worker is started.              *)
StartWorker(l) ==
    /\ at[l] = "overlaid"
    /\ acl' = [acl EXCEPT ![Temp[l]] =
            Without(@, policy[l], "allow") \cup {Ace(l, "allow", "tree"), Ace(l, "allow", "only")}]
    /\ guards' = [guards EXCEPT ![l] = @ \cup {Task("allow", Temp[l])}]
    /\ Goes(l, "running")
    /\ UNCHANGED <<lock, exists, todo, read, restores, known>>

(* apply_session_temp_launch_acl fails after it has added its entry, for   *)
(* which no guard is kept.                                                 *)
TempFails(l) ==
    /\ at[l] = "overlaid"
    /\ acl' = [acl EXCEPT ![Temp[l]] = @ \cup {Ace(l, "allow", "tree"), Ace(l, "allow", "only")}]
    /\ todo' = [todo EXCEPT ![l] = CleanTargets(guards[l], exists)]
    /\ Goes(l, "cleaning")
    /\ UNCHANGED <<lock, exists, read, restores, guards, known>>

(* The worker creates a file where it may write.                           *)
WorkerCreates(l, p) ==
    /\ at[l] = "running"
    /\ p \in Late \ exists
    /\ \A q \in Up[p] : q \in exists /\ MayWrite(acl, q, policy[l], l)
    /\ exists' = exists \cup {p}
    /\ Same /\ UNCHANGED <<lock, acl, todo, read, restores, guards, known>>

(* The worker has ended, or could not be started.                          *)
WorkerEnds(l) ==
    /\ at[l] \in {"overlaid", "running"}
    /\ todo' = [todo EXCEPT ![l] = CleanTargets(guards[l], exists)]
    /\ Goes(l, "cleaning")
    /\ UNCHANGED <<lock, acl, exists, read, restores, guards, known>>

(* cleanup_capability_acl_state; a path that is gone is passed over.       *)
ReadGuard(l) ==
    /\ at[l] = "cleaning"
    /\ read[l] = Nothing
    /\ todo[l] # {}
    /\ LET t == NextGuard(guards[l], todo[l])
       IN  IF t.path \in exists
           THEN /\ read' = [read EXCEPT ![l] =
                       [task |-> t, own |-> acl[t.path], seen |-> Seen(acl, t.path), made |-> FALSE]]
                /\ UNCHANGED todo
           ELSE /\ todo' = [todo EXCEPT ![l] = @ \ {t}]
                /\ UNCHANGED read
    /\ Same /\ UNCHANGED <<lock, acl, exists, restores, guards, known>>

WriteGuard(l) ==
    /\ at[l] = "cleaning"
    /\ read[l] # Nothing
    /\ LET t == read[l].task
       IN  /\ acl' = IF Of(read[l].seen, l, t.kind) = {} \/ t.path \notin exists THEN acl
                     ELSE [acl EXCEPT ![t.path] = Without(read[l].own, l, t.kind)]
           /\ todo' = [todo EXCEPT ![l] = @ \ {t}]
    /\ read' = [read EXCEPT ![l] = Nothing]
    /\ Same /\ UNCHANGED <<lock, exists, restores, guards, known>>

(* A list that cannot be read or written is passed over.                   *)
GuardFails(l) ==
    /\ at[l] = "cleaning"
    /\ read[l] # Nothing
    /\ todo' = [todo EXCEPT ![l] = @ \ {read[l].task}]
    /\ read' = [read EXCEPT ![l] = Nothing]
    /\ Loses(l) /\ UNCHANGED <<lock, acl, exists, restores, guards, known>>

CleanupDone(l) ==
    /\ at[l] = "cleaning"
    /\ todo[l] = {}
    /\ guards' = [guards EXCEPT ![l] = {}]
    /\ known' = [known EXCEPT ![l] = {}]
    /\ Goes(l, "done")
    /\ UNCHANGED <<lock, acl, exists, todo, read, restores>>

(* The wrapper (or its server) is killed; Windows gives up the lock.       *)
Killed(l) ==
    /\ at[l] \notin {"idle", "done", "failed", "killed"}
    /\ Goes(l, "killed")
    /\ Release(l)
    /\ todo' = [todo EXCEPT ![l] = {}]
    /\ read' = [read EXCEPT ![l] = Nothing]
    /\ restores' = [restores EXCEPT ![l] = <<>>]
    /\ guards' = [guards EXCEPT ![l] = {}]
    /\ known' = [known EXCEPT ![l] = {}]
    /\ UNCHANGED <<acl, exists>>

Next ==
    \E l \in Launches :
        \/ \E depth \in {0, 1} : Prepare(l, depth)
        \/ Refresh(l)
        \/ ReadTarget(l)
        \/ WriteTarget(l)
        \/ SkipDenied(l)
        \/ ApplyFails(l)
        \/ \E written \in BOOLEAN : Restore(l, written)
        \/ RestoreDone(l)
        \/ StepDone(l)
        \/ MarkerFails(l)
        \/ StartWorker(l)
        \/ TempFails(l)
        \/ \E p \in Late : WorkerCreates(l, p)
        \/ WorkerEnds(l)
        \/ ReadGuard(l)
        \/ WriteGuard(l)
        \/ GuardFails(l)
        \/ CleanupDone(l)
        \/ Killed(l)

Spec == Init /\ [][Next]_vars
-----------------------------------------------------------------------------
Running == {l \in Launches : at[l] = "running"}

(* The lists a launch relies on are nobody else's to lose: it changed them *)
(* alone, or no launch of its policy changed lists together with one of    *)
(* another policy, whose lock is not the same.                             *)
Undisturbed(l) == l \notin spoiled \/ policy[l] \notin mixed

(* Whatever other launches prepare, roll back or take away meanwhile, a    *)
(* running worker can write what its roots held when it was launched, and  *)
(* its own later files too if no other launch changed lists at a time when *)
(* it did (the stable SID's entries outlive every launch); all of that if  *)
(* launches of another policy did not overlap (Undisturbed).               *)
WritableWhileRunning ==
    \A l \in Running : \A p \in exists :
        /\ Undisturbed(l)
        /\ At(p, Roots)
        /\ ~At(p, Protected)
        /\ p \in known[l] \/ l \notin spoiled
        => MayWrite(acl, p, policy[l], l)

(* A running worker never writes a protected directory that was there when *)
(* it was launched (apply_deny_acl_targets), whatever launches of its own  *)
(* policy take away or roll back meanwhile, and, if it changed the lists   *)
(* alone, those of other policies too.                                     *)
ProtectedWhileRunning ==
    \A l \in Running : \A p \in exists :
        Undisturbed(l) /\ At(p, Protected) => ~MayWrite(acl, p, policy[l], l)

(* When a launch has cleaned up or rolled back, no list in the workspace   *)
(* names its SID any more, unless another launch changed lists at the same *)
(* time (cleanup_capability_acl_state takes no lock) or a list could not   *)
(* be written.                                                             *)
NothingLeftBehind ==
    \A l \in Launches \ spoiled :
        at[l] \in {"done", "failed"} => \A p \in Walk : \A a \in Seen(acl, p) : a.sid # l
=============================================================================
