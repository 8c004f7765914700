------------------------- MODULE WindowsLaunchProofs -------------------------
(***************************************************************************)
(* Proofs about sandboxed launches on Windows, for any number of launches, *)
(* any policies, workspace and failures: a running worker never gains a    *)
(* protected directory, although cleanups rewrite lists without the lock,  *)
(* unless a launch of another policy overlapped, and a launch whose        *)
(* changes overlapped no other's and were taken back leaves no entry.      *)
(***************************************************************************)
EXTENDS WindowsLaunch, TLAPS, WellFoundedInduction

(***************************************************************************)
(* Types.                                                                  *)
(***************************************************************************)
Stages == {"idle", "prepare", "prepared", "refresh", "overlay", "overlaid", "running", "cleaning",
           "undo prepare", "undo refresh", "undo overlay", "done", "failed", "killed"}
Entry == [sid : Launches \cup Policies, kind : {"allow", "deny"},
          scope : {"self", "tree", "only", "given"}]
Tasks == [kind : {"allow", "deny"}, path : Paths]
Reading == [task : Tasks, own : SUBSET Entry, seen : SUBSET Entry, made : BOOLEAN]
Undo == [path : Paths, own : SUBSET Entry, made : BOOLEAN]
LaunchType ==
    /\ policy \in [Launches -> Policies]
    /\ at \in [Launches -> Stages]
    /\ lock \subseteq Launches
    /\ acl \in [Paths -> SUBSET Entry]
    /\ exists \subseteq Paths
    /\ todo \in [Launches -> SUBSET Tasks]
    /\ read \in [Launches -> Reading \cup {Nothing}]
    /\ restores \in [Launches -> Seq(Undo)]
    /\ guards \in [Launches -> SUBSET Tasks]
    /\ known \in [Launches -> SUBSET Paths]
    /\ spoiled \subseteq Launches
    /\ lost \in Nat

(***************************************************************************)
(* Who is changing lists: only a holder of its policy's lock, who is the   *)
(* only one, has anything to restore, and what a launch has read is a      *)
(* target it has still to handle.                                          *)
(***************************************************************************)
Busy == Locked \cup Cleaning
BusyInv ==
    /\ \A l \in Launches : at[l] \in Locked => l \in lock
    /\ \A j, k \in lock : policy[j] = policy[k] => j = k
    /\ \A l \in Launches : read[l] # Nothing =>
          at[l] \in {"prepare", "refresh", "overlay", "cleaning"} /\ read[l].task \in todo[l]
    /\ \A l \in Launches : restores[l] # <<>> => at[l] \in Locked

(***************************************************************************)
(* What was there at first stays.  A list that names anyone belongs to a   *)
(* path that is there, and a directory that was made was not there.        *)
(***************************************************************************)
PlaceInv ==
    /\ Lasting \subseteq exists
    /\ \A p \in Paths : acl[p] # {} => p \in exists
    /\ \A l \in Launches : read[l] # Nothing /\ read[l].made => read[l].task.path \notin Lasting
    /\ \A l \in Launches : \A i \in DOMAIN restores[l] :
          restores[l][i].made => restores[l][i].path \notin Lasting

(***************************************************************************)
(* The lists of a path: the one it has, those that launches have read and  *)
(* will write in some form, and those kept for a rollback.                 *)
(***************************************************************************)
Current(p) ==
    {acl[p]} \cup {read[k].own : k \in {j \in Launches : read[j] # Nothing /\ read[j].task.path = p}}
Saved(p) ==
    UNION {{restores[k][i].own : i \in {j \in DOMAIN restores[k] : restores[k][j].path = p}} :
           k \in Launches}
Lists(p) == Current(p) \cup Saved(p)

(* A denial always holds for what lies below too.                          *)
DenyInv ==
    /\ \A p \in Paths : \A S \in Lists(p) : \A a \in S : a.kind = "deny" => a.scope = "tree"
    /\ \A k \in Launches : read[k] # Nothing => read[k].own \subseteq read[k].seen

(***************************************************************************)
(* Who overlaps whom.  While a launch that is not spoiled changes lists    *)
(* nobody else does, and while a launch of a policy that is not mixed does *)
(* only launches of its policy do.                                         *)
(***************************************************************************)
CrossInv ==
    \A l \in Launches \ spoiled : at[l] \in Busy => \A k \in Launches \ {l} : at[k] \notin Busy
MixInv ==
    \A l \in Launches : policy[l] \notin mixed /\ at[l] \in Busy =>
        \A k \in Launches : policy[k] # policy[l] => at[k] \notin Busy
ApartInv == CrossInv /\ MixInv

(***************************************************************************)
(* Protected directories.  From a complete refresh of an undisturbed       *)
(* launch on, the denial of its stable SID is on every list of the         *)
(* directory or of one of its ancestors, so that no write of a list that   *)
(* was read earlier takes it away.  During a refresh it is on the current  *)
(* lists.                                                                  *)
(***************************************************************************)
DenyAll(s) == Ace(s, "deny", "tree")
Self(d) == {d} \cup Up[d]
Firm(s, q) == \A S \in Current(q) : DenyAll(s) \in S
Kept(s, q) == \A S \in Saved(q) : DenyAll(s) \in S
Past == {"overlay", "undo overlay", "overlaid", "running", "cleaning"}
SeesDenial(l, d) ==
    /\ read[l] # Nothing
    /\ read[l].task = Task("deny", d)
    /\ \E a \in Of(read[l].seen, policy[l], "deny") : a.scope = "tree"
PastInv ==
    \A l \in Launches : at[l] \in Past /\ Undisturbed(l) =>
        \A d \in Protected : \E q \in Self(d) : Firm(policy[l], q) /\ Kept(policy[l], q)
RefreshInv ==
    \A l \in Launches : at[l] = "refresh" /\ Undisturbed(l) =>
        \A d \in Protected : Task("deny", d) \notin todo[l] \/ SeesDenial(l, d) =>
            \E q \in Self(d) : Firm(policy[l], q)
ProtectInv == PastInv /\ RefreshInv

(***************************************************************************)
(* Entries of a launch.  Before it adds its own nobody names it; from then *)
(* on what names it is guarded, and while it runs a step alone it can be   *)
(* rolled back or is still to be handled.                                  *)
(***************************************************************************)
Free(S, l) == \A a \in S : a.sid # l
Unnamed(l) == \A p \in Walk : \A S \in Lists(p) : Free(S, l)
Marked(S, l, p, T) == \A a \in S : a.sid = l => Task(a.kind, p) \in T
Guarded(l) == \A p \in Walk : \A S \in Lists(p) : Marked(S, l, p, guards[l])
Reads(l) ==
    read[l] # Nothing /\ read[l].task.path \in Walk =>
        read[l].own = acl[read[l].task.path] /\ read[l].own \subseteq read[l].seen
CanUndo(l) ==
    /\ \A p \in Walk : Free(acl[p], l)
          \/ \E i \in DOMAIN restores[l] : restores[l][i].path = p /\ Free(restores[l][i].own, l)
    /\ \A j \in DOMAIN restores[l] : restores[l][j].path \in Walk =>
          \/ Free(restores[l][j].own, l)
          \/ \E i \in 1..(j - 1) :
                restores[l][i].path = restores[l][j].path /\ Free(restores[l][i].own, l)
Early == {"idle", "prepare", "prepared", "refresh", "undo prepare", "undo refresh"}
EarlyInv ==
    \A l \in Launches :
        at[l] \in Early \/ (at[l] \in {"done", "failed"} /\ l \notin spoiled) => Unnamed(l)
GuardInv == \A l \in Launches : at[l] \in Past \ {"cleaning"} => Guarded(l)
UndoInv ==
    \A l \in Launches \ spoiled : at[l] \in {"overlay", "undo overlay"} => CanUndo(l) /\ Reads(l)
CleanInv ==
    \A l \in Launches \ spoiled : at[l] = "cleaning" =>
        /\ Reads(l)
        /\ \A p \in Walk : Marked(acl[p], l, p, todo[l])
LeftInv == EarlyInv /\ GuardInv /\ UndoInv /\ CleanInv

-----------------------------------------------------------------------------
(***************************************************************************)
(* The operators on lists and targets.                                     *)
(***************************************************************************)

(* A nonempty set of numbers has a least one.                              *)
LEMMA LeastNumber ==
  ASSUME NEW T \in SUBSET Nat, T # {}
  PROVE  \E k \in T : \A m \in T : k <= m
<1>. DEFINE R == {ss \in Nat \X Nat : ss[1] < ss[2]}
<1>1. IsWellFoundedOn(R, Nat)
  BY NatLessThanWellFounded DEF OpToRel
<1>. HIDE DEF R
<1>2. \E k \in T : \A m \in T : ~(<<m, k>> \in R)
  BY <1>1, WFMin
<1>3. PICK k \in T : \A m \in T : ~(<<m, k>> \in R)
  BY <1>2
<1>4. k \in Nat /\ \A m \in T : m \in Nat /\ ~(m < k)
  BY <1>3 DEF R
<1>. QED BY <1>4

(* First and Last pick a member of the set.                                *)
LEMMA FirstMember ==
  ASSUME NEW S \in SUBSET Paths, S # {}
  PROVE  First(S) \in S
<1>1. CASE S \cap Walk = {}
  BY <1>1 DEF First
<1>2. CASE S \cap Walk # {}
  <2>. DEFINE T == {i \in DOMAIN Order : Order[i] \in S}
  <2>1. DOMAIN Order \subseteq Nat
    BY AclAssumption
  <2>2. T # {} /\ T \in SUBSET Nat
    BY <1>2, <2>1 DEF Walk
  <2>. HIDE DEF T
  <2>3. PICK k \in T : \A m \in T : k <= m
    BY <2>2, LeastNumber
  <2>4. \E i \in DOMAIN Order : Order[i] \in S /\ \A j \in DOMAIN Order : Order[j] \in S => i <= j
    BY <2>3 DEF T
  <2>. QED BY <1>2, <2>4 DEF First
<1>. QED BY <1>1, <1>2

\* The deepest of some paths is one of them.
LEMMA LastMember ==
  ASSUME NEW S \in SUBSET Paths, S # {}
  PROVE  Last(S) \in S
<1>1. CASE S \cap Walk = {}
  BY <1>1 DEF Last
<1>2. CASE S \cap Walk # {}
  <2>. DEFINE n == Len(Order)
              T == {i \in 0..n : n - i \in DOMAIN Order /\ Order[n - i] \in S}
  <2>1. DOMAIN Order = 1..n /\ n \in Nat
    BY AclAssumption
  <2>2. PICK w \in DOMAIN Order : Order[w] \in S
    BY <1>2 DEF Walk
  <2>. HIDE DEF n
  <2>3. n - w \in 0..n /\ n - (n - w) = w
    BY <2>1, <2>2
  <2>4. n - w \in T
    BY <2>2, <2>3
  <2>5. T # {} /\ T \in SUBSET Nat
    BY <2>1, <2>4
  <2>. HIDE DEF T
  <2>6. PICK k \in T : \A m \in T : k <= m
    BY <2>5, LeastNumber
  <2>7. ASSUME NEW j \in DOMAIN Order, Order[j] \in S
        PROVE  j <= n - k
    <3>1. n - j \in 0..n /\ n - (n - j) = j
      BY <2>1
    <3>2. n - j \in T
      BY <2>7, <3>1 DEF T
    <3>3. k <= n - j
      BY <2>6, <3>2
    <3>. QED BY <2>1, <2>5, <3>3
  <2>8. n - k \in DOMAIN Order /\ Order[n - k] \in S
    BY <2>6 DEF T
  <2>9. \E i \in DOMAIN Order : Order[i] \in S /\ \A j \in DOMAIN Order : Order[j] \in S => j <= i
    BY <2>7, <2>8
  <2>. QED BY <1>2, <2>9 DEF Last
<1>. QED BY <1>1, <1>2

(* The next target and the next guard are ones still to be handled.        *)
LEMMA NextTaskMember ==
  ASSUME NEW T \in SUBSET Tasks, T # {}
  PROVE  NextTask(T) \in T
<1>. DEFINE kind == IF PathsOf(T, "allow") # {} THEN "allow" ELSE "deny"
<1>1. PathsOf(T, kind) # {} /\ PathsOf(T, kind) \in SUBSET Paths
  BY DEF PathsOf, Tasks
<1>2. First(PathsOf(T, kind)) \in PathsOf(T, kind)
  BY <1>1, FirstMember
<1>3. \A p \in PathsOf(T, kind) : Task(kind, p) \in T
  BY DEF PathsOf, Tasks, Task
<1>. QED BY <1>2, <1>3 DEF NextTask

\* The target a cleanup takes next is one of those left.
LEMMA NextGuardMember ==
  ASSUME NEW G \in SUBSET Tasks, NEW T \in SUBSET Tasks, T # {}
  PROVE  NextGuard(G, T) \in T
<1>. DEFINE kind == IF PathsOf(T, "allow") # {} THEN "allow" ELSE "deny"
            held == PathsOf(G, kind)
            tops == {p \in held \cap PathsOf(T, kind) : Up[p] \cap held = {}}
<1>1. PathsOf(T, kind) # {} /\ PathsOf(T, kind) \in SUBSET Paths
  BY DEF PathsOf, Tasks
<1>2. Last(PathsOf(T, kind)) \in PathsOf(T, kind)
  BY <1>1, LastMember
<1>3. tops # {} => First(tops) \in tops
  <2>1. tops \in SUBSET Paths
    BY <1>1
  <2>. HIDE DEF tops
  <2>. QED BY <2>1, FirstMember
<1>4. tops # {} => First(tops) \in PathsOf(T, kind)
  BY <1>3
<1>5. \A p \in PathsOf(T, kind) : Task(kind, p) \in T
  BY DEF PathsOf, Tasks, Task
<1>6. NextGuard(G, T) = Task(kind, IF tops # {} THEN First(tops) ELSE Last(PathsOf(T, kind)))
  BY DEF NextGuard
<1>. HIDE DEF tops, held
<1>. QED BY <1>2, <1>4, <1>5, <1>6

Sids == Launches \cup Policies

\* What Ace makes is an entry.
LEMMA AceType ==
  ASSUME NEW sid \in Sids, NEW kind \in {"allow", "deny"},
         NEW scope \in {"self", "tree", "only", "given"}
  PROVE  Ace(sid, kind, scope) \in Entry
BY DEF Ace, Entry, Sids

(* What a path inherits are entries of its ancestors, in another form.     *)
LEMMA InheritedFrom ==
  ASSUME NEW lists \in [Paths -> SUBSET Entry], NEW p \in Paths
  PROVE  /\ Inherited(lists, p) \subseteq Entry
         /\ \A a \in Inherited(lists, p) : \E q \in Up[p] : \E b \in lists[q] :
               a.sid = b.sid /\ a.kind = b.kind
         /\ \A q \in Up[p] : \A b \in lists[q] : b.scope # "self" =>
               \E a \in Inherited(lists, p) : a.sid = b.sid /\ a.kind = b.kind
<1>. DEFINE scope(b) == IF b.scope = "only" THEN "given" ELSE IF p \in Dirs THEN "tree" ELSE "self"
            handed(b) == [b EXCEPT !.scope = scope(b)]
<1>1. Up[p] \subseteq Paths
  BY AclAssumption
<1>2. ASSUME NEW b \in Entry
      PROVE  handed(b) \in Entry /\ handed(b).sid = b.sid /\ handed(b).kind = b.kind
  <2>1. scope(b) \in {"self", "tree", "only", "given"}
    OBVIOUS
  <2>. HIDE DEF scope
  <2>. QED BY <2>1 DEF Entry
<1>3. Inherited(lists, p) = UNION {{handed(a) : a \in {b \in lists[q] : b.scope # "self"}} : q \in Up[p]}
  BY DEF Inherited
<1>. HIDE DEF handed
<1>4. \A a \in Inherited(lists, p) : \E q \in Up[p] : \E b \in lists[q] : b.scope # "self" /\ a = handed(b)
  BY <1>3
<1>5. \A q \in Up[p] : \A b \in lists[q] : b.scope # "self" => handed(b) \in Inherited(lists, p)
  BY <1>3
<1>6. \A q \in Up[p] : \A b \in lists[q] : b \in Entry
  BY <1>1
<1>. QED BY <1>2, <1>4, <1>5, <1>6

\* The entries that hold for a path are entries, its own among them.
LEMMA SeenType ==
  ASSUME NEW lists \in [Paths -> SUBSET Entry], NEW p \in Paths
  PROVE  /\ Seen(lists, p) \in SUBSET Entry
         /\ lists[p] \subseteq Seen(lists, p)
BY InheritedFrom DEF Seen

(* A denial is added to the list, or an inherited one serves.              *)
LEMMA WithDenyIs ==
  ASSUME NEW own \in SUBSET Entry, NEW seen \in SUBSET Entry, NEW sid \in Sids
  PROVE  /\ WithDeny(own, seen, sid) \in SUBSET Entry
         /\ own \subseteq WithDeny(own, seen, sid)
         /\ \A a \in WithDeny(own, seen, sid) : a \in own \/ a = Ace(sid, "deny", "tree")
         /\ \/ Ace(sid, "deny", "tree") \in WithDeny(own, seen, sid)
            \/ \E a \in Of(seen, sid, "deny") : a.scope = "tree"
BY AceType DEF WithDeny

(* Allow entries of one SID are all that WithAllow changes.                *)
LEMMA WithAllowIs ==
  ASSUME NEW p, NEW own \in SUBSET Entry, NEW seen \in SUBSET Entry, NEW sid \in Sids,
         NEW inherit \in BOOLEAN, NEW companion \in BOOLEAN
  PROVE  LET new == WithAllow(p, own, seen, sid, inherit, companion)
         IN  /\ new \in SUBSET Entry
             /\ \A a \in own : a.kind = "deny" => a \in new
             /\ \A a \in new : a \in own \/ (a.sid = sid /\ a.kind = "allow")
<1>. DEFINE mine == Of(seen, sid, "allow")
            dir == p \in Dirs
            form == IF inherit /\ dir THEN "tree" ELSE "self"
            direct(entries) == IF \E a \in entries : a.scope = form THEN {} ELSE {Ace(sid, "allow", form)}
            only(entries) ==
                IF (companion \/ inherit) /\ dir /\ ~\E a \in entries : a.scope = "only"
                THEN {Ace(sid, "allow", "only")} ELSE {}
            need(entries) == direct(entries) \cup only(entries)
            explicit == {a \in Of(own, sid, "allow") : a.scope # "only"}
            new == WithAllow(p, own, seen, sid, inherit, companion)
<1>1. Ace(sid, "allow", form) \in Entry /\ Ace(sid, "allow", "only") \in Entry
  BY AceType
<1>2. Ace(sid, "allow", form).sid = sid /\ Ace(sid, "allow", form).kind = "allow"
      /\ Ace(sid, "allow", "only").sid = sid /\ Ace(sid, "allow", "only").kind = "allow"
  BY DEF Ace
<1>. HIDE DEF form
<1>3. \A E : need(E) \subseteq Entry /\ \A a \in need(E) : a.sid = sid /\ a.kind = "allow"
  BY <1>1, <1>2
<1>4. new = IF need(mine) # {} /\ explicit # {}
            THEN (own \ Of(own, sid, "allow")) \cup need(mine \ Of(own, sid, "allow"))
            ELSE own \cup need(mine)
  BY DEF WithAllow, form
<1>. HIDE DEF need, explicit, mine, new
<1>5. \A a \in Of(own, sid, "allow") : a.kind = "allow"
  BY DEF Of
<1>6. CASE new = (own \ Of(own, sid, "allow")) \cup need(mine \ Of(own, sid, "allow"))
  <2>. DEFINE N == need(mine \ Of(own, sid, "allow"))
  <2>1. N \subseteq Entry /\ \A a \in N : a.sid = sid /\ a.kind = "allow"
    BY <1>3
  <2>. HIDE DEF N
  <2>2. new = (own \ Of(own, sid, "allow")) \cup N
    BY <1>6 DEF N
  <2>3. new \in SUBSET Entry /\ \A a \in own : a.kind = "deny" => a \in new
    BY <2>1, <2>2, <1>5
  <2>4. \A a \in new : a \in own \/ (a.sid = sid /\ a.kind = "allow")
    BY <2>1, <2>2
  <2>. QED BY <2>3, <2>4 DEF new
<1>7. CASE new = own \cup need(mine)
  <2>1. need(mine) \subseteq Entry /\ \A a \in need(mine) : a.sid = sid /\ a.kind = "allow"
    BY <1>3
  <2>. QED BY <1>7, <2>1 DEF new
<1>. QED BY <1>4, <1>6, <1>7

\* Without takes away exactly the entries of the SID and kind.
LEMMA WithoutIs ==
  ASSUME NEW own \in SUBSET Entry, NEW sid, NEW kind
  PROVE  /\ Without(own, sid, kind) \in SUBSET own
         /\ \A a \in own : a \in Without(own, sid, kind) <=> ~(a.sid = sid /\ a.kind = kind)
BY DEF Without, Of

\* The targets of a refresh are tasks.
LEMMA TargetsType ==
  ASSUME NEW E \in SUBSET Paths, NEW depth
  PROVE  Targets(E, depth) \in SUBSET Tasks
BY AclAssumption DEF Targets, AllowTargets, DenyTargets, Tasks, Task, Paths

\* A cleanup's targets are tasks, the guards among them.
LEMMA CleanTargetsType ==
  ASSUME NEW G \in SUBSET Tasks, NEW E \in SUBSET Paths
  PROVE  CleanTargets(G, E) \in SUBSET Tasks /\ G \subseteq CleanTargets(G, E)
BY DEF CleanTargets, Tasks

(* Nothing is not a list that was read.                                    *)
LEMMA NothingIsNone == Nothing \notin Reading
BY DEF Nothing, Reading, Tasks, Task

(***************************************************************************)
(* A write of a target, in parts: the SID it is for and the list that is   *)
(* written.                                                                *)
(***************************************************************************)
Applying == {"prepare", "refresh", "overlay"}
Undoing == {"undo prepare", "undo refresh", "undo overlay"}
Sid(l) == IF at[l] = "overlay" THEN l ELSE policy[l]
Written(l) ==
    IF read[l].task.kind = "deny" THEN WithDeny(read[l].own, read[l].seen, Sid(l))
    ELSE WithAllow(read[l].task.path, read[l].own, read[l].seen, Sid(l),
                   at[l] = "overlay", read[l].task.path # First(Roots))
Changed(l) == Written(l) # read[l].own
Record(l) == [path |-> read[l].task.path, own |-> read[l].own, made |-> read[l].made]

\* What a write does to the lists, the saved lists and the guards.
LEMMA WriteTargetIs ==
  ASSUME NEW l \in Launches, WriteTarget(l)
  PROVE  /\ at[l] \in Applying /\ read[l] # Nothing /\ read[l].task.path \in exists
         /\ acl' = IF Changed(l) THEN [acl EXCEPT ![read[l].task.path] = Written(l)] ELSE acl
         /\ restores' = IF ~Changed(l) /\ ~read[l].made THEN restores
                        ELSE [restores EXCEPT ![l] = Append(@, Record(l))]
         /\ guards' = IF at[l] = "overlay" /\ (Changed(l) \/ read[l].task.path \in Dirs)
                      THEN [guards EXCEPT ![l] = @ \cup {read[l].task}] ELSE guards
         /\ todo' = [todo EXCEPT ![l] = @ \ {read[l].task}]
         /\ read' = [read EXCEPT ![l] = Nothing]
         /\ UNCHANGED <<policy, at, lock, exists, known, spoiled, mixed, lost>>
<1>1. Sid(l) = IF at[l] = "overlay" THEN l ELSE policy[l]
  BY DEF Sid
<1>. QED BY <1>1 DEF WriteTarget, Written, Changed, Record, Applying, Same

\* What a launch has read and not yet written has its type.
LEMMA ReadingType ==
  ASSUME LaunchType, NEW l \in Launches, read[l] # Nothing
  PROVE  /\ read[l] \in Reading
         /\ read[l].task \in Tasks /\ read[l].task.path \in Paths
         /\ read[l].task.kind \in {"allow", "deny"}
         /\ read[l].task = Task(read[l].task.kind, read[l].task.path)
         /\ read[l].own \in SUBSET Entry /\ read[l].seen \in SUBSET Entry
         /\ read[l].made \in BOOLEAN
         /\ Sid(l) \in Sids
         /\ Record(l) \in Undo
BY DEF LaunchType, Reading, Tasks, Task, Sid, Sids, Record, Undo

\* A write keeps every denial, adds entries of its own SID only, and a denial
\* it is to add is there.
LEMMA WrittenIs ==
  ASSUME LaunchType, NEW l \in Launches, read[l] # Nothing
  PROVE  /\ Written(l) \in SUBSET Entry
         /\ \A a \in read[l].own : a.kind = "deny" => a \in Written(l)
         /\ \A a \in Written(l) : \/ a \in read[l].own
                                  \/ /\ a.sid = Sid(l) /\ a.kind = read[l].task.kind
                                     /\ a.kind = "deny" => a.scope = "tree"
         /\ read[l].task.kind = "deny" =>
               \/ Ace(Sid(l), "deny", "tree") \in Written(l)
               \/ \E a \in Of(read[l].seen, Sid(l), "deny") : a.scope = "tree"
<1>. DEFINE own == read[l].own
            seen == read[l].seen
            sid == Sid(l)
            inh == at[l] = "overlay"
            comp == read[l].task.path # First(Roots)
            p == read[l].task.path
<1>1. own \in SUBSET Entry /\ seen \in SUBSET Entry /\ sid \in Sids /\ read[l].task.kind \in {"allow", "deny"}
  BY ReadingType
<1>2. inh \in BOOLEAN /\ comp \in BOOLEAN
  OBVIOUS
<1>3. CASE read[l].task.kind = "deny"
  <2>1. Written(l) = WithDeny(own, seen, sid)
    BY <1>3 DEF Written
  <2>2. Ace(sid, "deny", "tree").sid = sid /\ Ace(sid, "deny", "tree").kind = "deny"
        /\ Ace(sid, "deny", "tree").scope = "tree"
    BY DEF Ace
  <2>. HIDE DEF own, seen, sid
  <2>3. /\ WithDeny(own, seen, sid) \in SUBSET Entry
        /\ own \subseteq WithDeny(own, seen, sid)
        /\ \A a \in WithDeny(own, seen, sid) : a \in own \/ a = Ace(sid, "deny", "tree")
        /\ \/ Ace(sid, "deny", "tree") \in WithDeny(own, seen, sid)
           \/ \E a \in Of(seen, sid, "deny") : a.scope = "tree"
    BY <1>1, WithDenyIs
  <2>. QED BY <1>3, <2>1, <2>2, <2>3 DEF own, seen, sid
<1>4. CASE read[l].task.kind = "allow"
  <2>1. Written(l) = WithAllow(p, own, seen, sid, inh, comp)
    BY <1>4 DEF Written
  <2>. HIDE DEF own, seen, sid, inh, comp, p
  <2>2. LET new == WithAllow(p, own, seen, sid, inh, comp)
        IN  /\ new \in SUBSET Entry
            /\ \A a \in own : a.kind = "deny" => a \in new
            /\ \A a \in new : a \in own \/ (a.sid = sid /\ a.kind = "allow")
    BY <1>1, <1>2, WithAllowIs
  <2>3. /\ Written(l) \in SUBSET Entry
        /\ \A a \in own : a.kind = "deny" => a \in Written(l)
        /\ \A a \in Written(l) : a \in own \/ (a.sid = sid /\ a.kind = "allow")
    BY <2>1, <2>2
  <2>. QED BY <1>4, <2>3 DEF own, sid
<1>. QED BY <1>1, <1>3, <1>4

(* Every step belongs to one launch.                                       *)
Acts(l) ==
    \/ \E depth \in {0, 1} : Prepare(l, depth)
    \/ Refresh(l) \/ ReadTarget(l) \/ WriteTarget(l) \/ SkipDenied(l)
    \/ ApplyFails(l) \/ (\E written \in BOOLEAN : Restore(l, written)) \/ RestoreDone(l)
    \/ StepDone(l) \/ MarkerFails(l)
    \/ StartWorker(l) \/ TempFails(l) \/ (\E p \in Late : WorkerCreates(l, p))
    \/ WorkerEnds(l) \/ ReadGuard(l) \/ WriteGuard(l) \/ GuardFails(l) \/ CleanupDone(l) \/ Killed(l)

\* Every step is one of a launch.
LEMMA NextActs ==
  ASSUME Next
  PROVE  \E l \in Launches : Acts(l)
BY DEF Next, Acts

\* The spoiled launches are launches.
LEMMA CrossType ==
  ASSUME spoiled \subseteq Launches, NEW l, NEW stage, Goes(l, stage)
  PROVE  spoiled' \subseteq Launches
BY DEF Goes, Cross

\* The initial state has the types.
LEMMA TypeInit == Init => LaunchType
<1>1. << >> \in Seq(Undo)
  OBVIOUS
<1>. QED BY <1>1 DEF Init, LaunchType, Stages, Lasting, Reading

\* Every step keeps the types.
LEMMA TypeStep ==
  ASSUME LaunchType, [Next]_vars
  PROVE  LaunchType'
<1>0. CASE UNCHANGED vars
  BY <1>0 DEF LaunchType, vars, Nothing
<1>. SUFFICES ASSUME NEW l \in Launches, Acts(l) PROVE LaunchType'
  BY <1>0, NextActs
<1>. USE DEF LaunchType
<1>1. ASSUME NEW depth \in {0, 1}, Prepare(l, depth) PROVE LaunchType'
  <2>1. Targets(exists, depth) \in SUBSET Tasks
    BY TargetsType
  <2>2. spoiled' \subseteq Launches
    BY <1>1, CrossType DEF Prepare, Acquire
  <2>. QED BY <1>1, <2>1, <2>2 DEF Prepare, Goes, Stages, Acquire
<1>2. CASE Refresh(l)
  <2>1. Targets(exists, Len(Order)) \in SUBSET Tasks
    BY TargetsType
  <2>2. spoiled' \subseteq Launches
    BY <1>2, CrossType DEF Refresh, Acquire
  <2>. QED BY <1>2, <2>1, <2>2 DEF Refresh, Goes, Stages, Acquire
<1>3. CASE ReadTarget(l)
  <2>. DEFINE t == NextTask(todo[l])
              r == [task |-> t, own |-> acl[t.path], seen |-> Seen(acl, t.path), made |-> t.path \notin exists]
  <2>0. todo[l] \in SUBSET Tasks /\ todo[l] # {}
    BY <1>3 DEF ReadTarget, Same
  <2>1. t \in Tasks /\ t.path \in Paths
    BY <2>0, NextTaskMember DEF Tasks
  <2>2. Seen(acl, t.path) \in SUBSET Entry
    BY <2>1, SeenType
  <2>. HIDE DEF t
  <2>3. r \in Reading
    BY <2>1, <2>2 DEF Reading
  <2>. HIDE DEF r
  <2>4. \/ exists' = exists \cup {t.path} /\ read' = [read EXCEPT ![l] = r] /\ todo' = todo
        \/ todo' = [todo EXCEPT ![l] = @ \ {t}] /\ exists' = exists /\ read' = read
    BY <1>3 DEF ReadTarget, r, t, Same
  <2>5. UNCHANGED <<policy, at, lock, acl, restores, guards, known, spoiled, lost>>
    BY <1>3 DEF ReadTarget, Same
  <2>. QED BY <2>1, <2>3, <2>4, <2>5
<1>4. CASE WriteTarget(l)
  <2>1. read[l] # Nothing
    BY <1>4, WriteTargetIs
  <2>2. Written(l) \in SUBSET Entry
    BY <2>1, WrittenIs
  <2>3. read[l].task \in Tasks /\ read[l].task.path \in Paths /\ Record(l) \in Undo
    BY <2>1, ReadingType
  <2>4. acl' \in [Paths -> SUBSET Entry]
    BY <1>4, <2>2, WriteTargetIs
  <2>5. restores' \in [Launches -> Seq(Undo)]
    <3>. DEFINE s == Append(restores[l], Record(l))
    <3>1. s \in Seq(Undo)
      BY <2>3
    <3>. HIDE DEF s
    <3>2. restores' = restores \/ restores' = [restores EXCEPT ![l] = s]
      BY <1>4, WriteTargetIs DEF s
    <3>. QED BY <3>1, <3>2
  <2>6. guards' \in [Launches -> SUBSET Tasks] /\ todo' \in [Launches -> SUBSET Tasks]
    <3>1. guards' = guards \/ guards' = [guards EXCEPT ![l] = @ \cup {read[l].task}]
      BY <1>4, WriteTargetIs
    <3>2. todo' = [todo EXCEPT ![l] = @ \ {read[l].task}]
      BY <1>4, WriteTargetIs
    <3>3. guards' \in [Launches -> SUBSET Tasks]
      <4>. DEFINE T == guards[l] \cup {read[l].task}
      <4>1. guards \in [Launches -> SUBSET Tasks] /\ T \in SUBSET Tasks
        BY <2>3
      <4>2. guards' = guards \/ guards' = [guards EXCEPT ![l] = T]
        BY <3>1
      <4>. HIDE DEF T
      <4>. QED BY ONLY <4>1, <4>2
    <3>4. todo' \in [Launches -> SUBSET Tasks]
      BY <2>3, <3>2
    <3>. QED BY <3>3, <3>4
  <2>7. read' = [read EXCEPT ![l] = Nothing] /\ UNCHANGED <<policy, at, lock, exists, known, spoiled, mixed, lost>>
    BY <1>4, WriteTargetIs
  <2>. QED BY <2>4, <2>5, <2>6, <2>7
<1>5. CASE SkipDenied(l)
  BY <1>5 DEF SkipDenied, Same
<1>6. CASE ApplyFails(l)
  <2>1. spoiled' \subseteq Launches
    BY <1>6, CrossType DEF ApplyFails
  <2>. QED BY <1>6, <2>1 DEF ApplyFails, Goes, Stages
<1>7. ASSUME NEW written \in BOOLEAN, Restore(l, written) PROVE LaunchType'
  <2>. DEFINE n == Len(restores[l])
              last == restores[l][n]
              empty == last.made /\ \A p \in exists : last.path \notin Up[p]
              rest == SubSeq(restores[l], 1, n - 1)
  <2>1. last \in Undo /\ rest \in Seq(Undo)
    <3>. DEFINE s == restores[l]
    <3>1. s \in Seq(Undo) /\ s # <<>>
      BY <1>7 DEF Restore
    <3>. HIDE DEF s
    <3>2. s[Len(s)] \in Undo /\ SubSeq(s, 1, Len(s) - 1) \in Seq(Undo)
      BY <3>1
    <3>. QED BY <3>2 DEF s
  <2>2. /\ \/ acl' = [acl EXCEPT ![last.path] = {}]
           \/ acl' = [acl EXCEPT ![last.path] = last.own]
           \/ acl' = [acl EXCEPT ![last.path] = @]
        /\ exists' = IF empty THEN exists \ {last.path} ELSE exists
        /\ restores' = [restores EXCEPT ![l] = rest]
        /\ UNCHANGED <<policy, at, lock, guards, todo, read, known>>
        /\ spoiled' = spoiled \/ spoiled' = spoiled \cup {l}
        /\ lost' = lost \/ lost' = lost + 1
    BY <1>7 DEF Restore, Same, Loses
  <2>3. last.path \in Paths /\ last.own \in SUBSET Entry
    BY <2>1 DEF Undo
  <2>. HIDE DEF last, empty, n, rest
  <2>4. acl' \in [Paths -> SUBSET Entry]
    BY <2>2, <2>3
  <2>. QED BY <2>1, <2>2, <2>3, <2>4
<1>18. CASE RestoreDone(l)
  <2>1. spoiled' \subseteq Launches
    BY <1>18, CrossType DEF RestoreDone
  <2>. QED BY <1>18, <2>1 DEF RestoreDone, Goes, Release, Stages
<1>19. CASE GuardFails(l)
  BY <1>19 DEF GuardFails, Loses
<1>8. CASE StepDone(l)
  <2>1. Targets(exists, Len(Order)) \in SUBSET Tasks
    BY TargetsType
  <2>2. spoiled' \subseteq Launches
    BY <1>8, CrossType DEF StepDone, Release
  <2>3. << >> \in Seq(Undo)
    OBVIOUS
  <2>. QED BY <1>8, <2>1, <2>2, <2>3 DEF StepDone, Goes, Stages, Release
<1>9. CASE MarkerFails(l)
  <2>1. spoiled' \subseteq Launches
    BY <1>9, CrossType DEF MarkerFails, Release
  <2>2. << >> \in Seq(Undo)
    OBVIOUS
  <2>. QED BY <1>9, <2>1, <2>2 DEF MarkerFails, Goes, Stages, Release
<1>10. CASE StartWorker(l)
  <2>. DEFINE new == Without(acl[Temp[l]], policy[l], "allow") \cup {Ace(l, "allow", "tree"), Ace(l, "allow", "only")}
  <2>1. spoiled' \subseteq Launches
    BY <1>10, CrossType DEF StartWorker
  <2>2. Temp[l] \in Paths
    BY LaunchAssumption DEF Paths
  <2>3. new \in SUBSET Entry
    BY <2>2, WithoutIs, AceType DEF Sids
  <2>4. Task("allow", Temp[l]) \in Tasks
    BY <2>2 DEF Task, Tasks
  <2>. HIDE DEF new
  <2>5. acl' = [acl EXCEPT ![Temp[l]] = new]
    BY <1>10 DEF StartWorker, new
  <2>. QED BY <1>10, <2>1, <2>2, <2>3, <2>4, <2>5 DEF StartWorker, Goes, Stages
<1>11. CASE TempFails(l)
  <2>. DEFINE new == acl[Temp[l]] \cup {Ace(l, "allow", "tree"), Ace(l, "allow", "only")}
  <2>1. spoiled' \subseteq Launches
    BY <1>11, CrossType DEF TempFails
  <2>2. Temp[l] \in Paths
    BY LaunchAssumption DEF Paths
  <2>3. new \in SUBSET Entry
    BY <2>2, AceType DEF Sids
  <2>4. CleanTargets(guards[l], exists) \in SUBSET Tasks
    BY CleanTargetsType
  <2>. HIDE DEF new
  <2>5. acl' = [acl EXCEPT ![Temp[l]] = new]
    BY <1>11 DEF TempFails, new
  <2>. QED BY <1>11, <2>1, <2>2, <2>3, <2>4, <2>5 DEF TempFails, Goes, Stages
<1>12. ASSUME NEW p \in Late, WorkerCreates(l, p) PROVE LaunchType'
  BY <1>12, LaunchAssumption DEF WorkerCreates, Paths, Same
<1>13. CASE WorkerEnds(l)
  <2>1. spoiled' \subseteq Launches
    BY <1>13, CrossType DEF WorkerEnds
  <2>2. CleanTargets(guards[l], exists) \in SUBSET Tasks
    BY CleanTargetsType
  <2>. QED BY <1>13, <2>1, <2>2 DEF WorkerEnds, Goes, Stages
<1>14. CASE ReadGuard(l)
  <2>. DEFINE t == NextGuard(guards[l], todo[l])
              r == [task |-> t, own |-> acl[t.path], seen |-> Seen(acl, t.path), made |-> FALSE]
  <2>0. todo[l] \in SUBSET Tasks /\ todo[l] # {} /\ guards[l] \in SUBSET Tasks
    BY <1>14 DEF ReadGuard, Same
  <2>a. t \in todo[l]
    BY <2>0, NextGuardMember
  <2>1. t \in Tasks /\ t.path \in Paths
    BY <2>0, <2>a DEF Tasks
  <2>2. Seen(acl, t.path) \in SUBSET Entry
    BY <2>1, SeenType
  <2>. HIDE DEF t
  <2>3. r \in Reading
    BY <2>1, <2>2 DEF Reading
  <2>. HIDE DEF r
  <2>4. \/ read' = [read EXCEPT ![l] = r] /\ todo' = todo
        \/ todo' = [todo EXCEPT ![l] = @ \ {t}] /\ read' = read
    BY <1>14 DEF ReadGuard, r, t, Same
  <2>5. UNCHANGED <<policy, at, lock, acl, exists, restores, guards, known, spoiled, lost>>
    BY <1>14 DEF ReadGuard, Same
  <2>. QED BY <2>1, <2>3, <2>4, <2>5
<1>15. CASE WriteGuard(l)
  <2>1. read[l] # Nothing
    BY <1>15 DEF WriteGuard, Same
  <2>2. Without(read[l].own, l, read[l].task.kind) \in SUBSET Entry
    BY <2>1, WithoutIs, ReadingType
  <2>. QED BY <1>15, <2>2 DEF WriteGuard, Same
<1>16. CASE CleanupDone(l)
  <2>1. spoiled' \subseteq Launches
    BY <1>16, CrossType DEF CleanupDone
  <2>. QED BY <1>16, <2>1 DEF CleanupDone, Goes, Stages
<1>17. CASE Killed(l)
  <2>1. spoiled' \subseteq Launches
    BY <1>17, CrossType DEF Killed, Release
  <2>2. << >> \in Seq(Undo)
    OBVIOUS
  <2>. QED BY <1>17, <2>1, <2>2 DEF Killed, Goes, Stages, Release
<1>. QED BY <1>1, <1>2, <1>3, <1>4, <1>5, <1>6, <1>7, <1>8, <1>9, <1>10, <1>11, <1>12, <1>13, <1>14,
            <1>15, <1>16, <1>17, <1>18, <1>19 DEF Acts

-----------------------------------------------------------------------------
(***************************************************************************)
(* The lock and what is under way.                                         *)
(***************************************************************************)
LEMMA BusyInit == Init => BusyInv
BY DEF Init, BusyInv, Locked

\* Every step keeps applying and restoring with the holder of the lock.
LEMMA BusyStep ==
  ASSUME LaunchType, BusyInv, [Next]_vars
  PROVE  BusyInv'
<1>0. CASE UNCHANGED vars
  BY <1>0 DEF BusyInv, vars, Nothing
<1>. SUFFICES ASSUME NEW l \in Launches, Acts(l) PROVE BusyInv'
  BY <1>0, NextActs
<1>. DEFINE Holds == /\ \A k \in Launches : at[k] \in Locked => k \in lock
                     /\ \A j, k \in lock : policy[j] = policy[k] => j = k
            Reads1 == \A k \in Launches : read[k] # Nothing =>
                         at[k] \in {"prepare", "refresh", "overlay", "cleaning"} /\ read[k].task \in todo[k]
            Undoes == \A k \in Launches : restores[k] # <<>> => at[k] \in Locked
<1>a. Holds /\ Reads1 /\ Undoes
  BY DEF BusyInv
<1>b. (Holds /\ Reads1 /\ Undoes)' => BusyInv'
  BY DEF BusyInv
<1>c. Nothing' = Nothing
  BY DEF Nothing
<1>d. /\ at \in [Launches -> Stages] /\ read \in [Launches -> Reading \cup {Nothing}]
      /\ todo \in [Launches -> SUBSET Tasks] /\ restores \in [Launches -> Seq(Undo)]
  BY DEF LaunchType
<1>. USE <1>c, <1>d
<1>1. ASSUME NEW depth \in {0, 1}, Prepare(l, depth) PROVE BusyInv'
  BY <1>1, <1>a, <1>b DEF Prepare, Goes, Locked, Acquire
<1>2. CASE Refresh(l)
  BY <1>2, <1>a, <1>b DEF Refresh, Goes, Locked, Acquire
<1>3. CASE ReadTarget(l)
  <2>. DEFINE t == NextTask(todo[l])
              r == [task |-> t, own |-> acl[t.path], seen |-> Seen(acl, t.path), made |-> t.path \notin exists]
  <2>1. t \in todo[l]
    BY <1>3, NextTaskMember DEF ReadTarget, Same
  <2>2. r.task = t
    OBVIOUS
  <2>3. \/ read' = [read EXCEPT ![l] = r] /\ todo' = todo
        \/ todo' = [todo EXCEPT ![l] = @ \ {t}] /\ read' = read
    BY <1>3 DEF ReadTarget, Same
  <2>4. UNCHANGED <<policy, at, lock, restores>> /\ at[l] \in {"prepare", "refresh", "overlay"} /\ read[l] = Nothing
    BY <1>3 DEF ReadTarget, Same
  <2>. HIDE DEF t, r
  <2>. QED BY <2>1, <2>2, <2>3, <2>4, <1>a, <1>b
<1>4. CASE WriteTarget(l)
  <2>1. Reads1'
    BY <1>4, <1>a, WriteTargetIs
  <2>2. Holds' /\ Undoes'
    BY <1>4, <1>a, WriteTargetIs DEF Applying, Locked
  <2>. QED BY <2>1, <2>2, <1>b
<1>5. CASE SkipDenied(l)
  BY <1>5, <1>a, <1>b DEF SkipDenied, Same
<1>6. CASE ApplyFails(l)
  <2>1. Holds' /\ Undoes'
    BY <1>6, <1>a DEF ApplyFails, Goes, Locked
  <2>2. Reads1'
    BY <1>6, <1>a DEF ApplyFails, Goes
  <2>. QED BY <2>1, <2>2, <1>b
<1>7. ASSUME NEW written \in BOOLEAN, Restore(l, written) PROVE BusyInv'
  <2>1. /\ \E s : restores' = [restores EXCEPT ![l] = s]
        /\ UNCHANGED <<policy, at, lock, todo, read>> /\ at[l] \in Locked
    BY <1>7 DEF Restore, Locked, Same, Loses
  <2>. QED BY <2>1, <1>a, <1>b
<1>18. CASE RestoreDone(l)
  <2>1. /\ at' = [at EXCEPT ![l] = "failed"] /\ lock' = lock \ {l} /\ UNCHANGED <<policy, restores, todo, read>>
        /\ at[l] \in Locked /\ at[l] \notin {"prepare", "refresh", "overlay", "cleaning"}
        /\ restores[l] = <<>>
    BY <1>18 DEF RestoreDone, Goes, Locked, Release
  <2>2. Holds' /\ Undoes'
    BY <2>1, <1>a DEF Locked
  <2>3. Reads1'
    BY <2>1, <1>a
  <2>. QED BY <2>2, <2>3, <1>b
<1>19. CASE GuardFails(l)
  BY <1>19, <1>a, <1>b DEF GuardFails, Loses
<1>8. CASE StepDone(l)
  <2>1. Holds' /\ Undoes'
    BY <1>8, <1>a DEF StepDone, Goes, Locked, Release
  <2>2. Reads1'
    BY <1>8, <1>a DEF StepDone, Goes, Release
  <2>. QED BY <2>1, <2>2, <1>b
<1>9. CASE MarkerFails(l)
  <2>1. Holds' /\ Undoes'
    BY <1>9, <1>a DEF MarkerFails, Goes, Locked, Release
  <2>2. Reads1'
    BY <1>9, <1>a DEF MarkerFails, Goes, Release
  <2>. QED BY <2>1, <2>2, <1>b
<1>10. CASE StartWorker(l)
  BY <1>10, <1>a, <1>b DEF StartWorker, Goes, Locked
<1>11. CASE TempFails(l)
  BY <1>11, <1>a, <1>b DEF TempFails, Goes, Locked
<1>12. ASSUME NEW p \in Late, WorkerCreates(l, p) PROVE BusyInv'
  BY <1>12, <1>a, <1>b DEF WorkerCreates, Same
<1>13. CASE WorkerEnds(l)
  BY <1>13, <1>a, <1>b DEF WorkerEnds, Goes, Locked
<1>14. CASE ReadGuard(l)
  <2>. DEFINE t == NextGuard(guards[l], todo[l])
              r == [task |-> t, own |-> acl[t.path], seen |-> Seen(acl, t.path), made |-> FALSE]
  <2>1. t \in todo[l]
    <3>1. guards[l] \in SUBSET Tasks /\ todo[l] \in SUBSET Tasks /\ todo[l] # {}
      BY <1>14 DEF ReadGuard, LaunchType, Same
    <3>. QED BY <3>1, NextGuardMember
  <2>2. r.task = t
    OBVIOUS
  <2>3. \/ read' = [read EXCEPT ![l] = r] /\ todo' = todo
        \/ todo' = [todo EXCEPT ![l] = @ \ {t}] /\ read' = read
    BY <1>14 DEF ReadGuard, Same
  <2>4. UNCHANGED <<policy, at, lock, restores>> /\ at[l] = "cleaning" /\ read[l] = Nothing
    BY <1>14 DEF ReadGuard, Same
  <2>. HIDE DEF t, r
  <2>. QED BY <2>1, <2>2, <2>3, <2>4, <1>a, <1>b
<1>15. CASE WriteGuard(l)
  BY <1>15, <1>a, <1>b DEF WriteGuard, Same
<1>16. CASE CleanupDone(l)
  BY <1>16, <1>a, <1>b DEF CleanupDone, Goes, Locked
<1>17. CASE Killed(l)
  <2>1. Holds' /\ Undoes'
    BY <1>17, <1>a DEF Killed, Goes, Locked, Release
  <2>2. Reads1'
    BY <1>17, <1>a DEF Killed, Goes, Release
  <2>. QED BY <2>1, <2>2, <1>b
<1>. QED BY <1>1, <1>2, <1>3, <1>4, <1>5, <1>6, <1>7, <1>8, <1>9, <1>10, <1>11, <1>12, <1>13, <1>14,
            <1>15, <1>16, <1>17, <1>18, <1>19 DEF Acts

(***************************************************************************)
(* What a step does to lists, whatever stage it belongs to: nothing but    *)
(* forget (Quiet), a read (Fetch), a write of a target, the undoing of a   *)
(* change, the entries of a session's directory, or a write of a cleanup.  *)
(***************************************************************************)
Quiet ==
    /\ acl' = acl
    /\ exists \subseteq exists'
    /\ read' \in [Launches -> Reading \cup {Nothing}]
    /\ \A k \in Launches : read'[k] # Nothing => read'[k] = read[k] /\ at'[k] = at[k]
    /\ \A k \in Launches : restores'[k] # <<>> => restores'[k] = restores[k]
Fetch(l) ==
    /\ UNCHANGED <<acl, at, todo, restores, guards>>
    /\ at[l] \in Applying \cup {"cleaning"}
    /\ read[l] = Nothing
    /\ \E t \in todo[l] :
          /\ exists' = exists \cup {t.path}
          /\ at[l] = "cleaning" => t.path \in exists
          /\ read' = [read EXCEPT ![l] =
                [task |-> t, own |-> acl[t.path], seen |-> Seen(acl, t.path), made |-> t.path \notin exists]]
Undone(l) == restores[l][Len(restores[l])]
Gone(l) == Undone(l).made /\ \A p \in exists : Undone(l).path \notin Up[p]
Undoes(l) ==
    /\ at[l] \in Undoing
    /\ restores[l] # <<>>
    /\ \/ /\ acl' = [acl EXCEPT ![Undone(l).path] = IF Gone(l) THEN {} ELSE Undone(l).own]
          /\ Gone(l) \/ Undone(l).path \in exists
       \/ /\ acl' = acl
          /\ ~Gone(l)
          /\ l \in spoiled' \/ Undone(l).path \notin exists
    /\ exists' = IF Gone(l) THEN exists \ {Undone(l).path} ELSE exists
    /\ restores' = [restores EXCEPT ![l] = SubSeq(@, 1, Len(@) - 1)]
    /\ UNCHANGED <<at, lock, guards, todo, read>>
Grants(l) ==
    /\ at[l] = "overlaid"
    /\ \E new :
          /\ acl' = [acl EXCEPT ![Temp[l]] = new]
          /\ \A a \in new : a \in acl[Temp[l]] \/ (a.sid = l /\ a.kind = "allow")
          /\ \A a \in acl[Temp[l]] : a.kind = "deny" => a \in new
    /\ \A k \in Launches : read[k] # Nothing => at'[k] = at[k]
    /\ UNCHANGED <<exists, read, restores>>
Revokes(l) ==
    /\ at[l] = "cleaning"
    /\ read[l] # Nothing
    /\ \/ acl' = acl
       \/ /\ read[l].task.path \in exists
          /\ acl' = [acl EXCEPT ![read[l].task.path] = Without(read[l].own, l, read[l].task.kind)]
    /\ read' = [read EXCEPT ![l] = Nothing]
    /\ UNCHANGED <<at, exists, restores, guards>>
Kind(l) == Quiet \/ Fetch(l) \/ WriteTarget(l) \/ Undoes(l) \/ Grants(l) \/ Revokes(l)

\* Reading a target changes nothing or fetches its list.
LEMMA ReadTargetKind ==
  ASSUME LaunchType, NEW l \in Launches, ReadTarget(l)
  PROVE  Quiet \/ Fetch(l)
<1>. DEFINE t == NextTask(todo[l])
            r == [task |-> t, own |-> acl[t.path], seen |-> Seen(acl, t.path), made |-> t.path \notin exists]
<1>1. t \in todo[l]
  BY NextTaskMember DEF ReadTarget, LaunchType, Same
<1>2. \/ exists' = exists \cup {t.path} /\ read' = [read EXCEPT ![l] = r] /\ todo' = todo
      \/ todo' = [todo EXCEPT ![l] = @ \ {t}] /\ exists' = exists /\ read' = read
  BY DEF ReadTarget, Same
<1>3. /\ UNCHANGED <<at, acl, restores, guards>>
      /\ at[l] \in Applying /\ read[l] = Nothing
  BY DEF ReadTarget, Applying, Same
<1>4. at[l] # "cleaning"
  BY <1>3 DEF Applying
<1>5. CASE todo' = [todo EXCEPT ![l] = @ \ {t}] /\ exists' = exists /\ read' = read
  BY <1>3, <1>5 DEF Quiet, LaunchType
<1>6. CASE exists' = exists \cup {t.path} /\ read' = [read EXCEPT ![l] = r] /\ todo' = todo
  BY <1>1, <1>3, <1>4, <1>6 DEF Fetch
<1>. QED BY <1>2, <1>5, <1>6

\* Reading a cleanup's target changes nothing or fetches its list.
LEMMA ReadGuardKind ==
  ASSUME LaunchType, NEW l \in Launches, ReadGuard(l)
  PROVE  Quiet \/ Fetch(l)
<1>. DEFINE t == NextGuard(guards[l], todo[l])
            r == [task |-> t, own |-> acl[t.path], seen |-> Seen(acl, t.path), made |-> t.path \notin exists]
<1>1. t \in todo[l]
  <2>1. guards[l] \in SUBSET Tasks /\ todo[l] \in SUBSET Tasks /\ todo[l] # {}
    BY DEF ReadGuard, LaunchType, Same
  <2>. QED BY <2>1, NextGuardMember
<1>2. \/ t.path \in exists /\ read' = [read EXCEPT ![l] = r] /\ todo' = todo
      \/ todo' = [todo EXCEPT ![l] = @ \ {t}] /\ read' = read
  <2>. HIDE DEF t
  <2>1. t.path \in exists => (t.path \notin exists) = FALSE
    OBVIOUS
  <2>2. t = NextGuard(guards[l], todo[l])
    BY DEF t
  <2>. QED BY <2>1, <2>2 DEF ReadGuard, Same
<1>3. /\ UNCHANGED <<at, acl, exists, restores, guards>>
      /\ at[l] = "cleaning" /\ read[l] = Nothing
  BY DEF ReadGuard, Same
<1>4. CASE todo' = [todo EXCEPT ![l] = @ \ {t}] /\ read' = read
  BY <1>3, <1>4 DEF Quiet, LaunchType
<1>5. CASE t.path \in exists /\ read' = [read EXCEPT ![l] = r] /\ todo' = todo
  <2>. HIDE DEF t
  <2>1. exists' = exists \cup {t.path}
    BY <1>3, <1>5
  <2>. QED BY <1>1, <1>3, <1>5, <2>1 DEF Fetch
<1>. QED BY <1>2, <1>4, <1>5

\* A roll-back puts the last saved list back, or fails to.
LEMMA RestoreKind ==
  ASSUME LaunchType, NEW l \in Launches, NEW written \in BOOLEAN, Restore(l, written)
  PROVE  Undoes(l)
<1>. DEFINE q == Undone(l).path
            new == IF Gone(l) THEN {} ELSE IF written /\ q \in exists THEN Undone(l).own ELSE acl[q]
<1>1. Gone(l) <=> (Undone(l).made /\ \A p \in exists : Undone(l).path \notin Up[p])
  BY DEF Gone
<1>2. /\ at[l] \in Undoing /\ restores[l] # <<>>
      /\ acl' = [acl EXCEPT ![q] = new]
      /\ exists' = IF Gone(l) THEN exists \ {q} ELSE exists
      /\ restores' = [restores EXCEPT ![l] = SubSeq(@, 1, Len(@) - 1)]
      /\ UNCHANGED <<at, lock, guards, todo, read>>
      /\ written \/ l \in spoiled'
  BY <1>1 DEF Restore, Undoing, Undone, Same, Loses
<1>3. acl \in [Paths -> SUBSET Entry]
  BY DEF LaunchType
<1>. HIDE DEF q
<1>4. CASE Gone(l) \/ (written /\ q \in exists)
  <2>1. new = IF Gone(l) THEN {} ELSE Undone(l).own
    BY <1>4
  <2>. HIDE DEF new
  <2>. QED BY <1>2, <1>4, <2>1 DEF Undoes, q
<1>5. CASE ~Gone(l) /\ ~(written /\ q \in exists)
  <2>1. new = acl[q]
    BY <1>5
  <2>. HIDE DEF new
  <2>2. acl' = acl
    BY <1>2, <1>3, <2>1
  <2>. QED BY <1>2, <1>5, <2>2 DEF Undoes, q
<1>. QED BY <1>4, <1>5

\* Every step of a launch is of one of the kinds.
LEMMA ActsKind ==
  ASSUME LaunchType, BusyInv, NEW l \in Launches, Acts(l)
  PROVE  Kind(l)
<1>a. \A k \in Launches : read[k] # Nothing =>
         at[k] \in {"prepare", "refresh", "overlay", "cleaning"} /\ read[k].task \in todo[k]
  BY DEF BusyInv
<1>b. /\ at \in [Launches -> Stages] /\ read \in [Launches -> Reading \cup {Nothing}]
      /\ restores \in [Launches -> Seq(Undo)] /\ todo \in [Launches -> SUBSET Tasks]
      /\ Nothing' = Nothing /\ guards \in [Launches -> SUBSET Tasks]
  BY DEF LaunchType, Nothing
<1>. USE <1>b
<1>1. ASSUME NEW depth \in {0, 1}, Prepare(l, depth) PROVE Quiet
  BY <1>1, <1>a DEF Prepare, Goes, Quiet
<1>2. CASE Refresh(l)
  BY <1>2, <1>a DEF Refresh, Goes, Quiet, Kind
<1>3. CASE ReadTarget(l)
  BY <1>3, ReadTargetKind DEF Kind
<1>4. CASE WriteTarget(l)
  BY <1>4 DEF Kind
<1>5. CASE SkipDenied(l)
  BY <1>5, <1>a DEF SkipDenied, Quiet, Kind, Same
<1>6. CASE ApplyFails(l)
  <2>1. Quiet
    BY <1>6, <1>a DEF ApplyFails, Goes, Quiet
  <2>. QED BY <2>1 DEF Kind
<1>7. ASSUME NEW written \in BOOLEAN, Restore(l, written) PROVE Kind(l)
  BY <1>7, RestoreKind DEF Kind
<1>19. CASE RestoreDone(l)
  <2>1. Quiet
    BY <1>19, <1>a DEF RestoreDone, Goes, Quiet
  <2>. QED BY <2>1 DEF Kind
<1>20. CASE GuardFails(l)
  <2>1. Quiet
    BY <1>20, <1>a DEF GuardFails, Loses, Quiet
  <2>. QED BY <2>1 DEF Kind
<1>8. CASE StepDone(l)
  <2>1. Quiet
    BY <1>8, <1>a DEF StepDone, Goes, Quiet
  <2>. QED BY <2>1 DEF Kind
<1>9. CASE MarkerFails(l)
  <2>1. Quiet
    BY <1>9, <1>a DEF MarkerFails, Goes, Quiet
  <2>. QED BY <2>1 DEF Kind
<1>10. CASE StartWorker(l)
  <2>. DEFINE new == Without(acl[Temp[l]], policy[l], "allow") \cup {Ace(l, "allow", "tree"), Ace(l, "allow", "only")}
  <2>1. \A a \in new : a \in acl[Temp[l]] \/ (a.sid = l /\ a.kind = "allow")
    BY DEF Without, Ace
  <2>2. \A a \in acl[Temp[l]] : a.kind = "deny" => a \in new
    BY DEF Without, Of
  <2>3. acl' = [acl EXCEPT ![Temp[l]] = new] /\ at[l] = "overlaid" /\ UNCHANGED <<exists, read, restores>>
        /\ at' = [at EXCEPT ![l] = "running"]
    BY <1>10 DEF StartWorker, Goes
  <2>4. \A k \in Launches : read[k] # Nothing => at'[k] = at[k]
    BY <1>a, <2>3
  <2>. HIDE DEF new
  <2>. QED BY <2>1, <2>2, <2>3, <2>4 DEF Grants, Kind
<1>11. CASE TempFails(l)
  <2>. DEFINE new == acl[Temp[l]] \cup {Ace(l, "allow", "tree"), Ace(l, "allow", "only")}
  <2>1. \A a \in new : a \in acl[Temp[l]] \/ (a.sid = l /\ a.kind = "allow")
    BY DEF Ace
  <2>2. \A a \in acl[Temp[l]] : a.kind = "deny" => a \in new
    OBVIOUS
  <2>3. acl' = [acl EXCEPT ![Temp[l]] = new] /\ at[l] = "overlaid" /\ UNCHANGED <<exists, read, restores>>
        /\ at' = [at EXCEPT ![l] = "cleaning"]
    BY <1>11 DEF TempFails, Goes
  <2>4. \A k \in Launches : read[k] # Nothing => at'[k] = at[k]
    BY <1>a, <2>3
  <2>. HIDE DEF new
  <2>. QED BY <2>1, <2>2, <2>3, <2>4 DEF Grants, Kind
<1>12. ASSUME NEW p \in Late, WorkerCreates(l, p) PROVE Quiet
  BY <1>12, <1>a DEF WorkerCreates, Quiet, Same
<1>13. CASE WorkerEnds(l)
  BY <1>13, <1>a DEF WorkerEnds, Goes, Quiet, Kind
<1>14. CASE ReadGuard(l)
  BY <1>14, ReadGuardKind DEF Kind
<1>15. CASE WriteGuard(l)
  BY <1>15 DEF WriteGuard, Revokes, Kind, Same
<1>16. CASE CleanupDone(l)
  BY <1>16, <1>a DEF CleanupDone, Goes, Quiet, Kind
<1>17. CASE Killed(l)
  BY <1>17, <1>a DEF Killed, Goes, Quiet, Kind
<1>18. Quiet => Kind(l)
  BY DEF Kind
<1>. QED BY <1>1, <1>2, <1>3, <1>4, <1>5, <1>6, <1>7, <1>8, <1>9, <1>10, <1>11, <1>12, <1>13, <1>14,
            <1>15, <1>16, <1>17, <1>18, <1>19, <1>20 DEF Acts

\* Every step is of one of the kinds.
LEMMA StepKind ==
  ASSUME LaunchType, BusyInv, Next
  PROVE  \E l \in Launches : Kind(l)
BY NextActs, ActsKind

(* The session directories are there from the start.                       *)
LEMMA TempLasting ==
  ASSUME NEW l \in Launches
  PROVE  Temp[l] \in Lasting /\ Temp[l] \in Paths /\ Temp[l] \notin Walk
BY AclAssumption, LaunchAssumption DEF Lasting, Paths

(* Every step that changes a stage records who overlaps.                   *)
LEMMA CrossActs ==
  ASSUME LaunchType, NEW l \in Launches, Acts(l)
  PROVE  /\ policy' = policy
         /\ \/ at' = at /\ spoiled \subseteq spoiled' /\ mixed' = mixed
            \/ Cross(at')
<1>. USE DEF Goes, Same, Loses
<1>1. CASE (\E depth \in {0, 1} : Prepare(l, depth)) \/ Refresh(l) \/ ApplyFails(l) \/ StepDone(l)
           \/ MarkerFails(l) \/ StartWorker(l) \/ TempFails(l) \/ WorkerEnds(l) \/ CleanupDone(l) \/ Killed(l)
           \/ RestoreDone(l)
  BY <1>1 DEF Prepare, Refresh, ApplyFails, StepDone, MarkerFails, StartWorker, TempFails, WorkerEnds,
              CleanupDone, Killed, RestoreDone
<1>2. CASE ReadTarget(l)
  BY <1>2 DEF ReadTarget, Same
<1>3. CASE WriteTarget(l)
  BY <1>3 DEF WriteTarget, Same
<1>4. CASE SkipDenied(l) \/ (\E p \in Late : WorkerCreates(l, p))
  BY <1>4 DEF SkipDenied, WorkerCreates, Same
<1>5. CASE ReadGuard(l)
  BY <1>5 DEF ReadGuard, Same
<1>6. CASE WriteGuard(l)
  BY <1>6 DEF WriteGuard, Same
<1>7. ASSUME NEW written \in BOOLEAN, Restore(l, written)
      PROVE  policy' = policy /\ at' = at /\ spoiled \subseteq spoiled' /\ mixed' = mixed
  BY <1>7 DEF Restore
<1>8. CASE GuardFails(l)
  BY <1>8 DEF GuardFails
<1>. QED BY <1>1, <1>2, <1>3, <1>4, <1>5, <1>6, <1>7, <1>8 DEF Acts

\* Launches keep their policies; what is spoiled or mixed stays so.
LEMMA CrossedGrows ==
  ASSUME LaunchType, [Next]_vars
  PROVE  policy' = policy /\ spoiled \subseteq spoiled' /\ mixed \subseteq mixed'
<1>1. CASE UNCHANGED vars
  BY <1>1 DEF vars
<1>2. CASE Next
  <2>1. policy' = policy /\ ((at' = at /\ spoiled \subseteq spoiled' /\ mixed' = mixed) \/ Cross(at'))
    BY <1>2, NextActs, CrossActs
  <2>. QED BY <2>1 DEF Cross
<1>. QED BY <1>1, <1>2

\* Who is undisturbed after a step was so before.
LEMMA WasUndisturbed ==
  ASSUME LaunchType, [Next]_vars, NEW l \in Launches, Undisturbed(l)'
  PROVE  Undisturbed(l)
BY CrossedGrows DEF Undisturbed

\* At first nobody changes lists.
LEMMA ApartInit == Init => ApartInv
BY DEF Init, ApartInv, CrossInv, MixInv, Busy, Locked, Cleaning

\* While an unspoiled launch changes lists no other launch does, and none of
\* another policy while one of an unmixed policy does.
LEMMA ApartStep ==
  ASSUME LaunchType, ApartInv, [Next]_vars
  PROVE  ApartInv'
<1>1. /\ policy' = policy
      /\ \/ at' = at /\ spoiled \subseteq spoiled' /\ mixed' = mixed
         \/ Cross(at')
  BY NextActs, CrossActs DEF vars
<1>2. CrossInv'
  <2>. SUFFICES ASSUME NEW l \in Launches \ spoiled', at'[l] \in Busy, NEW k \in Launches \ {l},
                       at'[k] \in Busy
                PROVE  FALSE
    BY DEF CrossInv, Busy, Locked, Cleaning
  <2>1. CASE at' = at /\ spoiled \subseteq spoiled'
    BY <2>1 DEF ApartInv, CrossInv
  <2>2. CASE Cross(at')
    BY <2>2 DEF Cross, Busy
  <2>. QED BY <1>1, <2>1, <2>2
<1>3. MixInv'
  <2>. SUFFICES ASSUME NEW l \in Launches, policy[l] \notin mixed', at'[l] \in Busy,
                       NEW k \in Launches, policy[k] # policy[l], at'[k] \in Busy
                PROVE  FALSE
    BY <1>1 DEF MixInv, Busy, Locked, Cleaning
  <2>1. CASE at' = at /\ mixed' = mixed
    BY <2>1 DEF ApartInv, MixInv
  <2>2. CASE Cross(at')
    BY <2>2 DEF Cross, Busy
  <2>. QED BY <1>1, <2>1, <2>2
<1>. QED BY <1>2, <1>3 DEF ApartInv

(* While an undisturbed launch holds its lock nobody else applies targets  *)
(* or restores; another may clean up if it has the same policy.            *)
LEMMA UndoAlone ==
  ASSUME LaunchType, BusyInv, ApartInv, NEW l \in Launches, at[l] \in Locked, Undisturbed(l),
         NEW k \in Launches, k # l
  PROVE  /\ at[k] \notin Locked
         /\ restores[k] = <<>>
         /\ read[k] # Nothing => at[k] = "cleaning" /\ policy[k] = policy[l] /\ policy[l] \notin mixed
<1>0. at[l] \in Busy /\ Locked \subseteq Busy
  BY DEF Busy
<1>1. CASE l \notin spoiled
  <2>1. at[k] \notin Busy
    BY <1>0, <1>1 DEF ApartInv, CrossInv
  <2>. QED BY <1>0, <2>1 DEF BusyInv, Busy, Locked, Cleaning
<1>2. CASE policy[l] \notin mixed
  <2>1. CASE policy[k] = policy[l]
    <3>1. at[k] \notin Locked
      BY <2>1 DEF BusyInv
    <3>. QED BY <1>2, <2>1, <3>1 DEF BusyInv, Locked
  <2>2. CASE policy[k] # policy[l]
    <3>1. at[k] \notin Busy
      BY <1>0, <1>2, <2>2 DEF ApartInv, MixInv
    <3>. QED BY <1>0, <3>1 DEF BusyInv, Busy, Locked, Cleaning
  <2>. QED BY <2>1, <2>2
<1>. QED BY <1>1, <1>2 DEF Undisturbed

\* The list a roll-back puts back next has its type.
LEMMA UndoneType ==
  ASSUME LaunchType, NEW l \in Launches, restores[l] # <<>>
  PROVE  /\ Len(restores[l]) \in DOMAIN restores[l]
         /\ Len(restores[l]) \in Nat \ {0}
         /\ DOMAIN restores[l] = 1..Len(restores[l])
         /\ Undone(l) \in Undo /\ Undone(l).path \in Paths /\ Undone(l).own \in SUBSET Entry
<1>. DEFINE s == restores[l]
<1>1. s \in Seq(Undo) /\ s # <<>>
  BY DEF LaunchType
<1>. HIDE DEF s
<1>2. Len(s) \in DOMAIN s /\ Len(s) \in Nat \ {0} /\ DOMAIN s = 1..Len(s) /\ s[Len(s)] \in Undo
  BY <1>1
<1>. QED BY <1>2 DEF s, Undone, Undo

\* Putting a list back takes it off the saved ones and leaves the others.
LEMMA UndoesIs ==
  ASSUME LaunchType, NEW l \in Launches, Undoes(l)
  PROVE  /\ DOMAIN restores'[l] = 1..(Len(restores[l]) - 1)
         /\ \A i \in DOMAIN restores'[l] :
               i \in DOMAIN restores[l] /\ i # Len(restores[l]) /\ restores'[l][i] = restores[l][i]
         /\ \A k \in Launches : k # l => restores'[k] = restores[k]
<1>1. restores[l] \in Seq(Undo) /\ restores[l] # <<>> /\ restores \in [Launches -> Seq(Undo)]
  BY DEF Undoes, LaunchType
<1>. DEFINE s == restores[l]
            r == SubSeq(s, 1, Len(s) - 1)
<1>2. /\ DOMAIN r = 1..(Len(s) - 1)
      /\ \A i \in DOMAIN r : i \in DOMAIN s /\ i # Len(s) /\ r[i] = s[i]
  BY <1>1
<1>3. restores' = [restores EXCEPT ![l] = r]
  BY DEF Undoes
<1>. HIDE DEF r
<1>. QED BY <1>1, <1>2, <1>3

\* The directories that are there at first are there.
LEMMA PlaceInit == Init => PlaceInv
BY DEF Init, PlaceInv

\* Every step keeps PlaceInv.
LEMMA PlaceStep ==
  ASSUME LaunchType, BusyInv, PlaceInv, [Next]_vars
  PROVE  PlaceInv'
<1>0. CASE UNCHANGED vars
  BY <1>0 DEF PlaceInv, vars, Nothing
<1>. SUFFICES ASSUME Next PROVE PlaceInv'
  BY <1>0
<1>a. PICK l \in Launches : Kind(l)
  BY StepKind
<1>b. /\ read \in [Launches -> Reading \cup {Nothing}] /\ restores \in [Launches -> Seq(Undo)]
      /\ acl \in [Paths -> SUBSET Entry] /\ Nothing' = Nothing /\ exists \subseteq Paths
  BY DEF LaunchType, Nothing
<1>. DEFINE Here == /\ Lasting \subseteq exists
                    /\ \A p \in Paths : acl[p] # {} => p \in exists
            MadeHere(k) ==
                /\ read[k] # Nothing /\ read[k].made => read[k].task.path \notin Lasting
                /\ \A i \in DOMAIN restores[k] : restores[k][i].made => restores[k][i].path \notin Lasting
<1>c. Here /\ \A k \in Launches : MadeHere(k)
  BY DEF PlaceInv
<1>d. Here' /\ (\A k \in Launches : MadeHere(k)') => PlaceInv'
  BY DEF PlaceInv
<1>e. ASSUME NEW k \in Launches, restores'[k] = <<>> \/ restores'[k] = restores[k],
             read'[k] = Nothing \/ read'[k] = read[k]
      PROVE  MadeHere(k)'
  <2>1. \A i \in DOMAIN restores'[k] : i \in DOMAIN restores[k] /\ restores'[k][i] = restores[k][i]
    BY <1>e
  <2>. QED BY <1>b, <1>c, <1>e, <2>1
<1>1. CASE Quiet
  <2>1. Here'
    BY <1>1, <1>c DEF Quiet
  <2>. QED BY <1>1, <1>d, <1>e, <2>1 DEF Quiet
<1>2. CASE Fetch(l)
  <2>1. PICK t \in todo[l] :
          /\ exists' = exists \cup {t.path}
          /\ read' = [read EXCEPT ![l] =
                [task |-> t, own |-> acl[t.path], seen |-> Seen(acl, t.path), made |-> t.path \notin exists]]
    BY <1>2 DEF Fetch
  <2>2. UNCHANGED <<acl, at, restores>>
    BY <1>2 DEF Fetch
  <2>3. Here'
    BY <2>1, <2>2, <1>c
  <2>4. ASSUME NEW k \in Launches PROVE MadeHere(k)'
    <3>1. CASE k = l
      <4>1. read'[l].made => read'[l].task.path \notin exists
        BY <1>b, <2>1
      <4>. QED BY <1>c, <2>2, <3>1, <4>1
    <3>2. CASE k # l
      BY <1>b, <1>e, <2>1, <2>2, <3>2
    <3>. QED BY <3>1, <3>2
  <2>. QED BY <2>3, <2>4, <1>d
<1>3. CASE WriteTarget(l)
  <2>1. at[l] \in Applying /\ read[l] # Nothing /\ read[l].task.path \in exists
    BY <1>3, WriteTargetIs
  <2>2. read[l].task.path \in Paths
    BY <2>1, ReadingType
  <2>3. Here'
    <3>1. exists' = exists /\ (acl' = acl \/ acl' = [acl EXCEPT ![read[l].task.path] = Written(l)])
      BY <1>3, WriteTargetIs
    <3>. QED BY <1>b, <1>c, <2>1, <2>2, <3>1
  <2>4. ASSUME NEW k \in Launches PROVE MadeHere(k)'
    <3>1. CASE restores'[k] = restores[k]
      BY <1>3, <1>b, <1>e, <3>1, WriteTargetIs
    <3>2. CASE restores'[k] # restores[k]
      <4>1. k = l /\ restores'[l] = Append(restores[l], Record(l)) /\ read'[l] = Nothing
        BY <1>3, <1>b, <3>2, WriteTargetIs
      <4>2. restores[l] \in Seq(Undo) /\ Record(l) \in Undo
        BY <1>b, <2>1, ReadingType
      <4>3. \A i \in DOMAIN restores'[l] :
               restores'[l][i] = Record(l) \/ (i \in DOMAIN restores[l] /\ restores'[l][i] = restores[l][i])
        BY <4>1, <4>2
      <4>4. Record(l).made => Record(l).path \notin Lasting
        BY <1>c, <2>1 DEF Record
      <4>. QED BY <1>b, <1>c, <4>1, <4>3, <4>4
    <3>. QED BY <3>1, <3>2
  <2>. QED BY <2>3, <2>4, <1>d
<1>4. CASE Undoes(l)
  <2>1. restores[l] # <<>>
    BY <1>4 DEF Undoes
  <2>3. Len(restores[l]) \in DOMAIN restores[l] /\ Undone(l).path \in Paths
    BY <2>1, UndoneType
  <2>4. Gone(l) => Undone(l).path \notin Lasting
    BY <1>c, <2>3 DEF Undone, Gone
  <2>5. Here'
    <3>1. CASE Gone(l)
      <4>1. acl' = [acl EXCEPT ![Undone(l).path] = {}] /\ exists' = exists \ {Undone(l).path}
        BY <1>4, <3>1 DEF Undoes
      <4>. QED BY <1>b, <1>c, <3>1, <4>1, <2>3, <2>4
    <3>2. CASE ~Gone(l)
      <4>1. /\ exists' = exists
            /\ \/ acl' = acl
               \/ acl' = [acl EXCEPT ![Undone(l).path] = Undone(l).own] /\ Undone(l).path \in exists
        BY <1>4, <3>2 DEF Undoes
      <4>. QED BY <1>b, <1>c, <4>1
    <3>. QED BY <3>1, <3>2
  <2>6. ASSUME NEW k \in Launches PROVE MadeHere(k)'
    <3>0. read' = read
      BY <1>4 DEF Undoes
    <3>1. CASE k # l
      BY <1>4, <1>e, <3>0, <3>1, UndoesIs
    <3>2. CASE k = l
      <4>1. \A i \in DOMAIN restores'[l] : i \in DOMAIN restores[l] /\ restores'[l][i] = restores[l][i]
        BY <1>4, UndoesIs
      <4>. QED BY <1>b, <1>c, <3>0, <3>2, <4>1
    <3>. QED BY <3>1, <3>2
  <2>. QED BY <2>5, <2>6, <1>d
<1>5. CASE Grants(l)
  <2>1. PICK new : acl' = [acl EXCEPT ![Temp[l]] = new]
    BY <1>5 DEF Grants
  <2>2. UNCHANGED <<exists, read, restores>>
    BY <1>5 DEF Grants
  <2>3. Here'
    BY <2>1, <2>2, <1>b, <1>c, TempLasting
  <2>. QED BY <2>2, <2>3, <1>d, <1>e
<1>6. CASE Revokes(l)
  <2>1. UNCHANGED <<exists, restores>> /\ read' = [read EXCEPT ![l] = Nothing]
    BY <1>6 DEF Revokes
  <2>2. Here'
    BY <1>6, <1>b, <1>c DEF Revokes
  <2>3. \A k \in Launches : read'[k] = Nothing \/ read'[k] = read[k]
    BY <1>b, <2>1
  <2>. QED BY <2>1, <2>2, <2>3, <1>d, <1>e
<1>. QED BY <1>a, <1>1, <1>2, <1>3, <1>4, <1>5, <1>6 DEF Kind

-----------------------------------------------------------------------------
(***************************************************************************)
(* The lists of a path.                                                    *)
(***************************************************************************)
LEMMA ListMembers ==
  ASSUME NEW p
  PROVE  /\ \A S : S \in Current(p) <=>
               \/ S = acl[p]
               \/ \E k \in Launches : read[k] # Nothing /\ read[k].task.path = p /\ S = read[k].own
         /\ \A S : S \in Saved(p) <=>
               \E k \in Launches : \E i \in DOMAIN restores[k] :
                  restores[k][i].path = p /\ S = restores[k][i].own
BY DEF Current, Saved

\* The lists of a path after a step, spelled out.
LEMMA ListMembersNext ==
  ASSUME NEW p
  PROVE  /\ \A S : S \in Current(p)' <=>
               \/ S = acl'[p]
               \/ \E k \in Launches : read'[k] # Nothing /\ read'[k].task.path = p /\ S = read'[k].own
         /\ \A S : S \in Saved(p)' <=>
               \E k \in Launches : \E i \in DOMAIN restores'[k] :
                  restores'[k][i].path = p /\ S = restores'[k][i].own
<1>1. Nothing' = Nothing
  BY DEF Nothing
<1>. QED BY <1>1 DEF Current, Saved

(* Where a new list of a path comes from.                                  *)
Applied(l, p, S) ==
    WriteTarget(l) /\ read[l] # Nothing /\ p = read[l].task.path /\ S = Written(l)
Undid(l, p, S) ==
    /\ Undoes(l)
    /\ p = Undone(l).path
    /\ S = Undone(l).own \/ (S = {} /\ p \notin Lasting)
Granted(l, p, S) ==
    /\ at[l] = "overlaid"
    /\ p = Temp[l]
    /\ \A a \in S : a \in acl[p] \/ (a.sid = l /\ a.kind = "allow")
    /\ \A a \in acl[p] : a.kind = "deny" => a \in S
Revoked(l, p, S) ==
    /\ at[l] = "cleaning"
    /\ read[l] # Nothing
    /\ p = read[l].task.path
    /\ S = Without(read[l].own, l, read[l].task.kind)

\* Where a list comes from that a path has, or a launch has read, after a step.
LEMMA CurrentStep ==
  ASSUME LaunchType, BusyInv, PlaceInv, [Next]_vars, NEW p \in Paths, NEW S \in Current(p)'
  PROVE  \/ S \in Current(p)
         \/ \E l \in Launches : Applied(l, p, S) \/ Undid(l, p, S) \/ Granted(l, p, S) \/ Revoked(l, p, S)
<1>0. CASE UNCHANGED vars
  <2>1. acl' = acl /\ read' = read
    BY <1>0 DEF vars
  <2>. QED BY <2>1, ListMembers, ListMembersNext
<1>. SUFFICES ASSUME Next PROVE \/ S \in Current(p)
                                \/ \E l \in Launches : Applied(l, p, S) \/ Undid(l, p, S)
                                                       \/ Granted(l, p, S) \/ Revoked(l, p, S)
  BY <1>0
<1>a. PICK l \in Launches : Kind(l)
  BY StepKind
<1>b. read \in [Launches -> Reading \cup {Nothing}] /\ acl \in [Paths -> SUBSET Entry]
  BY DEF LaunchType
<1>c. \A T : T \in Current(p) <=>
               \/ T = acl[p]
               \/ \E k \in Launches : read[k] # Nothing /\ read[k].task.path = p /\ T = read[k].own
  BY ListMembers
<1>d. \/ S = acl'[p]
      \/ \E k \in Launches : read'[k] # Nothing /\ read'[k].task.path = p /\ S = read'[k].own
  BY ListMembersNext
<1>1. CASE Quiet
  BY <1>1, <1>c, <1>d DEF Quiet
<1>2. CASE Fetch(l)
  <2>1. PICK t \in todo[l] :
          read' = [read EXCEPT ![l] =
                [task |-> t, own |-> acl[t.path], seen |-> Seen(acl, t.path), made |-> t.path \notin exists]]
    BY <1>2 DEF Fetch
  <2>2. read'[l].task.path = p => read'[l].own = acl[p]
    BY <2>1, <1>b
  <2>3. \A k \in Launches : k # l => read'[k] = read[k]
    BY <2>1, <1>b
  <2>4. acl' = acl
    BY <1>2 DEF Fetch
  <2>. QED BY <1>c, <1>d, <2>2, <2>3, <2>4
<1>3. CASE WriteTarget(l)
  <2>1. /\ read[l] # Nothing /\ read' = [read EXCEPT ![l] = Nothing]
        /\ acl' = acl \/ acl' = [acl EXCEPT ![read[l].task.path] = Written(l)]
    BY <1>3, WriteTargetIs
  <2>2. \A k \in Launches : read'[k] # Nothing => read'[k] = read[k]
    BY <2>1, <1>b
  <2>3. acl'[p] = acl[p] \/ (p = read[l].task.path /\ acl'[p] = Written(l))
    BY <2>1, <1>b
  <2>. QED BY <1>3, <1>c, <1>d, <2>1, <2>2, <2>3 DEF Applied
<1>4. CASE Undoes(l)
  <2>1. read' = read /\ restores[l] # <<>>
    BY <1>4 DEF Undoes
  <2>2. Gone(l) => Undone(l).path \notin Lasting
    <3>1. Len(restores[l]) \in DOMAIN restores[l]
      BY <2>1, UndoneType
    <3>. QED BY <3>1 DEF PlaceInv, Gone, Undone
  <2>3. acl'[p] = acl[p] \/ (p = Undone(l).path /\ acl'[p] = IF Gone(l) THEN {} ELSE Undone(l).own)
    BY <1>4, <1>b DEF Undoes
  <2>. QED BY <1>4, <1>c, <1>d, <2>1, <2>2, <2>3 DEF Undid
<1>5. CASE Grants(l)
  <2>1. PICK new :
          /\ acl' = [acl EXCEPT ![Temp[l]] = new]
          /\ \A a \in new : a \in acl[Temp[l]] \/ (a.sid = l /\ a.kind = "allow")
          /\ \A a \in acl[Temp[l]] : a.kind = "deny" => a \in new
    BY <1>5 DEF Grants
  <2>2. read' = read /\ at[l] = "overlaid"
    BY <1>5 DEF Grants
  <2>3. acl'[p] = acl[p] \/ (p = Temp[l] /\ acl'[p] = new)
    BY <2>1, <1>b
  <2>. QED BY <1>c, <1>d, <2>1, <2>2, <2>3 DEF Granted
<1>6. CASE Revokes(l)
  <2>1. /\ read[l] # Nothing /\ read' = [read EXCEPT ![l] = Nothing] /\ at[l] = "cleaning"
        /\ \/ acl' = acl
           \/ acl' = [acl EXCEPT ![read[l].task.path] = Without(read[l].own, l, read[l].task.kind)]
    BY <1>6 DEF Revokes
  <2>2. \A k \in Launches : read'[k] # Nothing => read'[k] = read[k]
    BY <2>1, <1>b
  <2>3. \/ acl'[p] = acl[p]
        \/ p = read[l].task.path /\ acl'[p] = Without(read[l].own, l, read[l].task.kind)
    BY <2>1, <1>b
  <2>. QED BY <1>c, <1>d, <2>1, <2>2, <2>3 DEF Revoked
<1>. QED BY <1>a, <1>1, <1>2, <1>3, <1>4, <1>5, <1>6 DEF Kind

\* A list that is saved was saved before, or was the path's.
LEMMA SavedStep ==
  ASSUME LaunchType, BusyInv, [Next]_vars, NEW p \in Paths, NEW S \in Saved(p)'
  PROVE  S \in Saved(p) \/ S \in Current(p)
<1>0. CASE UNCHANGED vars
  <2>1. restores' = restores
    BY <1>0 DEF vars
  <2>. QED BY <2>1, ListMembers, ListMembersNext
<1>. SUFFICES ASSUME Next PROVE S \in Saved(p) \/ S \in Current(p)
  BY <1>0
<1>a. PICK l \in Launches : Kind(l)
  BY StepKind
<1>b. restores \in [Launches -> Seq(Undo)]
  BY DEF LaunchType
<1>c. \A T : \A k \in Launches : \A i \in DOMAIN restores[k] :
         restores[k][i].path = p /\ T = restores[k][i].own => T \in Saved(p)
  BY ListMembers
<1>e. PICK k \in Launches : \E i \in DOMAIN restores'[k] :
         restores'[k][i].path = p /\ S = restores'[k][i].own
  BY ListMembersNext
<1>d. PICK i \in DOMAIN restores'[k] : restores'[k][i].path = p /\ S = restores'[k][i].own
  BY <1>e
<1>1. CASE restores'[k] = restores[k]
  BY <1>1, <1>c, <1>d
<1>2. CASE restores'[k] = <<>>
  BY <1>2, <1>d
<1>3. CASE Quiet
  BY <1>1, <1>2, <1>3 DEF Quiet
<1>4. CASE Fetch(l)
  BY <1>1, <1>4 DEF Fetch
<1>5. CASE WriteTarget(l)
  <2>1. restores'[k] = restores[k] \/ (k = l /\ restores'[k] = Append(restores[k], Record(k)))
    BY <1>5, <1>b, WriteTargetIs
  <2>2. CASE k = l /\ restores'[k] = Append(restores[k], Record(k))
    <3>1. read[l] # Nothing
      BY <1>5, WriteTargetIs
    <3>2. Record(k) \in Undo /\ restores[k] \in Seq(Undo)
      BY <2>2, <3>1, <1>b, ReadingType
    <3>3. restores'[k][i] = Record(k) \/ (i \in DOMAIN restores[k] /\ restores'[k][i] = restores[k][i])
      BY <2>2, <3>2
    <3>4. Record(k).path = p => Record(k).own \in Current(p)
      BY <2>2, <3>1, ListMembers DEF Record
    <3>. QED BY <3>3, <3>4, <1>c, <1>d
  <2>. QED BY <2>1, <2>2, <1>1
<1>6. CASE Undoes(l)
  <2>1. k = l => i \in DOMAIN restores[l] /\ restores'[l][i] = restores[l][i]
    BY <1>6, <1>d, UndoesIs
  <2>2. k # l => restores'[k] = restores[k]
    BY <1>6, UndoesIs
  <2>. QED BY <2>1, <2>2, <1>1, <1>c, <1>d
<1>7. CASE Grants(l)
  BY <1>1, <1>7 DEF Grants
<1>8. CASE Revokes(l)
  BY <1>1, <1>8 DEF Revokes
<1>. QED BY <1>a, <1>3, <1>4, <1>5, <1>6, <1>7, <1>8 DEF Kind

(* What was undone was saved.                                              *)
LEMMA UndidSaved ==
  ASSUME LaunchType, NEW l \in Launches, NEW p, NEW S, Undid(l, p, S), S # {} \/ p \in Lasting
  PROVE  S \in Saved(p)
<1>1. Len(restores[l]) \in DOMAIN restores[l] /\ S = Undone(l).own /\ p = Undone(l).path
  BY UndoneType DEF Undid, Undoes
<1>. QED BY <1>1, ListMembers DEF Undone

\* The lists of a path are sets of entries.
LEMMA CurrentType ==
  ASSUME LaunchType, NEW p \in Paths, NEW S \in Current(p)
  PROVE  S \in SUBSET Entry
BY ListMembers, ReadingType DEF LaunchType

-----------------------------------------------------------------------------
(***************************************************************************)
(* Protected directories.                                                  *)
(***************************************************************************)
LEMMA DenyInit == Init => DenyInv
<1>. SUFFICES ASSUME Init PROVE DenyInv
  OBVIOUS
<1>1. (\A k \in Launches : read[k] = Nothing /\ restores[k] = <<>>) /\ \A p \in Paths : acl[p] = {}
  BY DEF Init
<1>2. \A p \in Paths : \A S \in Lists(p) : S = {}
  BY <1>1, ListMembers DEF Lists
<1>. QED BY <1>1, <1>2 DEF DenyInv

\* Every step keeps DenyInv.
LEMMA DenyStep ==
  ASSUME LaunchType, BusyInv, PlaceInv, DenyInv, [Next]_vars
  PROVE  DenyInv'
<1>. DEFINE Trees(S) == \A a \in S : a.kind = "deny" => a.scope = "tree"
<1>a. \A p \in Paths : \A S \in Current(p) \cup Saved(p) : Trees(S)
  BY DEF DenyInv, Lists
<1>b. \A k \in Launches : read[k] # Nothing => read[k].own \in Current(read[k].task.path)
  BY ListMembers
<1>1. ASSUME NEW p \in Paths, NEW S \in Current(p)' PROVE Trees(S)
  <2>1. CASE S \in Current(p)
    BY <2>1, <1>a
  <2>2. ASSUME NEW l \in Launches, Applied(l, p, S) PROVE Trees(S)
    <3>1. read[l] # Nothing /\ S = Written(l) /\ p = read[l].task.path
      BY <2>2 DEF Applied
    <3>2. Trees(read[l].own)
      BY <1>a, <1>b, <3>1
    <3>3. \A a \in S : a \in read[l].own \/ (a.kind = "deny" => a.scope = "tree")
      BY <3>1, WrittenIs
    <3>. QED BY <3>2, <3>3
  <2>3. ASSUME NEW l \in Launches, Undid(l, p, S) PROVE Trees(S)
    <3>1. CASE S = {}
      BY <3>1
    <3>2. CASE S # {}
      BY <2>3, <3>2, <1>a, UndidSaved
    <3>. QED BY <3>1, <3>2
  <2>4. ASSUME NEW l \in Launches, Granted(l, p, S) PROVE Trees(S)
    <3>1. Trees(acl[p])
      BY <1>a DEF Current
    <3>. QED BY <2>4, <3>1 DEF Granted
  <2>5. ASSUME NEW l \in Launches, Revoked(l, p, S) PROVE Trees(S)
    <3>1. read[l] # Nothing /\ p = read[l].task.path /\ S \subseteq read[l].own
      BY <2>5 DEF Revoked, Without
    <3>2. Trees(read[l].own)
      BY <1>a, <1>b, <3>1
    <3>. QED BY <3>1, <3>2
  <2>. QED BY <2>1, <2>2, <2>3, <2>4, <2>5, CurrentStep
<1>2. ASSUME NEW p \in Paths, NEW S \in Saved(p)' PROVE Trees(S)
  BY <1>a, SavedStep
<1>3. \A k \in Launches : (read[k] # Nothing => read[k].own \subseteq read[k].seen)'
  <2>. SUFFICES ASSUME NEW k \in Launches, read'[k] # Nothing PROVE read'[k].own \subseteq read'[k].seen
    BY DEF Nothing
  <2>a. read[k] # Nothing => read[k].own \subseteq read[k].seen
    BY DEF DenyInv
  <2>b. read \in [Launches -> Reading \cup {Nothing}] /\ acl \in [Paths -> SUBSET Entry]
        /\ todo \in [Launches -> SUBSET Tasks]
    BY DEF LaunchType
  <2>1. CASE read'[k] = read[k]
    BY <2>1, <2>a
  <2>2. CASE UNCHANGED vars
    BY <2>1, <2>2 DEF vars
  <2>3. CASE Next
    <3>a. PICK l \in Launches : Kind(l)
      BY <2>3, StepKind
    <3>1. CASE Quiet
      BY <3>1, <2>1 DEF Quiet
    <3>2. CASE Fetch(l)
      <4>1. PICK t \in todo[l] :
          read' = [read EXCEPT ![l] =
                [task |-> t, own |-> acl[t.path], seen |-> Seen(acl, t.path), made |-> t.path \notin exists]]
        BY <3>2 DEF Fetch
      <4>2. t.path \in Paths
        BY <2>b DEF Tasks
      <4>3. acl[t.path] \subseteq Seen(acl, t.path)
        BY <2>b, <4>2, SeenType
      <4>4. CASE k = l
        BY <2>b, <4>1, <4>3, <4>4
      <4>5. CASE k # l
        BY <2>b, <2>1, <4>1, <4>5
      <4>. QED BY <4>4, <4>5
    <3>3. CASE WriteTarget(l)
      BY <3>3, <2>1, <2>b, WriteTargetIs
    <3>4. CASE Undoes(l)
      BY <3>4, <2>1 DEF Undoes
    <3>5. CASE Grants(l)
      BY <3>5, <2>1 DEF Grants
    <3>6. CASE Revokes(l)
      BY <3>6, <2>1, <2>b DEF Revokes
    <3>. QED BY <3>a, <3>1, <3>2, <3>3, <3>4, <3>5, <3>6 DEF Kind
  <2>. QED BY <2>2, <2>3
<1>. QED BY <1>1, <1>2, <1>3 DEF DenyInv, Lists

(* The denial survives every step on a path that lasts, unless a list      *)
(* without it is restored.                                                 *)
LEMMA FirmStep ==
  ASSUME LaunchType, BusyInv, PlaceInv, [Next]_vars, NEW s \in Policies, NEW q \in Lasting, Firm(s, q),
         Kept(s, q) \/ \A l \in Launches : at[l] \notin Undoing
  PROVE  Firm(s, q)'
<1>1. q \in Paths /\ s \notin Launches
  BY LaunchAssumption DEF Lasting
<1>2. DenyAll(s).kind = "deny" /\ DenyAll(s).sid = s /\ DenyAll(s)' = DenyAll(s)
  BY DEF DenyAll, Ace
<1>. HIDE DEF DenyAll
<1>. SUFFICES ASSUME NEW S \in Current(q)' PROVE DenyAll(s) \in S
  BY <1>2 DEF Firm
<1>a. \A T \in Current(q) : DenyAll(s) \in T
  BY DEF Firm
<1>b. \A k \in Launches : read[k] # Nothing /\ read[k].task.path = q => DenyAll(s) \in read[k].own
  BY <1>a, ListMembers
<1>3. ASSUME NEW l \in Launches, Applied(l, q, S) PROVE DenyAll(s) \in S
  <2>1. read[l] # Nothing /\ q = read[l].task.path /\ S = Written(l)
    BY <1>3 DEF Applied
  <2>2. DenyAll(s) \in read[l].own
    BY <1>b, <2>1
  <2>. QED BY <1>2, <2>1, <2>2, WrittenIs
<1>4. ASSUME NEW l \in Launches, Undid(l, q, S) PROVE DenyAll(s) \in S
  <2>1. S \in Saved(q)
    BY <1>4, UndidSaved
  <2>2. at[l] \in Undoing
    BY <1>4 DEF Undid, Undoes
  <2>. QED BY <2>1, <2>2 DEF Kept
<1>5. ASSUME NEW l \in Launches, Granted(l, q, S) PROVE DenyAll(s) \in S
  <2>1. DenyAll(s) \in acl[q]
    BY <1>a, ListMembers
  <2>. QED BY <1>2, <1>5, <2>1 DEF Granted
<1>6. ASSUME NEW l \in Launches, Revoked(l, q, S) PROVE DenyAll(s) \in S
  <2>1. read[l] # Nothing /\ q = read[l].task.path /\ S = Without(read[l].own, l, read[l].task.kind)
    BY <1>6 DEF Revoked
  <2>2. DenyAll(s) \in read[l].own
    BY <1>b, <2>1
  <2>. QED BY <1>1, <1>2, <2>1, <2>2 DEF Without, Of
<1>. QED BY <1>1, <1>a, <1>3, <1>4, <1>5, <1>6, CurrentStep

\* A denial of the stable SID on every list of a path stays there.
LEMMA KeptStep ==
  ASSUME LaunchType, BusyInv, [Next]_vars, NEW s \in Policies, NEW q \in Lasting, Firm(s, q), Kept(s, q)
  PROVE  Kept(s, q)'
<1>1. q \in Paths /\ DenyAll(s)' = DenyAll(s)
  BY DEF Lasting, DenyAll
<1>2. \A S \in Saved(q)' : S \in Saved(q) \/ S \in Current(q)
  BY <1>1, SavedStep
<1>. QED BY <1>1, <1>2 DEF Kept, Firm

\* A protected directory and its ancestors outlast every step.
LEMMA SelfLasting ==
  ASSUME NEW d \in Protected
  PROVE  Self(d) \subseteq Lasting /\ d \in Lasting /\ d \in Walk
BY AclAssumption, LaunchAssumption DEF Self

(* A step leaves the other launches where they are.                        *)
Still(k) ==
    /\ at'[k] = at[k] /\ todo'[k] = todo[k] /\ read'[k] = read[k]
    /\ restores'[k] = restores[k] /\ guards'[k] = guards[k]

\* A step of one launch leaves the place and the tasks of the others.
LEMMA OthersStill ==
  ASSUME LaunchType, NEW l \in Launches, Acts(l), NEW k \in Launches, k # l
  PROVE  Still(k)
<1>. USE DEF LaunchType, Still
<1>1. CASE \E depth \in {0, 1} : Prepare(l, depth)
  BY <1>1 DEF Prepare, Goes
<1>2. CASE Refresh(l)
  BY <1>2 DEF Refresh, Goes
<1>3. CASE ReadTarget(l)
  <2>1. \E t, r : (read' = [read EXCEPT ![l] = r] /\ todo' = todo)
                  \/ (todo' = [todo EXCEPT ![l] = @ \ {t}] /\ read' = read)
    BY <1>3 DEF ReadTarget, Same
  <2>2. UNCHANGED <<at, restores, guards>>
    BY <1>3 DEF ReadTarget, Same
  <2>. QED BY <2>1, <2>2
<1>4. CASE WriteTarget(l)
  <2>1. /\ at' = at /\ read' = [read EXCEPT ![l] = Nothing]
        /\ restores' = restores \/ restores' = [restores EXCEPT ![l] = Append(@, Record(l))]
        /\ guards' = guards \/ guards' = [guards EXCEPT ![l] = @ \cup {read[l].task}]
        /\ todo' = [todo EXCEPT ![l] = @ \ {read[l].task}]
    BY <1>4, WriteTargetIs
  <2>2. at'[k] = at[k] /\ todo'[k] = todo[k] /\ read'[k] = read[k]
    BY <2>1
  <2>3. restores'[k] = restores[k] /\ guards'[k] = guards[k]
    BY <2>1
  <2>. QED BY <2>2, <2>3
<1>5. CASE SkipDenied(l)
  BY <1>5 DEF SkipDenied, Same
<1>6. CASE ApplyFails(l)
  BY <1>6 DEF ApplyFails, Goes
<1>7. ASSUME NEW written \in BOOLEAN, Restore(l, written) PROVE Still(k)
  <2>1. UNCHANGED <<todo, read, at, guards>> /\ \E s : restores' = [restores EXCEPT ![l] = s]
    BY <1>7 DEF Restore, Same, Loses
  <2>. QED BY <2>1
<1>18. CASE RestoreDone(l)
  BY <1>18 DEF RestoreDone, Goes
<1>19. CASE GuardFails(l)
  BY <1>19 DEF GuardFails, Loses
<1>8. CASE StepDone(l)
  BY <1>8 DEF StepDone, Goes
<1>9. CASE MarkerFails(l)
  BY <1>9 DEF MarkerFails, Goes
<1>10. CASE StartWorker(l)
  BY <1>10 DEF StartWorker, Goes
<1>11. CASE TempFails(l)
  BY <1>11 DEF TempFails, Goes
<1>12. CASE \E p \in Late : WorkerCreates(l, p)
  BY <1>12 DEF WorkerCreates, Same
<1>13. CASE WorkerEnds(l)
  BY <1>13 DEF WorkerEnds, Goes
<1>14. CASE ReadGuard(l)
  <2>1. \E t, r : (read' = [read EXCEPT ![l] = r] /\ todo' = todo)
                  \/ (todo' = [todo EXCEPT ![l] = @ \ {t}] /\ read' = read)
    BY <1>14 DEF ReadGuard, Same
  <2>2. UNCHANGED <<at, restores, guards>>
    BY <1>14 DEF ReadGuard, Same
  <2>. QED BY <2>1, <2>2
<1>15. CASE WriteGuard(l)
  BY <1>15 DEF WriteGuard, Same
<1>16. CASE CleanupDone(l)
  BY <1>16 DEF CleanupDone, Goes
<1>17. CASE Killed(l)
  BY <1>17 DEF Killed, Goes
<1>. QED BY <1>1, <1>2, <1>3, <1>4, <1>5, <1>6, <1>7, <1>8, <1>9, <1>10, <1>11, <1>12, <1>13, <1>14,
            <1>15, <1>16, <1>17, <1>18, <1>19 DEF Acts

Restores(l) == \E written \in BOOLEAN : Restore(l, written)

(* Which action leads to which stage.                                      *)
LEMMA StageActs ==
  ASSUME LaunchType, NEW l \in Launches, Acts(l)
  PROVE  \/ at'[l] = at[l] /\ (ReadTarget(l) \/ WriteTarget(l) \/ SkipDenied(l) \/ Restores(l)
                               \/ ReadGuard(l) \/ WriteGuard(l) \/ GuardFails(l)
                               \/ \E p \in Late : WorkerCreates(l, p))
         \/ at'[l] = "prepare" /\ at[l] = "idle" /\ \E depth \in {0, 1} : Prepare(l, depth)
         \/ at'[l] = "refresh" /\ at[l] = "prepared" /\ Refresh(l)
         \/ at[l] = "prepare" /\ at'[l] = "undo prepare" /\ ApplyFails(l)
         \/ at[l] = "refresh" /\ at'[l] = "undo refresh" /\ ApplyFails(l)
         \/ at[l] = "overlay" /\ at'[l] = "undo overlay" /\ ApplyFails(l)
         \/ at[l] \in Undoing /\ at'[l] = "failed" /\ RestoreDone(l) /\ restores[l] = <<>>
         \/ at[l] = "prepare" /\ at'[l] = "prepared" /\ StepDone(l)
         \/ at[l] = "refresh" /\ at'[l] = "overlay" /\ StepDone(l)
         \/ at[l] = "overlay" /\ at'[l] = "overlaid" /\ StepDone(l)
         \/ at[l] = "refresh" /\ at'[l] = "failed" /\ MarkerFails(l)
         \/ at[l] = "overlaid" /\ at'[l] = "running" /\ StartWorker(l)
         \/ at[l] = "overlaid" /\ at'[l] = "cleaning" /\ TempFails(l)
         \/ at[l] \in {"overlaid", "running"} /\ at'[l] = "cleaning" /\ WorkerEnds(l)
         \/ at[l] = "cleaning" /\ at'[l] = "done" /\ CleanupDone(l)
         \/ at'[l] = "killed" /\ Killed(l)
<1>. USE DEF LaunchType
<1>1. CASE \E depth \in {0, 1} : Prepare(l, depth)
  BY <1>1 DEF Prepare, Goes
<1>2. CASE Refresh(l)
  BY <1>2 DEF Refresh, Goes
<1>3. CASE ReadTarget(l)
  BY <1>3 DEF ReadTarget, Same
<1>4. CASE WriteTarget(l)
  BY <1>4 DEF WriteTarget, Same
<1>5. CASE SkipDenied(l)
  BY <1>5 DEF SkipDenied, Same
<1>6. CASE ApplyFails(l)
  BY <1>6 DEF ApplyFails, Goes
<1>7. CASE Restores(l)
  BY <1>7 DEF Restores, Restore, Same, Loses
<1>18. CASE RestoreDone(l)
  BY <1>18 DEF RestoreDone, Goes, Undoing
<1>19. CASE GuardFails(l)
  BY <1>19 DEF GuardFails, Loses
<1>8. CASE StepDone(l)
  BY <1>8 DEF StepDone, Goes
<1>9. CASE MarkerFails(l)
  BY <1>9 DEF MarkerFails, Goes
<1>10. CASE StartWorker(l)
  BY <1>10 DEF StartWorker, Goes
<1>11. CASE TempFails(l)
  BY <1>11 DEF TempFails, Goes
<1>12. CASE \E p \in Late : WorkerCreates(l, p)
  BY <1>12 DEF WorkerCreates, Same
<1>13. CASE WorkerEnds(l)
  BY <1>13 DEF WorkerEnds, Goes
<1>14. CASE ReadGuard(l)
  BY <1>14 DEF ReadGuard, Same
<1>15. CASE WriteGuard(l)
  BY <1>15 DEF WriteGuard, Same
<1>16. CASE CleanupDone(l)
  BY <1>16 DEF CleanupDone, Goes
<1>17. CASE Killed(l)
  BY <1>17 DEF Killed, Goes
<1>. QED BY <1>1, <1>2, <1>3, <1>4, <1>5, <1>6, <1>7, <1>8, <1>9, <1>10, <1>11, <1>12, <1>13, <1>14,
            <1>15, <1>16, <1>17, <1>18, <1>19 DEF Acts, Restores

\* Every step keeps PastInv.
LEMMA PastStep ==
  ASSUME LaunchType, BusyInv, ApartInv, PlaceInv, ProtectInv, [Next]_vars
  PROVE  PastInv'
<1>0. policy' = policy
  BY CrossedGrows
<1>. SUFFICES ASSUME NEW k \in Launches, at'[k] \in Past, Undisturbed(k)', NEW d \in Protected
              PROVE  \E q \in Self(d) : Firm(policy[k], q)' /\ Kept(policy[k], q)'
  BY <1>0 DEF PastInv, Past, Self
<1>. DEFINE s == policy[k]
<1>a. s \in Policies /\ s' = s
  BY <1>0 DEF LaunchType
<1>b. Undisturbed(k)
  BY WasUndisturbed
<1>1. CASE at[k] \in Past
  <2>1. PICK q \in Self(d) : Firm(s, q) /\ Kept(s, q)
    BY <1>1, <1>b DEF ProtectInv, PastInv
  <2>2. q \in Lasting
    BY SelfLasting
  <2>. HIDE DEF s
  <2>3. Firm(s, q)' /\ Kept(s, q)'
    BY <1>a, <2>1, <2>2, FirmStep, KeptStep
  <2>. QED BY <2>3 DEF s
<1>2. CASE at[k] \notin Past
  <2>2. Next
    BY <1>2 DEF vars
  <2>3. PICK l \in Launches : Acts(l)
    BY <2>2, NextActs
  <2>4. l = k
    BY <1>2, <2>3, OthersStill DEF Still
  <2>5. StepDone(k) /\ at[k] = "refresh"
    BY <1>2, <2>3, <2>4, StageActs DEF Past
  <2>6. todo[k] = {} /\ acl' = acl /\ read' = read /\ restores' = [restores EXCEPT ![k] = <<>>]
    BY <2>5 DEF StepDone
  <2>7. PICK q \in Self(d) : Firm(s, q)
    BY <1>b, <2>5, <2>6 DEF ProtectInv, RefreshInv
  <2>8. at[k] \in Locked /\ restores \in [Launches -> Seq(Undo)]
    BY <2>5 DEF Locked, LaunchType
  <2>9. Firm(policy[k], q)'
    <3>1. Current(q)' = Current(q) /\ DenyAll(s)' = DenyAll(s)
      BY <1>a, <2>6 DEF Current, Nothing, DenyAll
    <3>. QED BY <2>7, <3>1 DEF Firm
  <2>10. \A j \in Launches : restores'[j] = <<>>
    BY <1>b, <2>6, <2>8, UndoAlone
  <2>11. Kept(policy[k], q)'
    <3>1. Saved(q)' = {}
      BY <2>10, ListMembersNext
    <3>. QED BY <3>1 DEF Kept
  <2>. QED BY <2>9, <2>11
<1>. QED BY <1>1, <1>2

(* What a path sees of the stable SID's denial is on the list of the path  *)
(* or of an ancestor.                                                      *)
LEMMA DenialSeen ==
  ASSUME LaunchType, DenyInv, NEW s \in Policies, NEW d \in Paths,
         \E a \in Of(Seen(acl, d), s, "deny") : a.scope = "tree"
  PROVE  \E q \in Self(d) : DenyAll(s) \in acl[q]
<1>0. acl \in [Paths -> SUBSET Entry] /\ Up[d] \subseteq Paths
  BY AclAssumption DEF LaunchType
<1>1. PICK a \in Seen(acl, d) : a.sid = s /\ a.kind = "deny"
  BY DEF Of
<1>2. \E q \in Self(d) : \E b \in acl[q] : b.sid = s /\ b.kind = "deny"
  <2>1. CASE a \in acl[d]
    BY <1>1, <2>1 DEF Self
  <2>2. CASE a \in Inherited(acl, d)
    <3>1. \E q \in Up[d] : \E b \in acl[q] : a.sid = b.sid /\ a.kind = b.kind
      BY <1>0, <2>2, InheritedFrom
    <3>. QED BY <1>1, <3>1 DEF Self
  <2>. QED BY <1>1, <2>1, <2>2 DEF Seen
<1>3. PICK q \in Self(d), b \in Entry : b \in acl[q] /\ b.sid = s /\ b.kind = "deny"
  BY <1>0, <1>2 DEF Self
<1>4. q \in Paths /\ acl[q] \in Lists(q)
  BY <1>0 DEF Self, Lists, Current
<1>5. b.scope = "tree"
  BY <1>3, <1>4 DEF DenyInv
<1>6. b = DenyAll(s)
  BY <1>3, <1>5 DEF Entry, DenyAll, Ace
<1>. QED BY <1>3, <1>6

(* A refresh puts the denial where it is not seen; meanwhile nobody else   *)
(* has a list in hand, or the denial was firm before.                      *)
LEMMA RefreshStep ==
  ASSUME LaunchType, BusyInv, ApartInv, PlaceInv, DenyInv, ProtectInv, [Next]_vars,
         LaunchType', BusyInv', ApartInv', PlaceInv', PastInv'
  PROVE  RefreshInv'
<1>0. policy' = policy
  BY CrossedGrows
<1>. SUFFICES ASSUME NEW m \in Launches, at'[m] = "refresh", Undisturbed(m)', NEW d \in Protected,
                     Task("deny", d) \notin todo'[m] \/ SeesDenial(m, d)'
              PROVE  \E q \in Self(d) : Firm(policy[m], q)'
  BY <1>0 DEF RefreshInv, Self, Task
<1>. DEFINE s == policy[m]
<1>u. Undisturbed(m) /\ s \in Policies /\ s' = s
  BY <1>0, WasUndisturbed DEF LaunchType
<1>a. Self(d) \subseteq Lasting /\ d \in Lasting /\ Lasting \subseteq exists /\ d \in Paths /\ d \in Self(d)
  BY SelfLasting DEF PlaceInv, Lasting, Self
<1>b. /\ at \in [Launches -> Stages] /\ read \in [Launches -> Reading \cup {Nothing}]
      /\ todo \in [Launches -> SUBSET Tasks] /\ acl \in [Paths -> SUBSET Entry] /\ Nothing' = Nothing
      /\ DenyAll(s)' = DenyAll(s)
  BY <1>u DEF LaunchType, Nothing, DenyAll
<1>1. CASE \E k \in Launches : at'[k] \in Past /\ Undisturbed(k)' /\ policy[k] = s
  BY <1>0, <1>1 DEF PastInv, Self
<1>2. CASE ~\E k \in Launches : at'[k] \in Past /\ Undisturbed(k)' /\ policy[k] = s
  <2>1. \A k \in Launches : k # m => read'[k] = Nothing
    <3>. SUFFICES ASSUME NEW k \in Launches, k # m, read'[k] # Nothing PROVE FALSE
      OBVIOUS
    <3>1. at'[k] \in {"prepare", "refresh", "overlay", "cleaning"}
      BY <1>b DEF BusyInv
    <3>2. at'[k] \in Busy /\ at'[m] \in Busy /\ at'[m] \in Locked
      BY <3>1 DEF Busy, Locked, Cleaning
    <3>3. m \in spoiled' /\ s \notin mixed'
      <4>1. m \in spoiled'
        BY <3>2 DEF ApartInv, CrossInv, Busy, Locked, Cleaning
      <4>. QED BY <1>0, <4>1 DEF Undisturbed
    <3>4. policy[k] = s
      BY <1>0, <3>2, <3>3 DEF ApartInv, MixInv, Busy, Locked, Cleaning
    <3>5. at'[k] # "cleaning"
      BY <1>0, <1>2, <3>3, <3>4 DEF Past, Undisturbed
    <3>6. at'[k] \in Locked
      BY <3>1, <3>5 DEF Locked
    <3>. QED BY <1>0, <3>2, <3>4, <3>6 DEF BusyInv, Locked
  <2>2. CASE at[m] = "refresh" /\ (Task("deny", d) \notin todo[m] \/ SeesDenial(m, d))
    <3>1. PICK q \in Self(d) : Firm(s, q)
      BY <1>u, <2>2 DEF ProtectInv, RefreshInv
    <3>2. at[m] \in Locked /\ at[m] \notin Undoing
      BY <2>2 DEF Locked, Undoing
    <3>3. \A l \in Launches : at[l] \notin Undoing
      <4>1. Undoing \subseteq Locked
        BY DEF Undoing, Locked
      <4>. QED BY <1>u, <3>2, <4>1, UndoAlone
    <3>. QED BY <1>a, <1>u, <3>1, <3>3, FirmStep
  <2>3. CASE ~(at[m] = "refresh" /\ (Task("deny", d) \notin todo[m] \/ SeesDenial(m, d)))
    <3>1. Next
      <4>. SUFFICES ASSUME UNCHANGED vars PROVE FALSE
        OBVIOUS
      <4>1. at' = at /\ todo' = todo /\ read' = read
        BY DEF vars
      <4>. QED BY <4>1, <2>3, <1>0, <1>b DEF SeesDenial
    <3>2. PICK l \in Launches : Acts(l)
      BY <3>1, NextActs
    <3>3. l = m
      <4>. SUFFICES ASSUME l # m PROVE FALSE
        OBVIOUS
      <4>1. at'[m] = at[m] /\ todo'[m] = todo[m] /\ read'[m] = read[m]
        BY <3>2, OthersStill DEF Still
      <4>2. SeesDenial(m, d)' => SeesDenial(m, d)
        BY <4>1, <1>0, <1>b DEF SeesDenial
      <4>. QED BY <4>1, <4>2, <2>3
    <3>4. CASE Refresh(m)
      <4>1. todo'[m] = Targets(exists, Len(Order)) /\ read' = read /\ at[m] = "prepared"
        BY <3>4, <1>b DEF Refresh
      <4>2. Task("deny", d) \in todo'[m]
        BY <1>a, <4>1 DEF Targets, DenyTargets, At
      <4>3. read'[m] = Nothing
        BY <4>1 DEF BusyInv
      <4>. QED BY <4>2, <4>3, <1>b DEF SeesDenial
    <3>5. CASE ReadTarget(m)
      <4>1. at[m] = "refresh" /\ todo[m] # {}
        BY <3>5 DEF ReadTarget, Same
      <4>. DEFINE t == NextTask(todo[m])
                  r == [task |-> t, own |-> acl[t.path], seen |-> Seen(acl, t.path), made |-> t.path \notin exists]
      <4>2. \/ read' = [read EXCEPT ![m] = r] /\ todo' = todo
            \/ todo' = [todo EXCEPT ![m] = @ \ {t}] /\ read' = read /\ t.path \notin exists
        BY <3>5 DEF ReadTarget, Same
      <4>. HIDE DEF t
      <4>3. CASE todo' = [todo EXCEPT ![m] = @ \ {t}] /\ read' = read /\ t.path \notin exists
        <5>1. t # Task("deny", d)
          BY <4>3, <1>a DEF Task
        <5>2. SeesDenial(m, d)' => SeesDenial(m, d)
          BY <4>3, <1>0, <1>b DEF SeesDenial
        <5>. QED BY <4>1, <4>3, <5>1, <5>2, <2>3, <1>b
      <4>4. CASE read' = [read EXCEPT ![m] = r] /\ todo' = todo
        <5>1. SeesDenial(m, d)'
          BY <4>1, <4>4, <2>3
        <5>2. read'[m] = r
          BY <4>4, <1>b
        <5>3. t = Task("deny", d) /\ t.path = d
          BY <5>1, <5>2 DEF SeesDenial, Task
        <5>4. \E a \in Of(Seen(acl, d), s, "deny") : a.scope = "tree"
          BY <5>1, <5>2, <5>3, <1>0 DEF SeesDenial
        <5>5. PICK q \in Self(d) : DenyAll(s) \in acl[q]
          BY <1>a, <1>u, <5>4, DenialSeen
        <5>6. acl' = acl
          BY <3>5 DEF ReadTarget, Same
        <5>7. r.task.path = d /\ r.own = acl[d]
          BY <5>3
        <5>8. Firm(s, q)'
          BY <1>b, <2>1, <5>2, <5>5, <5>6, <5>7, ListMembersNext DEF Firm
        <5>. QED BY <5>8
      <4>. QED BY <4>2, <4>3, <4>4
    <3>6. CASE WriteTarget(m)
      <4>1. /\ read[m] # Nothing /\ at[m] = "refresh" /\ read' = [read EXCEPT ![m] = Nothing]
            /\ todo' = [todo EXCEPT ![m] = @ \ {read[m].task}]
            /\ acl' = IF Changed(m) THEN [acl EXCEPT ![read[m].task.path] = Written(m)] ELSE acl
        BY <3>6, WriteTargetIs
      <4>2. read'[m] = Nothing
        BY <4>1, <1>b
      <4>3. ~SeesDenial(m, d)'
        BY <4>2, <1>b DEF SeesDenial
      <4>4. Task("deny", d) \in todo[m] /\ ~SeesDenial(m, d)
        BY <4>1, <2>3
      <4>5. read[m].task = Task("deny", d)
        BY <1>b, <4>1, <4>3, <4>4
      <4>6. read[m].task.kind = "deny" /\ read[m].task.path = d /\ Sid(m) = s
        BY <4>1, <4>5 DEF Task, Sid
      <4>7. ~\E a \in Of(read[m].seen, s, "deny") : a.scope = "tree"
        BY <4>1, <4>4, <4>5 DEF SeesDenial
      <4>8. DenyAll(s) \in Written(m)
        BY <4>1, <4>6, <4>7, WrittenIs DEF DenyAll
      <4>9. Changed(m)
        <5>. SUFFICES ASSUME ~Changed(m) PROVE FALSE
          OBVIOUS
        <5>1. DenyAll(s) \in read[m].seen
          BY <4>1, <4>8 DEF Changed, DenyInv
        <5>2. DenyAll(s).sid = s /\ DenyAll(s).kind = "deny" /\ DenyAll(s).scope = "tree"
          BY DEF DenyAll, Ace
        <5>. QED BY <5>1, <5>2, <4>7 DEF Of
      <4>10. DenyAll(s) \in acl'[d]
        BY <1>a, <1>b, <4>1, <4>6, <4>8, <4>9
      <4>11. Firm(s, d)'
        BY <1>b, <2>1, <4>2, <4>10, ListMembersNext DEF Firm
      <4>. QED BY <1>a, <4>11
    <3>7. CASE SkipDenied(m)
      <4>1. /\ at[m] = "refresh" /\ read' = [read EXCEPT ![m] = Nothing]
            /\ todo' = [todo EXCEPT ![m] = @ \ {read[m].task}]
            /\ read[m].task.path \notin Protected
        BY <3>7 DEF SkipDenied, Same
      <4>2. ~SeesDenial(m, d)'
        BY <4>1, <1>b DEF SeesDenial
      <4>3. read[m].task # Task("deny", d)
        BY <4>1 DEF Task
      <4>. QED BY <1>b, <4>1, <4>2, <4>3, <2>3
    <3>8. at[m] = "refresh" \/ Refresh(m)
      BY <3>2, <3>3, StageActs
    <3>9. CASE at[m] = "refresh"
      <4>1. /\ ~Restores(m) /\ ~ReadGuard(m) /\ ~WriteGuard(m) /\ ~GuardFails(m) /\ \A p \in Late : ~WorkerCreates(m, p)
        BY <3>9 DEF Restores, Restore, ReadGuard, WriteGuard, GuardFails, WorkerCreates, Same
      <4>. QED BY <3>2, <3>3, <3>4, <3>5, <3>6, <3>7, <3>9, <4>1, StageActs
    <3>. QED BY <3>4, <3>8, <3>9
  <2>. QED BY <2>2, <2>3
<1>. QED BY <1>1, <1>2

(* The denial on a directory or an ancestor holds for all that lies below. *)
LEMMA DenialHolds ==
  ASSUME LaunchType, NEW p \in Paths, NEW d \in {p} \cup Up[p], NEW q \in Self(d), NEW s,
         DenyAll(s) \in acl[q], NEW l
  PROVE  ~MayWrite(acl, p, s, l)
<1>0. acl \in [Paths -> SUBSET Entry]
  BY DEF LaunchType
<1>1. q \in {p} \cup Up[p]
  BY AclAssumption DEF Self
<1>2. DenyAll(s).sid = s /\ DenyAll(s).kind = "deny" /\ DenyAll(s).scope # "self"
  BY DEF DenyAll, Ace
<1>. HIDE DEF DenyAll
<1>3. \E a \in Seen(acl, p) : a.sid = s /\ a.kind = "deny"
  <2>1. CASE q = p
    BY <1>2, <2>1 DEF Seen
  <2>2. CASE q \in Up[p]
    <3>1. \E a \in Inherited(acl, p) : a.sid = DenyAll(s).sid /\ a.kind = DenyAll(s).kind
      BY <1>0, <1>2, <2>2, InheritedFrom
    <3>. QED BY <1>2, <3>1 DEF Seen
  <2>. QED BY <1>1, <2>1, <2>2
<1>. QED BY <1>3 DEF MayWrite

\* With the denial on the lists, a worker may not write below the directory.
LEMMA ProtectedNow ==
  ASSUME LaunchType, PastInv
  PROVE  ProtectedWhileRunning
<1>. SUFFICES ASSUME NEW l \in Launches, at[l] = "running", Undisturbed(l), NEW p \in exists,
                     At(p, Protected)
              PROVE  ~MayWrite(acl, p, policy[l], l)
  BY DEF ProtectedWhileRunning, Running
<1>1. p \in Paths
  BY DEF LaunchType
<1>2. PICK d \in Protected : d \in {p} \cup Up[p]
  BY DEF At
<1>3. at[l] \in Past
  BY DEF Past
<1>4. PICK q \in Self(d) : Firm(policy[l], q)
  BY <1>3 DEF PastInv
<1>5. DenyAll(policy[l]) \in acl[q]
  BY <1>4 DEF Firm, Current
<1>. QED BY <1>1, <1>2, <1>5, DenialHolds

LaunchInv == LaunchType /\ BusyInv /\ ApartInv /\ PlaceInv /\ DenyInv

(* Only the one holder of a policy's prepared-launch lock applies or       *)
(* restores lists under that policy, what was there at first stays, and a  *)
(* denial always holds for what lies below                                 *)
(* (add_deny_write_ace_with_options).                                      *)
THEOREM LaunchCorrect == Spec => []LaunchInv
<1>1. Init => LaunchInv
  BY TypeInit, BusyInit, ApartInit, PlaceInit, DenyInit DEF LaunchInv
<1>2. LaunchInv /\ [Next]_vars => LaunchInv'
  BY TypeStep, BusyStep, ApartStep, PlaceStep, DenyStep DEF LaunchInv
<1>. QED BY <1>1, <1>2, PTL DEF Spec

(* A running worker never writes below a protected directory: whatever     *)
(* launches of its policy prepare, roll back or take away meanwhile, and   *)
(* whatever those of other policies do if its own changes overlapped       *)
(* nobody's, the denial that apply_deny_acl_targets left for the policy's  *)
(* stable SID is on the list of the directory, or on that of an ancestor.  *)
THEOREM ProtectedCorrect == Spec => []ProtectedWhileRunning
<1>1. Init => LaunchInv /\ ProtectInv
  <2>. SUFFICES ASSUME Init PROVE LaunchInv /\ ProtectInv
    OBVIOUS
  <2>1. LaunchInv
    BY TypeInit, BusyInit, ApartInit, PlaceInit, DenyInit DEF LaunchInv
  <2>2. \A l \in Launches : at[l] = "idle"
    BY DEF Init
  <2>. QED BY <2>1, <2>2 DEF ProtectInv, PastInv, RefreshInv, Past
<1>2. LaunchInv /\ ProtectInv /\ [Next]_vars => (LaunchInv /\ ProtectInv)'
  <2>. SUFFICES ASSUME LaunchInv, ProtectInv, [Next]_vars PROVE (LaunchInv /\ ProtectInv)'
    OBVIOUS
  <2>1. LaunchType /\ BusyInv /\ ApartInv /\ PlaceInv /\ DenyInv
    BY DEF LaunchInv
  <2>2. LaunchType' /\ BusyInv' /\ ApartInv' /\ PlaceInv' /\ DenyInv'
    BY <2>1, TypeStep, BusyStep, ApartStep, PlaceStep, DenyStep
  <2>3. PastInv'
    BY <2>1, PastStep
  <2>4. RefreshInv'
    BY <2>1, <2>2, <2>3, RefreshStep
  <2>. QED BY <2>2, <2>3, <2>4 DEF LaunchInv, ProtectInv
<1>3. LaunchInv /\ ProtectInv => ProtectedWhileRunning
  BY ProtectedNow DEF LaunchInv, ProtectInv
<1>. QED BY <1>1, <1>2, <1>3, PTL DEF Spec

-----------------------------------------------------------------------------
(***************************************************************************)
(* What a launch leaves behind.                                            *)
(***************************************************************************)

(* Who is not busy changes no list of the workspace.                       *)
LEMMA WalkStill ==
  ASSUME LaunchType, BusyInv, NEW k \in Launches, Acts(k), at[k] \notin Busy, NEW p \in Walk
  PROVE  acl'[p] = acl[p]
<1>0. acl \in [Paths -> SUBSET Entry] /\ p \in Paths
  BY DEF LaunchType, Paths
<1>1. ~WriteTarget(k) /\ ~Undoes(k) /\ ~Revokes(k)
  BY DEF WriteTarget, Undoes, Undoing, Revokes, Busy, Locked, Cleaning, Same
<1>2. Quiet \/ Fetch(k) \/ Grants(k)
  BY <1>1, ActsKind DEF Kind
<1>3. CASE Quiet \/ Fetch(k)
  BY <1>3 DEF Quiet, Fetch
<1>4. CASE Grants(k)
  <2>1. PICK new : acl' = [acl EXCEPT ![Temp[k]] = new]
    BY <1>4 DEF Grants
  <2>2. Temp[k] # p
    BY TempLasting
  <2>. QED BY <1>0, <2>1, <2>2
<1>. QED BY <1>2, <1>3, <1>4

(* Nobody comes to name a launch but the launch, in its overlay.           *)
LEMMA UnnamedStep ==
  ASSUME LaunchType, BusyInv, PlaceInv, [Next]_vars, NEW l \in Launches, Unnamed(l), at[l] # "overlay"
  PROVE  Unnamed(l)'
<1>. SUFFICES ASSUME NEW p \in Walk, NEW S \in Current(p)' \cup Saved(p)' PROVE Free(S, l)
  BY DEF Unnamed, Lists, Free
<1>0. p \in Paths /\ \A k \in Launches : policy[k] \notin Launches
  BY LaunchAssumption DEF Paths, LaunchType
<1>a. \A T \in Current(p) \cup Saved(p) : Free(T, l)
  BY DEF Unnamed, Lists
<1>b. \A k \in Launches : read[k] # Nothing /\ read[k].task.path = p => Free(read[k].own, l)
  BY <1>a, ListMembers
<1>1. CASE S \in Saved(p)'
  BY <1>0, <1>1, <1>a, SavedStep
<1>2. CASE S \in Current(p)'
  <2>1. ASSUME NEW k \in Launches, Applied(k, p, S) PROVE Free(S, l)
    <3>1. read[k] # Nothing /\ p = read[k].task.path /\ S = Written(k)
      BY <2>1 DEF Applied
    <3>2. Sid(k) # l
      BY <1>0 DEF Sid
    <3>3. \A a \in S : a \in read[k].own \/ a.sid = Sid(k)
      BY <3>1, WrittenIs
    <3>. QED BY <1>b, <3>1, <3>2, <3>3 DEF Free
  <2>2. ASSUME NEW k \in Launches, Undid(k, p, S) PROVE Free(S, l)
    <3>1. CASE S = {}
      BY <3>1 DEF Free
    <3>2. CASE S # {}
      BY <2>2, <3>2, <1>a, UndidSaved
    <3>. QED BY <3>1, <3>2
  <2>3. ASSUME NEW k \in Launches, Granted(k, p, S) PROVE Free(S, l)
    BY <2>3, TempLasting DEF Granted
  <2>4. ASSUME NEW k \in Launches, Revoked(k, p, S) PROVE Free(S, l)
    <3>1. read[k] # Nothing /\ p = read[k].task.path /\ S \subseteq read[k].own
      BY <2>4 DEF Revoked, Without
    <3>. QED BY <1>b, <3>1 DEF Free
  <2>. QED BY <1>0, <1>2, <1>a, <2>1, <2>2, <2>3, <2>4, CurrentStep
<1>. QED BY <1>1, <1>2

(* A launch that is alone busy and has no list in hand has only the lists  *)
(* of the paths to care about.                                             *)
LEMMA AloneUnnamed ==
  ASSUME LaunchType, BusyInv, CrossInv, NEW l \in Launches \ spoiled, at[l] \in Busy,
         read[l] = Nothing, restores[l] = <<>>, \A p \in Walk : Free(acl[p], l)
  PROVE  Unnamed(l)
<1>1. \A k \in Launches : read[k] = Nothing /\ restores[k] = <<>>
  <2>. SUFFICES ASSUME NEW k \in Launches, k # l PROVE read[k] = Nothing /\ restores[k] = <<>>
    OBVIOUS
  <2>1. at[k] \notin Busy
    BY DEF CrossInv
  <2>. QED BY <2>1 DEF BusyInv, Busy, Locked, Cleaning
<1>2. \A p : \A S \in Lists(p) : S = acl[p]
  BY <1>1, ListMembers DEF Lists
<1>. QED BY <1>2 DEF Unnamed

\* No list names a launch before its overlay, nor after it ended unspoiled.
LEMMA EarlyStep ==
  ASSUME LaunchType, BusyInv, ApartInv, PlaceInv, LeftInv, [Next]_vars
  PROVE  EarlyInv'
<1>. SUFFICES ASSUME NEW l \in Launches,
                     at'[l] \in Early \/ (at'[l] \in {"done", "failed"} /\ l \notin spoiled')
              PROVE  Unnamed(l)'
  BY DEF EarlyInv, Early, Unnamed
<1>a. spoiled \subseteq spoiled' /\ CrossInv /\ EarlyInv /\ UndoInv /\ CleanInv
  BY CrossedGrows DEF LeftInv, ApartInv
<1>. SUFFICES Unnamed(l) /\ at[l] # "overlay"
  BY UnnamedStep
<1>1. CASE at'[l] = at[l]
  BY <1>1, <1>a DEF EarlyInv, Early
<1>2. CASE at'[l] # at[l]
  <2>1. Next
    BY <1>2 DEF vars
  <2>2. PICK k \in Launches : Acts(k)
    BY <2>1, NextActs
  <2>3. k = l
    BY <1>2, <2>2, OthersStill DEF Still
  <2>4. \/ at[l] \in Early
        \/ at[l] = "undo overlay" /\ RestoreDone(l) /\ restores[l] = <<>> /\ l \notin spoiled'
        \/ at[l] = "cleaning" /\ CleanupDone(l) /\ l \notin spoiled'
    BY <1>2, <2>2, <2>3, StageActs DEF Early, Undoing
  <2>5. CASE at[l] \in Early
    BY <2>5, <1>a DEF EarlyInv, Early
  <2>6. CASE at[l] = "undo overlay" /\ RestoreDone(l) /\ restores[l] = <<>> /\ l \notin spoiled'
    <3>1. l \in Launches \ spoiled /\ at[l] \in Busy /\ read[l] = Nothing
      BY <2>6, <1>a DEF Busy, Locked, BusyInv
    <3>2. CanUndo(l)
      BY <2>6, <3>1, <1>a DEF UndoInv
    <3>3. DOMAIN restores[l] = {}
      <4>1. restores[l] \in Seq(Undo) /\ Len(restores[l]) = 0
        BY <2>6 DEF LaunchType
      <4>. QED BY <4>1
    <3>4. \A p \in Walk : Free(acl[p], l)
      BY <3>2, <3>3 DEF CanUndo
    <3>. QED BY <2>6, <3>1, <3>4, <1>a, AloneUnnamed
  <2>7. CASE at[l] = "cleaning" /\ CleanupDone(l) /\ l \notin spoiled'
    <3>1. l \in Launches \ spoiled /\ at[l] \in Busy /\ todo[l] = {}
      BY <2>7, <1>a DEF Busy, Cleaning, CleanupDone
    <3>2. read[l] = Nothing /\ restores[l] = <<>>
      BY <2>7, <3>1 DEF BusyInv, Locked
    <3>3. \A p \in Walk : Free(acl[p], l)
      BY <2>7, <3>1, <1>a DEF CleanInv, Marked, Free
    <3>. QED BY <2>7, <3>1, <3>2, <3>3, <1>a, AloneUnnamed
  <2>. QED BY <2>4, <2>5, <2>6, <2>7
<1>. QED BY <1>1, <1>2

(* From its overlay on, whatever names a launch is under its guards.       *)
LEMMA GuardStep ==
  ASSUME LaunchType, BusyInv, PlaceInv, LeftInv, [Next]_vars
  PROVE  GuardInv'
<1>. DEFINE Stage == Past \ {"cleaning"}
<1>. SUFFICES ASSUME NEW l \in Launches, at'[l] \in Stage PROVE Guarded(l)'
  BY DEF GuardInv, Past
<1>a. EarlyInv /\ GuardInv
  BY DEF LeftInv
<1>b. (\A k \in Launches : policy[k] \notin Launches) /\ guards \in [Launches -> SUBSET Tasks]
  BY LaunchAssumption DEF LaunchType
<1>1. CASE at[l] \notin Stage
  <2>1. Next
    BY <1>1 DEF vars
  <2>2. PICK k \in Launches : Acts(k)
    BY <2>1, NextActs
  <2>3. k = l
    BY <1>1, <2>2, OthersStill DEF Still
  <2>4. at[l] = "refresh"
    BY <1>1, <2>2, <2>3, StageActs DEF Past
  <2>5. Unnamed(l)'
    BY <2>4, <1>a, UnnamedStep DEF EarlyInv, Early
  <2>. QED BY <2>5 DEF Unnamed, Guarded, Free, Marked
<1>2. CASE at[l] \in Stage
  <2>1. Guarded(l)
    BY <1>2, <1>a DEF GuardInv
  <2>2. /\ guards[l] \subseteq guards'[l]
        /\ WriteTarget(l) /\ at[l] = "overlay" /\ Changed(l) => read[l].task \in guards'[l]
    <3>1. CASE UNCHANGED vars
      <4>1. guards' = guards /\ todo' = todo /\ read' = read
        BY <3>1 DEF vars
      <4>2. ~WriteTarget(l)
        <5>. SUFFICES ASSUME WriteTarget(l) PROVE FALSE
          OBVIOUS
        <5>1. read[l] # Nothing /\ read' = [read EXCEPT ![l] = Nothing]
          BY WriteTargetIs
        <5>. QED BY <4>1, <5>1 DEF LaunchType
      <4>. QED BY <4>1, <4>2
    <3>2. CASE WriteTarget(l)
      BY <3>2, <1>b, WriteTargetIs
    <3>3. CASE Next /\ ~WriteTarget(l)
      <4>1. PICK k \in Launches : Acts(k)
        BY <3>3, NextActs
      <4>2. CASE k # l
        BY <4>1, <4>2, <3>3, OthersStill DEF Still
      <4>3. CASE k = l
        <5>1. at'[l] \in {"overlay", "undo overlay", "overlaid", "running"}
          BY DEF Past
        <5>2. at[l] \in {"overlay", "undo overlay", "overlaid", "running"}
          BY <1>2 DEF Past
        <5>3. CASE ReadTarget(l) \/ SkipDenied(l) \/ ApplyFails(l) \/ StepDone(l)
                   \/ \E p \in Late : WorkerCreates(l, p)
          BY <5>3, <3>3 DEF ReadTarget, SkipDenied, ApplyFails, StepDone, WorkerCreates, Same
        <5>4. CASE Restores(l)
          <6>1. guards' = guards
            BY <5>4 DEF Restores, Restore
          <6>. QED BY <6>1, <3>3
        <5>5. CASE StartWorker(l)
          BY <5>5, <3>3, <1>b DEF StartWorker
        <5>6. ~ReadGuard(l) /\ ~WriteGuard(l) /\ ~GuardFails(l)
          BY <5>2 DEF ReadGuard, WriteGuard, GuardFails, Same
        <5>. QED BY <4>1, <4>3, <3>3, <5>1, <5>2, <5>3, <5>4, <5>5, <5>6, StageActs
      <4>. QED BY <4>2, <4>3
    <3>. QED BY <3>1, <3>2, <3>3
  <2>. SUFFICES ASSUME NEW p \in Walk, NEW S \in Current(p)' \cup Saved(p)'
                PROVE  Marked(S, l, p, guards'[l])
    BY DEF Guarded, Lists, Marked, Task
  <2>0. p \in Paths
    BY DEF Paths
  <2>3. \A T \in Current(p) \cup Saved(p) : Marked(T, l, p, guards'[l])
    BY <2>1, <2>2 DEF Guarded, Lists, Marked
  <2>4. \A k \in Launches : read[k] # Nothing /\ read[k].task.path = p => Marked(read[k].own, l, p, guards'[l])
    BY <2>3, ListMembers
  <2>5. CASE S \in Saved(p)'
    BY <2>0, <2>3, <2>5, SavedStep
  <2>6. CASE S \in Current(p)'
    <3>1. ASSUME NEW k \in Launches, Applied(k, p, S) PROVE Marked(S, l, p, guards'[l])
      <4>1. read[k] # Nothing /\ p = read[k].task.path /\ S = Written(k) /\ WriteTarget(k)
        BY <3>1 DEF Applied
      <4>2. \A a \in S : a \in read[k].own \/ (a.sid = Sid(k) /\ a.kind = read[k].task.kind)
        BY <4>1, WrittenIs
      <4>3. Marked(read[k].own, l, p, guards'[l])
        BY <2>4, <4>1
      <4>4. CASE Sid(k) # l
        BY <4>2, <4>3, <4>4 DEF Marked
      <4>5. CASE Sid(k) = l
        <5>1. k = l /\ at[l] = "overlay"
          BY <4>5, <1>b DEF Sid
        <5>2. CASE Changed(l)
          <6>1. read[l].task \in guards'[l]
            BY <2>2, <4>1, <5>1, <5>2
          <6>2. read[l].task = Task(read[l].task.kind, p)
            BY <4>1, <5>1, ReadingType
          <6>. QED BY <4>2, <4>3, <5>1, <6>1, <6>2 DEF Marked
        <5>3. CASE ~Changed(l)
          BY <4>1, <4>3, <5>1, <5>3 DEF Changed
        <5>. QED BY <5>2, <5>3
      <4>. QED BY <4>4, <4>5
    <3>2. ASSUME NEW k \in Launches, Undid(k, p, S) PROVE Marked(S, l, p, guards'[l])
      <4>1. CASE S = {}
        BY <4>1 DEF Marked
      <4>2. CASE S # {}
        BY <3>2, <4>2, <2>3, UndidSaved
      <4>. QED BY <4>1, <4>2
    <3>3. ASSUME NEW k \in Launches, Granted(k, p, S) PROVE Marked(S, l, p, guards'[l])
      BY <3>3, TempLasting DEF Granted
    <3>4. ASSUME NEW k \in Launches, Revoked(k, p, S) PROVE Marked(S, l, p, guards'[l])
      <4>1. read[k] # Nothing /\ p = read[k].task.path /\ S \subseteq read[k].own
        BY <3>4 DEF Revoked, Without
      <4>. QED BY <2>4, <4>1 DEF Marked
    <3>. QED BY <2>0, <2>3, <2>6, <3>1, <3>2, <3>3, <3>4, CurrentStep
  <2>. QED BY <2>5, <2>6
<1>. QED BY <1>1, <1>2

(* A launch that is alone busy: no other's step touches its workspace.     *)
LEMMA AloneStill ==
  ASSUME LaunchType, BusyInv, CrossInv, NEW l \in Launches \ spoiled, at[l] \in Busy,
         NEW k \in Launches \ {l}, Acts(k)
  PROVE  /\ \A p \in Walk : acl'[p] = acl[p]
         /\ Still(l)
<1>1. at[k] \notin Busy
  BY DEF CrossInv
<1>. QED BY <1>1, WalkStill, OthersStill

\* A list just fetched is the path's.
LEMMA ReadsFetched ==
  ASSUME LaunchType, NEW l \in Launches, Fetch(l)
  PROVE  Reads(l)'
<1>1. PICK t \in todo[l] :
         read' = [read EXCEPT ![l] =
            [task |-> t, own |-> acl[t.path], seen |-> Seen(acl, t.path), made |-> t.path \notin exists]]
  BY DEF Fetch
<1>2. acl \in [Paths -> SUBSET Entry] /\ t.path \in Paths /\ read \in [Launches -> Reading \cup {Nothing}]
  BY DEF LaunchType, Tasks
<1>3. acl[t.path] \subseteq Seen(acl, t.path) /\ acl' = acl
  BY <1>2, SeenType DEF Fetch
<1>4. read'[l].task.path = t.path /\ read'[l].own = acl[t.path] /\ read'[l].seen = Seen(acl, t.path)
  BY <1>1, <1>2
<1>. QED BY <1>3, <1>4 DEF Reads

(* The rollback of an overlay can always remove what names the launch.     *)
LEMMA CanUndoWrite ==
  ASSUME LaunchType, NEW l \in Launches, WriteTarget(l), CanUndo(l), Reads(l)
  PROVE  CanUndo(l)'
<1>. DEFINE s == restores[l]
            n == Len(s)
            p0 == read[l].task.path
            r == Record(l)
            Ok(p) == \E i \in 1..n : s[i].path = p /\ Free(s[i].own, l)
<1>1. /\ read[l] # Nothing
      /\ acl' = acl \/ acl' = [acl EXCEPT ![p0] = Written(l)]
      /\ (restores' = restores /\ acl' = acl) \/ restores' = [restores EXCEPT ![l] = Append(@, r)]
  BY WriteTargetIs
<1>2. s \in Seq(Undo) /\ r \in Undo /\ acl \in [Paths -> SUBSET Entry] /\ p0 \in Paths
      /\ restores \in [Launches -> Seq(Undo)]
  BY <1>1, ReadingType DEF LaunchType
<1>3. r.path = p0 /\ r.own = read[l].own
  BY DEF Record
<1>4. CASE restores' = restores /\ acl' = acl
  BY <1>4 DEF CanUndo, Free
<1>5. CASE restores' = [restores EXCEPT ![l] = Append(@, r)]
  <2>1. restores'[l] = Append(s, r)
    BY <1>2, <1>5
  <2>. HIDE DEF s, r, p0
  <2>2. /\ n \in Nat /\ DOMAIN s = 1..n /\ DOMAIN restores'[l] = 1..(n + 1)
        /\ restores'[l][n + 1] = r /\ \A i \in 1..n : restores'[l][i] = s[i]
    BY <1>2, <2>1
  <2>. HIDE DEF n
  <2>3. \A p \in Walk : Free(acl[p], l) \/ Ok(p)
    BY <2>2 DEF CanUndo, s
  <2>4. p0 \in Walk => r.own = acl[p0]
    BY <1>1, <1>3 DEF Reads, p0
  <2>5. \A i \in 1..n : i \in 1..(n + 1)
    BY <2>2
  <2>6. n + 1 \in 1..(n + 1)
    BY <2>2
  <2>7. ASSUME NEW p \in Walk
        PROVE  Free(acl'[p], l) \/ \E i \in 1..(n + 1) : restores'[l][i].path = p /\ Free(restores'[l][i].own, l)
    <3>1. CASE Ok(p)
      BY <3>1, <2>2, <2>5
    <3>2. CASE ~Ok(p) /\ p # p0
      <4>1. acl'[p] = acl[p]
        <5>1. p \in Paths /\ (acl' = acl \/ acl' = [acl EXCEPT ![p0] = Written(l)])
          BY <1>1 DEF Paths
        <5>. QED BY <1>2, <3>2, <5>1
      <4>. QED BY <2>3, <3>2, <4>1
    <3>3. CASE ~Ok(p) /\ p = p0
      <4>1. Free(r.own, l)
        BY <2>3, <2>4, <3>3
      <4>. QED BY <1>3, <2>2, <2>6, <3>3, <4>1
    <3>. QED BY <3>1, <3>2, <3>3
  <2>8. ASSUME NEW j \in 1..(n + 1), restores'[l][j].path \in Walk
        PROVE  \/ Free(restores'[l][j].own, l)
               \/ \E i \in 1..(j - 1) :
                     restores'[l][i].path = restores'[l][j].path /\ Free(restores'[l][i].own, l)
    <3>1. CASE j = n + 1
      <4>1. j - 1 = n
        BY <2>2, <3>1
      <4>2. p0 \in Walk /\ restores'[l][j] = r
        BY <1>3, <2>2, <2>8, <3>1
      <4>3. Free(r.own, l) \/ Ok(p0)
        BY <2>3, <2>4, <4>2
      <4>. QED BY <1>3, <2>2, <4>1, <4>2, <4>3
    <3>2. CASE j \in 1..n
      <4>1. \A i \in 1..(j - 1) : i \in 1..n
        BY <2>2, <3>2
      <4>2. restores'[l][j] = s[j] /\ s[j].path \in Walk
        BY <2>2, <2>8, <3>2
      <4>3. Free(s[j].own, l) \/ \E i \in 1..(j - 1) : s[i].path = s[j].path /\ Free(s[i].own, l)
        BY <2>2, <3>2, <4>2 DEF CanUndo, s
      <4>. QED BY <2>2, <4>1, <4>2, <4>3
    <3>. QED BY <2>2, <3>1, <3>2
  <2>. QED BY <2>2, <2>7, <2>8 DEF CanUndo, Free
<1>. QED BY <1>1, <1>4, <1>5

\* Putting the last saved list back leaves the others good for the rest.
LEMMA CanUndoRestore ==
  ASSUME LaunchType, PlaceInv, NEW l \in Launches, Undoes(l), CanUndo(l), l \notin spoiled'
  PROVE  CanUndo(l)'
<1>. DEFINE s == restores[l]
            n == Len(s)
            p0 == Undone(l).path
            m == n - 1
<1>1. /\ n \in Nat \ {0} /\ DOMAIN s = 1..n /\ Undone(l) = s[n] /\ p0 \in Paths
  BY UndoneType DEF Undoes, Undone
<1>2. DOMAIN restores'[l] = 1..m /\ \A i \in DOMAIN restores'[l] : restores'[l][i] = s[i]
  BY UndoesIs
<1>3. acl \in [Paths -> SUBSET Entry] /\ Walk \subseteq Paths
  BY DEF LaunchType, Paths
<1>4. /\ \A p \in Paths : p # p0 => acl'[p] = acl[p]
      /\ acl'[p0] = {} \/ acl'[p0] = Undone(l).own
  <2>1. CASE acl' = [acl EXCEPT ![p0] = IF Gone(l) THEN {} ELSE Undone(l).own]
    BY <1>1, <1>3, <2>1
  <2>2. CASE acl' = acl /\ p0 \notin exists
    BY <1>1, <1>3, <2>2 DEF PlaceInv
  <2>. QED BY <2>1, <2>2 DEF Undoes
<1>5. /\ \A p \in Walk : Free(acl[p], l) \/ \E i \in 1..n : s[i].path = p /\ Free(s[i].own, l)
      /\ \A j \in 1..n : s[j].path \in Walk =>
            Free(s[j].own, l) \/ \E i \in 1..(j - 1) : s[i].path = s[j].path /\ Free(s[i].own, l)
  BY <1>1 DEF CanUndo
<1>. HIDE DEF s, n, p0
<1>6. ASSUME NEW p \in Walk
      PROVE  Free(acl'[p], l) \/ \E i \in 1..m : restores'[l][i].path = p /\ Free(restores'[l][i].own, l)
  <2>1. CASE p = p0
    <3>1. acl'[p] = {} \/ acl'[p] = s[n].own
      BY <1>1, <1>4, <2>1
    <3>2. n \in 1..n /\ s[n].path = p
      BY <1>1, <2>1 DEF p0
    <3>3. Free(s[n].own, l) \/ \E i \in 1..m : s[i].path = p /\ Free(s[i].own, l)
      BY <1>5, <3>2
    <3>. QED BY <1>2, <3>1, <3>3 DEF Free
  <2>2. CASE p # p0
    <3>1. acl'[p] = acl[p]
      BY <1>3, <1>4, <2>2
    <3>2. \A i \in 1..n : s[i].path = p => i \in 1..m
      BY <1>1, <2>2 DEF p0
    <3>. QED BY <1>2, <1>5, <3>1, <3>2
  <2>. QED BY <2>1, <2>2
<1>7. ASSUME NEW j \in 1..m, restores'[l][j].path \in Walk
      PROVE  \/ Free(restores'[l][j].own, l)
             \/ \E i \in 1..(j - 1) :
                   restores'[l][i].path = restores'[l][j].path /\ Free(restores'[l][i].own, l)
  <2>1. j \in 1..n /\ \A i \in 1..(j - 1) : i \in 1..m
    BY <1>1
  <2>2. restores'[l][j] = s[j]
    BY <1>2
  <2>3. Free(s[j].own, l) \/ \E i \in 1..(j - 1) : s[i].path = s[j].path /\ Free(s[i].own, l)
    BY <1>5, <1>7, <2>1, <2>2
  <2>. QED BY <1>2, <2>1, <2>2, <2>3
<1>. QED BY <1>2, <1>6, <1>7 DEF CanUndo, Free

\* Facts on the sequence of saved lists.
LEMMA EmptyUndo ==
  /\ << >> \in Seq(Undo)
  /\ \A s \in Seq(Undo) : Len(s) > 0 <=> s # << >>
  /\ \A s \in Seq(Undo) : s = << >> => DOMAIN s = {}
OBVIOUS

\* Steps that leave the lists leave the roll-back good.
LEMMA CanUndoSame ==
  ASSUME NEW l \in Launches, \A p \in Walk : acl'[p] = acl[p], restores'[l] = restores[l], CanUndo(l)
  PROVE  CanUndo(l)'
BY DEF CanUndo, Free

\* Every step keeps UndoInv.
LEMMA UndoStep ==
  ASSUME LaunchType, BusyInv, ApartInv, PlaceInv, LeftInv, [Next]_vars
  PROVE  UndoInv'
<1>. SUFFICES ASSUME NEW l \in Launches, l \notin spoiled', at'[l] \in {"overlay", "undo overlay"}
              PROVE  CanUndo(l)' /\ Reads(l)'
  BY DEF UndoInv
<1>a. l \in Launches \ spoiled /\ CrossInv /\ EarlyInv /\ UndoInv
  BY CrossedGrows DEF LeftInv, ApartInv
<1>b. read \in [Launches -> Reading \cup {Nothing}] /\ Nothing' = Nothing
      /\ restores \in [Launches -> Seq(Undo)]
  BY DEF LaunchType, Nothing
<1>1. CASE at[l] \notin {"overlay", "undo overlay"}
  <2>1. Next
    BY <1>1 DEF vars
  <2>2. PICK k \in Launches : Acts(k)
    BY <2>1, NextActs
  <2>3. k = l
    BY <1>1, <2>2, OthersStill DEF Still
  <2>4. at[l] = "refresh" /\ StepDone(l)
    BY <1>1, <2>2, <2>3, StageActs
  <2>5. Unnamed(l)'
    BY <2>4, <1>a, UnnamedStep DEF EarlyInv, Early
  <2>6. \A p \in Walk : Free(acl'[p], l)
    BY <2>5 DEF Unnamed, Lists, Current, Free
  <2>7. todo[l] = {} /\ read' = read /\ restores' = [restores EXCEPT ![l] = <<>>]
    BY <2>4 DEF StepDone
  <2>8. read'[l] = Nothing
    BY <2>7 DEF BusyInv
  <2>9. DOMAIN restores'[l] = {}
    <3>1. restores'[l] = << >>
      BY <2>7, <1>b
    <3>. QED BY <3>1, EmptyUndo
  <2>. QED BY <2>6, <2>8, <2>9, <1>b DEF CanUndo, Reads, Free
<1>2. CASE at[l] \in {"overlay", "undo overlay"}
  <2>1. CanUndo(l) /\ Reads(l) /\ at[l] \in Busy
    BY <1>2, <1>a DEF UndoInv, Busy, Locked
  <2>2. CASE (\A p \in Walk : acl'[p] = acl[p]) /\ read'[l] = read[l] /\ restores'[l] = restores[l]
    <3>1. CanUndo(l)'
      BY <2>1, <2>2, CanUndoSame
    <3>2. Reads(l)'
      BY <2>1, <2>2, <1>b DEF Reads
    <3>. QED BY <3>1, <3>2
  <2>3. CASE (\A p \in Walk : acl'[p] = acl[p]) /\ read'[l] = Nothing /\ restores'[l] = restores[l]
    <3>1. CanUndo(l)'
      BY <2>1, <2>3, CanUndoSame
    <3>2. Reads(l)'
      BY <2>3, <1>b DEF Reads
    <3>. QED BY <3>1, <3>2
  <2>4. CASE UNCHANGED vars
    BY <2>2, <2>4 DEF vars
  <2>5. CASE Next
    <3>1. PICK k \in Launches : Acts(k)
      BY <2>5, NextActs
    <3>2. CASE k # l
      BY <2>1, <2>2, <3>1, <3>2, <1>a, AloneStill DEF Still
    <3>3. CASE k = l
      <4>1. CASE ReadTarget(l)
        <5>1. UNCHANGED <<acl, restores>>
          BY <4>1 DEF ReadTarget, Same
        <5>2. read'[l] = read[l] \/ Fetch(l)
          <6>1. read[l] = Nothing
            BY <4>1 DEF ReadTarget, Same
          <6>. QED BY <4>1, <6>1, ReadTargetKind DEF Quiet
        <5>3. CASE read'[l] = read[l]
          BY <2>2, <5>1, <5>3
        <5>4. CASE Fetch(l)
          BY <2>1, <5>1, <5>4, ReadsFetched DEF CanUndo, Free
        <5>. QED BY <5>2, <5>3, <5>4
      <4>2. CASE WriteTarget(l)
        <5>1. read'[l] = Nothing
          BY <4>2, <1>b, WriteTargetIs
        <5>. QED BY <2>1, <4>2, <5>1, <1>b, CanUndoWrite DEF Reads
      <4>3. CASE SkipDenied(l)
        BY <2>3, <4>3, <1>b DEF SkipDenied, Same
      <4>4. CASE ApplyFails(l)
        BY <2>3, <4>4, <1>b DEF ApplyFails
      <4>5. CASE Restores(l)
        <5>1. Undoes(l)
          BY <4>5, RestoreKind DEF Restores
        <5>2. at[l] = "undo overlay" /\ read' = read
          BY <1>2, <4>5 DEF Restores, Restore
        <5>3. read'[l] = Nothing
          BY <5>2 DEF BusyInv
        <5>. QED BY <2>1, <5>1, <5>3, <1>b, CanUndoRestore DEF Reads
      <4>6. ~ReadGuard(l) /\ ~WriteGuard(l) /\ ~GuardFails(l) /\ \A p \in Late : ~WorkerCreates(l, p)
        BY <1>2 DEF ReadGuard, WriteGuard, GuardFails, WorkerCreates, Same
      <4>. QED BY <3>1, <3>3, <1>2, <4>1, <4>2, <4>3, <4>4, <4>5, <4>6, StageActs
    <3>. QED BY <3>2, <3>3
  <2>. QED BY <2>4, <2>5
<1>. QED BY <1>1, <1>2

(* A cleanup takes a target off its list only when nothing there names the *)
(* launch with that kind of entry.                                         *)
LEMMA CleanStep ==
  ASSUME LaunchType, BusyInv, ApartInv, PlaceInv, LeftInv, [Next]_vars
  PROVE  CleanInv'
<1>. SUFFICES ASSUME NEW l \in Launches, l \notin spoiled', at'[l] = "cleaning"
              PROVE  Reads(l)' /\ \A p \in Walk : Marked(acl'[p], l, p, todo'[l])
  BY DEF CleanInv, Marked, Task
<1>a. l \in Launches \ spoiled /\ CrossInv /\ GuardInv /\ CleanInv
  BY CrossedGrows DEF LeftInv, ApartInv
<1>b. read \in [Launches -> Reading \cup {Nothing}] /\ Nothing' = Nothing
      /\ todo \in [Launches -> SUBSET Tasks] /\ acl \in [Paths -> SUBSET Entry] /\ Walk \subseteq Paths
      /\ guards[l] \in SUBSET Tasks /\ exists \in SUBSET Paths
  BY DEF LaunchType, Nothing, Paths
<1>1. CASE at[l] # "cleaning"
  <2>1. Next
    BY <1>1 DEF vars
  <2>2. PICK k \in Launches : Acts(k)
    BY <2>1, NextActs
  <2>3. k = l
    BY <1>1, <2>2, OthersStill DEF Still
  <2>4. at[l] \in {"overlaid", "running"} /\ (TempFails(l) \/ WorkerEnds(l))
    BY <1>1, <2>2, <2>3, StageActs
  <2>5. todo'[l] = CleanTargets(guards[l], exists) /\ read' = read
    BY <2>4, <1>b DEF TempFails, WorkerEnds
  <2>6. guards[l] \subseteq todo'[l]
    BY <1>b, <2>5, CleanTargetsType
  <2>7. at[l] \notin Busy /\ read'[l] = Nothing
    BY <2>4, <2>5 DEF Busy, Locked, Cleaning, BusyInv
  <2>8. \A p \in Walk : acl'[p] = acl[p]
    BY <2>2, <2>3, <2>7, WalkStill
  <2>9. Guarded(l)
    BY <2>4, <1>a DEF GuardInv, Past
  <2>10. \A p \in Walk : Marked(acl[p], l, p, guards[l])
    BY <2>9 DEF Guarded, Lists, Current
  <2>. QED BY <1>b, <2>6, <2>7, <2>8, <2>10 DEF Reads, Marked
<1>2. CASE at[l] = "cleaning"
  <2>1. at[l] \in Busy /\ Reads(l) /\ \A p \in Walk : Marked(acl[p], l, p, todo[l])
    BY <1>2, <1>a DEF CleanInv, Busy, Cleaning
  <2>2. CASE (\A p \in Walk : acl'[p] = acl[p]) /\ read'[l] = read[l] /\ todo'[l] = todo[l]
    BY <2>1, <2>2, <1>b DEF Reads
  <2>3. CASE UNCHANGED vars
    BY <2>2, <2>3 DEF vars
  <2>4. CASE Next
    <3>1. PICK k \in Launches : Acts(k)
      BY <2>4, NextActs
    <3>2. CASE k # l
      BY <2>1, <2>2, <3>1, <3>2, <1>a, AloneStill DEF Still
    <3>3. CASE k = l
      <4>1. CASE ReadGuard(l)
        <5>. DEFINE t == NextGuard(guards[l], todo[l])
        <5>1. CASE t.path \in exists
          <6>1. Fetch(l)
            <7>1. todo[l] # {} /\ at[l] = "cleaning" /\ read[l] = Nothing
              BY <4>1 DEF ReadGuard, Same
            <7>2. t \in todo[l]
              BY <1>b, <7>1, NextGuardMember
            <7>3. read' = [read EXCEPT ![l] =
                     [task |-> t, own |-> acl[t.path], seen |-> Seen(acl, t.path), made |-> FALSE]]
                  /\ UNCHANGED <<acl, at, todo, exists, restores, guards>>
              BY <4>1, <5>1 DEF ReadGuard, Same
            <7>. HIDE DEF t
            <7>4. (t.path \notin exists) = FALSE /\ exists' = exists \cup {t.path}
              BY <5>1, <7>3
            <7>. QED BY <5>1, <7>1, <7>2, <7>3, <7>4 DEF Fetch
          <6>2. acl' = acl /\ todo' = todo
            BY <6>1 DEF Fetch
          <6>. QED BY <2>1, <6>1, <6>2, ReadsFetched
        <5>2. CASE t.path \notin exists
          <6>1. acl' = acl /\ read' = read /\ todo'[l] = todo[l] \ {t}
            BY <4>1, <5>2, <1>b DEF ReadGuard, Same
          <6>2. \A p \in Walk : acl[p] # {} => p # t.path
            BY <5>2, <1>b DEF PlaceInv
          <6>. HIDE DEF t
          <6>3. ASSUME NEW p \in Walk, NEW a \in acl'[p], a.sid = l PROVE Task(a.kind, p) \in todo'[l]
            <7>1. Task(a.kind, p) \in todo[l] /\ Task(a.kind, p).path = p
              BY <2>1, <6>1, <6>3 DEF Marked, Task
            <7>2. p # t.path
              BY <6>1, <6>2
            <7>. QED BY <6>1, <7>1, <7>2
          <6>. QED BY <2>1, <6>1, <6>3, <1>b DEF Marked, Reads
        <5>. QED BY <5>1, <5>2
      <4>2. CASE WriteGuard(l)
        <5>. DEFINE t == read[l].task
        <5>1. /\ read[l] # Nothing /\ read'[l] = Nothing /\ todo'[l] = todo[l] \ {t}
              /\ acl' = IF Of(read[l].seen, l, t.kind) = {} \/ t.path \notin exists THEN acl
                        ELSE [acl EXCEPT ![t.path] = Without(read[l].own, l, t.kind)]
          BY <4>2, <1>b DEF WriteGuard, Same
        <5>2. t.path \in Walk => read[l].own = acl[t.path] /\ read[l].own \subseteq read[l].seen
          BY <2>1, <5>1 DEF Reads
        <5>3. t.path \in Paths
          BY <5>1, ReadingType
        <5>. HIDE DEF t
        <5>4. ASSUME NEW p \in Walk, NEW a \in acl'[p], a.sid = l PROVE Task(a.kind, p) \in todo'[l]
          <6>1. Task(a.kind, p).path = p /\ Task(a.kind, p).kind = a.kind
            BY DEF Task
          <6>2. CASE p # t.path
            <7>1. acl'[p] = acl[p]
              BY <1>b, <5>1, <6>2
            <7>. QED BY <2>1, <5>1, <5>4, <6>1, <6>2, <7>1 DEF Marked
          <6>3. CASE p = t.path
            <7>1. a \in acl[p] /\ a.kind # t.kind
              <8>1. CASE Of(read[l].seen, l, t.kind) = {}
                BY <5>1, <5>2, <5>4, <6>3, <8>1 DEF Of
              <8>2. CASE t.path \notin exists
                BY <5>1, <5>4, <6>3, <8>2, <1>b DEF PlaceInv
              <8>3. CASE acl' = [acl EXCEPT ![t.path] = Without(read[l].own, l, t.kind)]
                BY <5>2, <5>3, <5>4, <6>3, <8>3, <1>b DEF Without, Of
              <8>. QED BY <5>1, <8>1, <8>2, <8>3
            <7>. QED BY <2>1, <5>1, <5>4, <6>1, <7>1 DEF Marked
          <6>. QED BY <6>2, <6>3
        <5>. QED BY <5>1, <5>4, <1>b DEF Marked, Reads
      <4>3. ~ReadTarget(l) /\ ~WriteTarget(l) /\ ~SkipDenied(l) /\ ~Restores(l)
            /\ \A p \in Late : ~WorkerCreates(l, p)
        BY <1>2 DEF ReadTarget, WriteTarget, SkipDenied, Restores, Restore, WorkerCreates, Same
      <4>4. ~GuardFails(l)
        BY DEF GuardFails, Loses
      <4>. QED BY <3>1, <3>3, <1>2, <4>1, <4>2, <4>3, <4>4, StageActs
    <3>. QED BY <3>2, <3>3
  <2>. QED BY <2>3, <2>4
<1>. QED BY <1>1, <1>2

\* No list names a launch at first.
LEMMA LeftInit == Init => LeftInv
<1>. SUFFICES ASSUME Init PROVE LeftInv
  OBVIOUS
<1>1. \A l \in Launches : at[l] = "idle" /\ read[l] = Nothing /\ restores[l] = <<>>
  BY DEF Init
<1>2. \A p \in Walk : acl[p] = {}
  BY DEF Init, Paths
<1>3. \A p \in Walk : \A S \in Lists(p) : S = {}
  BY <1>1, <1>2, ListMembers DEF Lists
<1>4. \A l \in Launches : Unnamed(l)
  BY <1>3 DEF Unnamed, Free
<1>. QED BY <1>1, <1>4 DEF LeftInv, EarlyInv, GuardInv, UndoInv, CleanInv, Past

(* A list of the workspace inherits from the workspace only.               *)
LEMMA NothingLeft ==
  ASSUME LaunchType, EarlyInv
  PROVE  NothingLeftBehind
<1>. SUFFICES ASSUME NEW l \in Launches \ spoiled, at[l] \in {"done", "failed"}, NEW p \in Walk,
                     NEW a \in Seen(acl, p)
              PROVE  a.sid # l
  BY DEF NothingLeftBehind
<1>1. Unnamed(l)
  BY DEF EarlyInv
<1>2. \A q \in Walk : \A b \in acl[q] : b.sid # l
  BY <1>1 DEF Unnamed, Lists, Current, Free
<1>3. acl \in [Paths -> SUBSET Entry] /\ p \in Paths
  BY DEF LaunchType, Paths
<1>4. Up[p] \subseteq Walk
  BY <1>3, AclAssumption DEF Paths
<1>5. CASE a \in Inherited(acl, p)
  <2>1. \E q \in Up[p] : \E b \in acl[q] : a.sid = b.sid /\ a.kind = b.kind
    BY <1>3, <1>5, InheritedFrom
  <2>. QED BY <1>2, <1>4, <2>1
<1>. QED BY <1>2, <1>5 DEF Seen

(* When a launch has cleaned up or rolled back, no list in the workspace   *)
(* names its SID any more, unless another launch changed lists at the same *)
(* time or a list could not be written back: the guards cover every list   *)
(* that was read, written or saved, and a target leaves the cleanup only   *)
(* when nothing there names the launch.                                    *)
THEOREM CleanCorrect == Spec => []NothingLeftBehind
<1>1. Init => LaunchInv /\ LeftInv
  BY TypeInit, BusyInit, ApartInit, PlaceInit, DenyInit, LeftInit DEF LaunchInv
<1>2. LaunchInv /\ LeftInv /\ [Next]_vars => (LaunchInv /\ LeftInv)'
  <2>. SUFFICES ASSUME LaunchInv, LeftInv, [Next]_vars PROVE (LaunchInv /\ LeftInv)'
    OBVIOUS
  <2>1. LaunchType /\ BusyInv /\ ApartInv /\ PlaceInv /\ DenyInv
    BY DEF LaunchInv
  <2>2. LaunchInv'
    BY <2>1, TypeStep, BusyStep, ApartStep, PlaceStep, DenyStep DEF LaunchInv
  <2>3. EarlyInv' /\ GuardInv' /\ UndoInv' /\ CleanInv'
    BY <2>1, EarlyStep, GuardStep, UndoStep, CleanStep
  <2>. QED BY <2>2, <2>3 DEF LeftInv
<1>3. LaunchInv /\ LeftInv => NothingLeftBehind
  BY NothingLeft DEF LaunchInv, LeftInv
<1>. QED BY <1>1, <1>2, <1>3, PTL DEF Spec
=============================================================================
