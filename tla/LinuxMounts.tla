----------------------------- MODULE LinuxMounts -----------------------------
(***************************************************************************)
(* The mount plan of the Linux sandbox (linux_bwrap_filesystem_args and    *)
(* its helpers, sandbox.rs), and what a process started behind that plan   *)
(* sees.  bubblewrap carries the operations out in order, on a root of its *)
(* own; the last mount that covers a path decides what is there.           *)
(***************************************************************************)
EXTENDS FilePolicy

CONSTANTS
    PlatformRoots,   \* LINUX_PLATFORM_DEFAULT_READ_ROOTS
    EmptySources,    \* where the host-only empty directory may be created
    GlobName         \* the file name the modelled glob matches

ASSUME MountAssumption ==
    PlatformRoots \cup EmptySources \subseteq Tree

(* LinuxBwrapCommand: the operations, the host directories to remove again *)
(* and whether the plan was refused.                                       *)
NoCommand == [plan |-> <<>>, synthetic |-> <<>>, refused |-> FALSE]
Op(op, at) == [op |-> op, at |-> at]
Add(cmd, ops) == [cmd EXCEPT !.plan = @ \o ops]
Refuse(cmd) == [cmd EXCEPT !.refused = TRUE]

(* The paths of a set, shallow ones first.                                 *)
MaxDepth == CHOOSE n \in {Len(p) : p \in Tree} : \A p \in Tree : Len(p) <= n
ByDepth(S) == FlattenSeq([n \in 1..(MaxDepth + 2) |-> SetToSeq({p \in S : Len(p) = n - 1})])

Within(p, roots) == \E r \in roots : Under(p, r)

(* append_linux_mount_target_parent_dir_args: the directories from below   *)
(* the anchor down to the target, or to its parent if it is a file.        *)
ParentDirs(fs, target, anchor) ==
    LET deep == IF IsDir(fs, target) THEN Len(target) ELSE Len(target) - 1
    IN  [n \in 1..(IF deep > Len(anchor) THEN deep - Len(anchor) ELSE 0) |->
            Op("dir", SubSeq(target, 1, Len(anchor) + n))]

(***************************************************************************)
(* The base: the host read-only, or an empty root with what may be read.   *)
(***************************************************************************)
BaseOps(fs, policy) ==
    LET readable == ReadableRoots(fs, policy) \cup {r \in PlatformRoots : Exists(fs, r)}
        shown(r) == IF Exists(fs, r) THEN Append(ParentDirs(fs, r, Root), Op("ro", r)) ELSE <<>>
        order == ByDepth(readable)
    IN  IF FullDiskRead(policy) \/ Root \in readable THEN <<Op("ro", Root)>>
        ELSE <<Op("tmpfs", Root)>> \o FlattenSeq([i \in DOMAIN order |-> shown(order[i])])

(***************************************************************************)
(* prepare_linux_missing_writable_roots: a writable root that does not     *)
(* exist is created on the host, and the parents made for it are noted.    *)
(***************************************************************************)
WithRoot(fs, root) ==
    [p \in Tree |-> IF Under(root, p) /\ ~Exists(fs, p) THEN "dir" ELSE fs[p]]
MadeFor(fs, root) == ByDepth({p \in Tree : Below(root, p) /\ ~Exists(fs, p)})

(***************************************************************************)
(* Globs.  A pattern that could match a file written later is refused;     *)
(* otherwise its matches are listed now.                                   *)
(***************************************************************************)
GlobsRefused(policy, roots) ==
    \E g \in UnreadableGlobs(policy) : \E r \in roots : Under(r, g.path) \/ Under(g.path, r)
GlobsUnbounded(policy) == \E g \in UnreadableGlobs(policy) : g.path = Root
GlobMatches(fs, policy) ==
    {p \in Tree : Exists(fs, p) /\ FileName(p) = GlobName
                  /\ \E g \in UnreadableGlobs(policy) : Below(p, g.path)}

(***************************************************************************)
(* append_linux_unreadable_root_args: a directory is covered by an empty   *)
(* read-only one that can be traversed if a writable root lies below it.   *)
(***************************************************************************)
Masked_sealsFirst(fs, cmd, root, allowed) ==
    LET below == {r \in allowed : Below(r, root)}
        dirs == ByDepth(below)
    IN  CASE IsDir(fs, root) ->
                Add(cmd, <<Op(IF below = {} THEN "closed" ELSE "open", root), Op("seal", root)>>
                         \o FlattenSeq([i \in DOMAIN dirs |-> ParentDirs(fs, dirs[i], root)]))
          [] IsFile(fs, root) -> Add(cmd, <<Op("blank", root)>>)
          [] OTHER -> IF Within(FirstMissing(fs, root), allowed) THEN Refuse(cmd) ELSE cmd
Masked(fs, cmd, root, allowed) ==
    LET below == {r \in allowed : Below(r, root)}
        dirs == ByDepth(below)
    IN  CASE IsDir(fs, root) ->
                Add(cmd, <<Op(IF below = {} THEN "closed" ELSE "open", root)>>
                         \o FlattenSeq([i \in DOMAIN dirs |-> ParentDirs(fs, dirs[i], root)])
                         \o <<Op("seal", root)>>)
          [] IsFile(fs, root) -> Add(cmd, <<Op("blank", root)>>)
          [] OTHER -> IF Within(FirstMissing(fs, root), allowed) THEN Refuse(cmd) ELSE cmd

(***************************************************************************)
(* append_linux_read_only_subpath_args: an existing path is bound again    *)
(* read-only; an empty or missing metadata directory is replaced by an     *)
(* empty one from the host.                                                *)
(***************************************************************************)
EmptyDirectory(cmd, p, allowed) ==
    IF \A s \in EmptySources : Within(s, allowed) THEN Refuse(cmd)
    ELSE Add(cmd, <<Op("dir", p), Op("empty", p)>>)

ReadOnlyHeld(fs, cmd, p, allowed) ==
    CASE ~Exists(fs, p) /\ Within(FirstMissing(fs, p), allowed) ->
            LET first == FirstMissing(fs, p)
            IN  IF FileName(first) \in Metadata
                THEN [EmptyDirectory(cmd, first, allowed) EXCEPT !.synthetic = Append(@, first)]
                ELSE Refuse(cmd)
      [] Exists(fs, p) /\ Within(p, allowed) ->
            IF FileName(p) \in Metadata /\ IsEmptyDir(fs, p)
            THEN EmptyDirectory(cmd, p, allowed)
            ELSE Add(cmd, <<Op("ro", p)>>)
      [] OTHER -> cmd

(***************************************************************************)
(* The body of the loop over the writable roots.                           *)
(***************************************************************************)
RootOps_masksFirst(fs, fullRead, cmd, wr, unreadable, allowed) ==
    LET root == wr.root
        above == {u \in unreadable : Under(root, u)}
        anchor == IF above = {} THEN Root
                  ELSE CHOOSE u \in above : \A v \in above : Len(v) <= Len(u)
        parents == IF above # {} \/ ~fullRead THEN ParentDirs(fs, root, anchor) ELSE <<>>
        held == ByDepth((wr.readOnly \ unreadable) \cup {Join(root, n) : n \in wr.protected})
        nested == ByDepth({u \in unreadable : Under(u, root)})
        bound == Add(cmd, Append(parents, Op("bind", root)))
        masked == FoldLeft(LAMBDA c, u : Masked(fs, c, u, allowed), bound, nested)
    IN  FoldLeft(LAMBDA c, p : ReadOnlyHeld(fs, c, p, allowed), masked, held)
RootOps(fs, fullRead, cmd, wr, unreadable, allowed) ==
    LET root == wr.root
        above == {u \in unreadable : Under(root, u)}
        anchor == IF above = {} THEN Root
                  ELSE CHOOSE u \in above : \A v \in above : Len(v) <= Len(u)
        parents == IF above # {} \/ ~fullRead THEN ParentDirs(fs, root, anchor) ELSE <<>>
        held == ByDepth((wr.readOnly \ unreadable) \cup {Join(root, n) : n \in wr.protected})
        nested == ByDepth({u \in unreadable : Under(u, root)})
        bound == Add(cmd, Append(parents, Op("bind", root)))
        readOnly == FoldLeft(LAMBDA c, p : ReadOnlyHeld(fs, c, p, allowed), bound, held)
    IN  FoldLeft(LAMBDA c, u : Masked(fs, c, u, allowed), readOnly, nested)

(***************************************************************************)
(* What is seen behind the first n operations of a plan.                   *)
(***************************************************************************)
Mounts == {"ro", "bind", "tmpfs", "open", "closed", "blank", "empty"}
Cover(plan, n, p) ==
    LET over == {i \in 1..n : plan[i].op \in Mounts /\ Under(p, plan[i].at)}
    IN  IF over = {} THEN 0 ELSE CHOOSE i \in over : \A j \in over : j <= i
Covering(plan, n, p) ==
    LET c == Cover(plan, n, p) IN IF c = 0 THEN "nothing" ELSE plan[c].op
Reachable(plan, p) ==
    \A k \in 0..(Len(p) - 1) : Covering(plan, Len(plan), SubSeq(p, 1, k)) # "closed"
SeenWritable(plan, p) == Reachable(plan, p) /\ Covering(plan, Len(plan), p) = "bind"
SeenReadable(plan, p) ==
    /\ Reachable(plan, p)
    /\ LET c == Cover(plan, Len(plan), p)
       IN  c # 0 /\ (plan[c].op \in {"ro", "bind"} \/ (plan[c].op = "empty" /\ plan[c].at = p))

(* The target of operation i is there already, or can be made.             *)
TargetReady(fs, plan, i) ==
    LET p == plan[i].at
        c == Cover(plan, i - 1, p)
        made == \E j \in (c + 1)..(i - 1) : plan[j].op = "dir" /\ plan[j].at = p
        sealed == \E j \in (c + 1)..(i - 1) : plan[j].op = "seal" /\ plan[j].at = plan[c].at
    IN  \/ c = 0
        \/ plan[c].at = p
        \/ plan[c].op \in {"bind", "tmpfs"}
        \/ plan[c].op = "ro" /\ Exists(fs, p)
        \/ plan[c].op \in {"open", "closed"} /\ (made \/ ~sealed)
=============================================================================
