----------------------------- MODULE SandboxPlan -----------------------------
(***************************************************************************)
(* From the command line and the metadata of a tool call to the worker     *)
(* behind its sandbox on Linux: prepare_initial_sandbox_state and          *)
(* prepare_sandbox_state_update choose the state, the helper builds the    *)
(* mount plan step by step, and the plan is refused or carried out.        *)
(***************************************************************************)
EXTENDS SandboxCli, LinuxMounts

CONSTANTS
    Plans,       \* the command lines: sequences of operations
    Metas,       \* the metadata a tool call may carry
    Hosts        \* what may be on the host: functions from Tree to kinds

VARIABLES
    pc,          \* how far the launch has come
    ops,         \* SandboxCliPlan
    meta,        \* the metadata of the call
    sandbox,     \* SandboxState in force
    fs,          \* the host's files
    policy,      \* the file-system policy handed to the helper
    allowed,     \* allowed_write_paths: the writable roots
    cmd,         \* the plan being built
    left,        \* writable roots still to be mounted
    unreadable   \* unreadable roots and the matches of unreadable globs

vars == <<pc, ops, meta, sandbox, fs, policy, allowed, cmd, left, unreadable>>

NoMeta == [profile |-> "none", network |-> FALSE, bwrap |-> FALSE, entries |-> <<>>]
Bridge == sandbox.domains /\ FullNetwork(sandbox.mode)

Init ==
    /\ pc = "start"
    /\ ops \in Plans
    /\ meta = NoMeta
    /\ sandbox = NoState
    /\ fs \in Hosts
    /\ policy = Unrestricted
    /\ allowed = {}
    /\ cmd = NoCommand
    /\ left = {}
    /\ unreadable = {}

(* prepare_initial_sandbox_state.                                          *)
Startup ==
    /\ pc = "start"
    /\ LET resolved == Resolve(ops, NoState)
           awaiting == RequestsInherited(ops)
           accepted == IF awaiting THEN PlanAccepted(ops, NoState) ELSE resolved.ok
       IN  /\ pc' = IF ~accepted THEN "rejected" ELSE IF awaiting THEN "awaiting" ELSE "ready"
           /\ sandbox' = IF awaiting THEN Defaults ELSE resolved
    /\ UNCHANGED <<ops, meta, fs, policy, allowed, cmd, left, unreadable>>

(* A tool call brings its sandbox state: sandbox_state_update_from_codex_  *)
(* meta, then prepare_sandbox_state_update.                                *)
ToolCall(m) ==
    /\ pc = "awaiting"
    /\ LET mode == ProfileMode(m)
           inherited == [Defaults EXCEPT !.mode = mode, !.bwrap = m.bwrap]
           resolved == Resolve(ops, inherited)
       IN  IF mode.type = "none"
           THEN pc' = "refused" /\ UNCHANGED sandbox
           ELSE /\ pc' = IF resolved.ok THEN "ready" ELSE "unresolved"
                /\ sandbox' = IF resolved.ok THEN resolved ELSE sandbox
    /\ meta' = m
    /\ UNCHANGED <<ops, fs, policy, allowed, cmd, left, unreadable>>

(* managed_network_proxy_config_for_state, then the head of                *)
(* prepare_worker_command_with_managed_network.                            *)
Prepare ==
    /\ pc = "ready"
    /\ pc' = IF Bridge /\ (~RequiresSandbox(sandbox.mode) \/ ~sandbox.bwrap) THEN "refused"
             ELSE IF ~RequiresSandbox(sandbox.mode) THEN "launched"
             ELSE IF sandbox.bwrap THEN "base" ELSE "landlock"
    /\ cmd' = IF RequiresSandbox(sandbox.mode) THEN cmd ELSE Add(cmd, <<Op("bind", Root)>>)
    /\ policy' = LinuxPolicy(fs, sandbox.mode, Bridge)
    /\ ops' = <<>>
    /\ meta' = NoMeta
    /\ UNCHANGED <<sandbox, fs, allowed, left, unreadable>>

(* linux_apply_sandbox_policy_to_current_thread and                        *)
(* linux_landlock_writable_root_paths: the older backend grants whole      *)
(* roots only.                                                             *)
Landlock ==
    /\ pc = "landlock"
    /\ LET roots == WritableRoots(fs, policy)
           carved == \E wr \in roots : wr.root # SessionTemp
                                       /\ (wr.readOnly # {} \/ wr.protected # {})
           order == ByDepth({wr.root : wr \in roots})
           grants == [i \in DOMAIN order |-> Op("bind", order[i])]
           refused == ~FullDiskWrite(policy) /\ (~FullDiskRead(policy) \/ carved)
       IN  /\ pc' = IF refused THEN "refused" ELSE "launched"
           /\ cmd' = IF FullDiskWrite(policy) THEN Add(cmd, <<Op("bind", Root)>>)
                     ELSE Add(cmd, <<Op("ro", Root)>> \o grants)
    /\ UNCHANGED <<ops, meta, sandbox, fs, policy, allowed, left, unreadable>>

(* The head of linux_bwrap_filesystem_args.                                *)
Base ==
    /\ pc = "base"
    /\ LET roots == WritableRoots(fs, policy)
           paths == {wr.root : wr \in roots}
       IN  IF FullDiskWrite(policy) /\ UnreadableGlobs(policy) = {}
           THEN /\ pc' = "launched"
                /\ cmd' = Add(cmd, <<Op("bind", Root)>>)
                /\ UNCHANGED <<allowed, left, unreadable>>
           ELSE IF GlobsRefused(policy, paths) \/ GlobsUnbounded(policy)
           THEN pc' = "refused" /\ UNCHANGED <<allowed, cmd, left, unreadable>>
           ELSE /\ pc' = "missing roots"
                /\ cmd' = Add(cmd, BaseOps(fs, policy))
                /\ left' = roots
                /\ allowed' = paths
                /\ unreadable' = UnreadableRoots(fs, policy) \cup GlobMatches(fs, policy)
    /\ UNCHANGED <<ops, meta, sandbox, fs, policy>>

MakeRoot(root) ==
    /\ pc = "missing roots"
    /\ root \in allowed
    /\ ~Exists(fs, root)
    /\ fs' = WithRoot(fs, root)
    /\ cmd' = [cmd EXCEPT !.synthetic = @ \o MadeFor(fs, root)]
    /\ UNCHANGED <<pc, ops, meta, sandbox, policy, allowed, left, unreadable>>

(* Denied directories above a writable root come before the roots.         *)
MaskAbove ==
    /\ pc = "missing roots"
    /\ \A r \in allowed : Exists(fs, r)
    /\ LET above == {u \in unreadable : ~Within(u, allowed) /\ \E r \in allowed : Under(r, u)}
       IN  cmd' = FoldLeft(LAMBDA c, u : Masked(fs, c, u, allowed), cmd, ByDepth(above))
    /\ pc' = IF cmd'.refused THEN "refused" ELSE "roots"
    /\ UNCHANGED <<ops, meta, sandbox, fs, policy, allowed, left, unreadable>>

(* Every writable root, shallow ones first.                                *)
MountRoot(wr) ==
    /\ pc = "roots"
    /\ wr \in left
    /\ \A other \in left : Len(wr.root) <= Len(other.root)
    /\ cmd' = RootOps(fs, FullDiskRead(policy), cmd, wr, unreadable, allowed)
    /\ left' = left \ {wr}
    /\ pc' = IF cmd'.refused THEN "refused" ELSE pc
    /\ UNCHANGED <<ops, meta, sandbox, fs, policy, allowed, unreadable>>

(* Denied paths that no writable root contains or lies in come last.       *)
MaskRest_all ==
    /\ pc = "roots"
    /\ left = {}
    /\ cmd' = FoldLeft(LAMBDA c, u : Masked(fs, c, u, allowed), cmd, ByDepth(unreadable))
    /\ pc' = IF cmd'.refused THEN "refused" ELSE "launched"
    /\ UNCHANGED <<ops, meta, sandbox, fs, policy, allowed, left, unreadable>>
MaskRest ==
    /\ pc = "roots"
    /\ left = {}
    /\ LET rest == {u \in unreadable : ~\E r \in allowed : Under(u, r) \/ Under(r, u)}
       IN  cmd' = FoldLeft(LAMBDA c, u : Masked(fs, c, u, allowed), cmd, ByDepth(rest))
    /\ pc' = IF cmd'.refused THEN "refused" ELSE "launched"
    /\ UNCHANGED <<ops, meta, sandbox, fs, policy, allowed, left, unreadable>>

Next ==
    \/ Startup
    \/ \E m \in Metas : ToolCall(m)
    \/ Prepare
    \/ Landlock
    \/ Base
    \/ \E r \in Tree : MakeRoot(r)
    \/ MaskAbove
    \/ \E wr \in left : MountRoot(wr)
    \/ MaskRest

Spec == Init /\ [][Next]_vars
-----------------------------------------------------------------------------
(***************************************************************************)
(* What the policy leaves open on purpose: metadata below /tmp and below   *)
(* the session's directory, and the platform's own directories.            *)
(***************************************************************************)
TemporaryMetadata(p) ==
    \E r \in {SlashTmp, SessionTemp} : Below(p, r) /\ p[Len(r) + 1] \in Metadata
PlatformFile(p) ==
    /\ \E r \in PlatformRoots : Under(p, r)
    /\ ~\E u \in unreadable : Under(p, u)

(* Behind the plan a worker reads and writes no existing path that the     *)
(* policy (FileSystemSandboxPolicy::can_read_path_with_cwd and             *)
(* can_write_path_with_cwd) does not grant, although the plan is a         *)
(* sequence of mounts that cover one another.                              *)
PlanConfines ==
    pc = "launched" =>
        \A p \in {q \in Tree : Exists(fs, q)} :
            /\ SeenWritable(cmd.plan, p) => CanWrite(fs, policy, p) \/ TemporaryMetadata(p)
            /\ SeenReadable(cmd.plan, p) => CanRead(fs, policy, p) \/ PlatformFile(p)
            /\ SeenReadable(cmd.plan, p) => p \notin GlobMatches(fs, policy)

(* The converse: what the policy lets a worker write it can write behind   *)
(* the plan, and what it may read and no denial covers it can read: no     *)
(* later mount hides an earlier grant.                                     *)
PlanGrants ==
    pc = "launched" =>
        \A p \in {q \in Tree : Exists(fs, q)} :
            /\ CanWrite(fs, policy, p) /\ ~Under(p, Gitdir) => SeenWritable(cmd.plan, p)
            /\ CanRead(fs, policy, p) /\ (\A u \in unreadable : ~Under(p, u))
                   => SeenReadable(cmd.plan, p)

(* Every operation of a plan that is carried out finds its target: the     *)
(* directories below a sealed mask were made before it was sealed          *)
(* (append_linux_mount_target_parent_dir_args).  A denial below another    *)
(* denial, and a writable root that is a file, are left out: their targets *)
(* cannot be made, and the launch fails.                                   *)
DeniedTwice(o) ==
    /\ o.op \in {"open", "closed", "blank"}
    /\ \E u \in unreadable : Below(o.at, u)
BindsFiles == \E o \in Range(cmd.plan) : o.op = "bind" /\ IsFile(fs, o.at)
TargetsReady ==
    pc = "launched" /\ ~BindsFiles =>
        \A i \in DOMAIN cmd.plan : TargetReady(fs, cmd.plan, i) \/ DeniedTwice(cmd.plan[i])

(* A directory of the temporary files that the profile lets be read only:  *)
(* is_under_any_root looks at the workspace and at the profile's own       *)
(* writable paths, so that such an entry is dropped where the temporary    *)
(* directory above it may be written.                                      *)
ReadBelowTemporary(p) ==
    \E e \in Range(meta.entries) :
        /\ e.kind = "path" /\ e.access = "read" /\ Under(p, e.path)
        /\ \E r \in {SlashTmp, SessionTemp} : Below(e.path, r)

(* The mode a permission profile is projected to lets the worker write     *)
(* what the profile says, and read at least that; it lets it write nothing *)
(* else, except below a temporary directory, where the projection loses a  *)
(* narrower read entry (legacy_sandbox_policy_from_codex_restricted_       *)
(* entries).                                                               *)
ProfileHonoured ==
    pc = "ready" /\ meta.profile = "restricted" /\ ops = <<Operation("mode", "inherit")>> =>
        LET asked == LinuxPolicy(fs, Managed(Restricted(Known(meta.entries)), meta.network), FALSE)
            given == LinuxPolicy(fs, sandbox.mode, FALSE)
        IN  \A p \in Tree : /\ CanWrite(fs, asked, p) => CanWrite(fs, given, p)
                            /\ CanWrite(fs, given, p) =>
                                   CanWrite(fs, asked, p) \/ ReadBelowTemporary(p)
                            /\ CanRead(fs, asked, p) => CanRead(fs, given, p)
=============================================================================
