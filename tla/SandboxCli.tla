----------------------------- MODULE SandboxCli -----------------------------
(***************************************************************************)
(* How the sandbox of a worker is chosen: the operations of the command    *)
(* line (sandbox_cli.rs), applied to the defaults or to the state that     *)
(* arrives with a tool call, and the projection of a permission profile in *)
(* that state to one of the sandbox modes (sandbox.rs).                    *)
(***************************************************************************)
EXTENDS FilePolicy

(* SandboxState: the mode, whether domains are restricted, and whether the *)
(* Linux backend is bubblewrap.                                            *)
Mode(type, network) == [type |-> type, network |-> network]
WorkspaceWrite(roots, network, noTmpdir, noSlashTmp) ==
    [type |-> "workspace-write", network |-> network, roots |-> roots,
     excludeTmpdir |-> noTmpdir, excludeSlashTmp |-> noSlashTmp]
Managed(fileSystem, network) ==
    [type |-> "managed", network |-> network, fileSystem |-> fileSystem]
Defaults ==
    [ok |-> TRUE, mode |-> WorkspaceWrite(<<>>, FALSE, FALSE, FALSE),
     domains |-> FALSE, bwrap |-> TRUE]

(* An error, and the state a call without metadata inherits.               *)
NoState == [ok |-> FALSE]
Operation(op, value) == [op |-> op, value |-> value]

(***************************************************************************)
(* resolve_effective_sandbox_state_with_defaults.                          *)
(***************************************************************************)
LastMode(ops) ==
    LET modes == {i \in DOMAIN ops : ops[i].op = "mode"}
    IN  IF modes = {} THEN 0 ELSE CHOOSE i \in modes : \A j \in modes : j <= i
RequestsInherited(ops) == LastMode(ops) # 0 /\ ops[LastMode(ops)].value = "inherit"

(* validate_sandbox_plan_operations: the mode in force before each         *)
(* operation; a mode to be inherited later counts as workspace-write.      *)
ModeBefore(ops, inherited, i) ==
    LET last == LastMode(SubSeq(ops, 1, i - 1))
        value == ops[last].value
    IN  IF last = 0 THEN Defaults.mode.type
        ELSE IF value # "inherit" THEN value
        ELSE IF inherited.ok THEN inherited.mode.type
        ELSE IF RequestsInherited(ops) THEN "workspace-write" ELSE "unresolved"
WorkspaceOps == {"add-root", "network", "roots", "exclude-tmpdir", "exclude-slash-tmp"}
PlanAccepted(ops, inherited) ==
    \A i \in DOMAIN ops :
        ops[i].op \in WorkspaceOps => ModeBefore(ops, inherited, i) = "workspace-write"

ApplyMode(value, inherited) ==
    CASE value = "inherit" -> inherited
      [] value = "read-only" -> [Defaults EXCEPT !.mode = Mode("read-only", FALSE)]
      [] value = "workspace-write" -> Defaults
      [] value = "danger-full-access" -> [Defaults EXCEPT !.mode = Mode("danger-full-access", TRUE)]

ApplyOp(state, o, inherited) ==
    CASE ~state.ok -> state
      [] state.ok /\ o.op = "mode" -> ApplyMode(o.value, inherited)
      [] state.ok /\ o.op = "domains" -> [state EXCEPT !.domains = o.value]
      [] state.ok /\ o.op = "bwrap" -> [state EXCEPT !.bwrap = o.value]
      [] state.ok /\ o.op \in WorkspaceOps ->
            IF state.mode.type # "workspace-write" THEN NoState
            ELSE CASE o.op = "add-root" ->
                        IF o.value \in Range(state.mode.roots) THEN state
                        ELSE [state EXCEPT !.mode.roots = Append(@, o.value)]
                   [] o.op = "roots" -> [state EXCEPT !.mode.roots = o.value]
                   [] o.op = "network" -> [state EXCEPT !.mode.network = o.value]
                   [] o.op = "exclude-tmpdir" -> [state EXCEPT !.mode.excludeTmpdir = o.value]
                   [] o.op = "exclude-slash-tmp" -> [state EXCEPT !.mode.excludeSlashTmp = o.value]

Resolve(ops, inherited) ==
    LET start == IF LastMode(ops) = 0 \/ RequestsInherited(ops) THEN 1 ELSE LastMode(ops)
    IN  IF ops = <<>> THEN (IF inherited.ok THEN inherited ELSE Defaults)
        ELSE IF ~PlanAccepted(ops, inherited) THEN NoState
        ELSE FoldLeft(LAMBDA st, o : ApplyOp(st, o, inherited), Defaults,
                      SubSeq(ops, start, Len(ops)))

(***************************************************************************)
(* A permission profile: sandbox_policy_from_codex_permission_profile.     *)
(***************************************************************************)
Known(entries) == SelectSeq(entries, LAMBDA e : e.kind # "unknown")
BadProfile(entries) ==
    \/ \E e \in Range(Known(entries)) : e.kind = "glob" /\ e.access # "deny"
    \/ \E e \in Range(Known(entries)) : e.kind = "minimal" /\ e.access = "write"
    \/ \A e \in Range(Known(entries)) : ~Readable(e)

(* The projection of the entries (RestrictedProfileProjection).            *)
WriteKinds(entries) == {e.kind : e \in {f \in Range(entries) : Writable(f)}}
ReadEntries(entries) == {e \in Range(entries) : e.access = "read"}
WorkspaceWritable(entries) ==
    \E e \in Range(entries) : Writable(e) /\ e.kind \in {"path", "project"}
                              /\ EntryPath([p \in Tree |-> "dir"], e) = Cwd
ExtraRoots(entries) ==
    {EntryPath([p \in Tree |-> "dir"], e) :
        e \in {f \in Range(entries) : Writable(f) /\ f.kind \in {"path", "project"}}} \ {Cwd}
MetadataUnder(p, root) == Below(p, root) /\ p[Len(root) + 1] \in Metadata
Representable_always(e, entries) == TRUE
Representable(e, entries) ==
    LET rootRead == \E r \in ReadEntries(entries) : r.kind = "root"
        roots == {Cwd} \cup ExtraRoots(entries)
    IN  CASE e.kind = "root" -> TRUE
          [] e.kind = "project" -> e.path # <<>> /\ e.path[1] \in Metadata
          [] e.kind \in {"tmpdir", "slashtmp", "minimal"} -> rootRead
          [] e.kind = "path" -> (\E r \in roots : MetadataUnder(e.path, r))
                                \/ (rootRead /\ ~\E r \in roots : Under(e.path, r))
          [] OTHER -> FALSE

(* legacy_sandbox_policy_from_codex_restricted_entries; of type "none"     *)
(* when the entries cannot be put as one of the older modes.               *)
NoMode == Mode("none", FALSE)
LegacyMode(entries, network) ==
    LET kinds == WriteKinds(entries)
        reads == ReadEntries(entries)
    IN  IF \E e \in Range(entries) : e.access = "deny" THEN NoMode
        ELSE IF "root" \in kinds THEN
            IF network /\ \A e \in reads : e.kind = "root"
            THEN Mode("danger-full-access", TRUE) ELSE NoMode
        ELSE IF WorkspaceWritable(entries) THEN
            IF \A e \in reads : Representable(e, entries)
            THEN WorkspaceWrite(SetToSeq(ExtraRoots(entries)), network,
                                "tmpdir" \notin kinds, "slashtmp" \notin kinds)
            ELSE NoMode
        ELSE IF kinds = {} /\ \E e \in reads : e.kind = "root" THEN Mode("read-only", network)
        ELSE NoMode

(* The mode for the metadata of a tool call: a profile that is disabled,   *)
(* external, unrestricted or a list of entries.                            *)
ProfileMode(m) ==
    CASE m.profile = "disabled" -> Mode("danger-full-access", TRUE)
      [] m.profile = "external" -> Mode("external-sandbox", m.network)
      [] m.profile = "unrestricted" ->
            IF m.network THEN Mode("danger-full-access", TRUE)
            ELSE Managed(Unrestricted, FALSE)
      [] m.profile = "restricted" ->
            LET legacy == LegacyMode(Known(m.entries), m.network)
            IN  IF BadProfile(m.entries) THEN NoMode
                ELSE IF legacy.type # "none" THEN legacy
                ELSE Managed(Restricted(Known(m.entries)), m.network)
=============================================================================
