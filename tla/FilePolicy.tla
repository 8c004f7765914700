----------------------------- MODULE FilePolicy -----------------------------
(***************************************************************************)
(* The file-system policy of the worker sandbox (sandbox.rs): what the     *)
(* entries of a policy promise for every path, and the roots that the      *)
(* enforcement backends are given.  A path is the sequence of its names;   *)
(* symbolic links are not modelled, so that a path is its only variant.    *)
(***************************************************************************)
EXTENDS Naturals, Sequences, FiniteSets, SequencesExt

CONSTANTS
    Tree,          \* the paths that may exist on the host
    Cwd,           \* sandbox_cwd: the workspace, an absolute path
    SessionTemp,   \* the session's temporary directory
    SlashTmp,      \* the path /tmp
    SocketDir,     \* the managed network's socket directory
    WorkerBinary,  \* the worker's own executable and runtime
    Metadata,      \* PROTECTED_METADATA_SUBPATHS: .git, .codex, .agents
    DotGit,        \* the name .git
    DotCodex,      \* the name .codex
    Gitdir         \* where a .git file points

ASSUME TreeAssumption ==
    /\ \A p \in Tree : \A n \in 0..Len(p) : SubSeq(p, 1, n) \in Tree
    /\ {Cwd, SessionTemp, SlashTmp, SocketDir, WorkerBinary, Gitdir} \subseteq Tree
    /\ {DotGit, DotCodex} \subseteq Metadata

NoPath == <<"none">>
Root == <<>>

Under(p, root) == IsPrefix(root, p)
Below(p, root) == Under(p, root) /\ p # root
Children(p) == {q \in Tree : Len(q) = Len(p) + 1 /\ Under(q, p)}
Join(root, name) == Append(root, name)
FileName(p) == IF p = Root THEN "/" ELSE p[Len(p)]

(* The host's files: what each path of the tree is.                        *)
Kind(fs, p) == IF p \in Tree THEN fs[p] ELSE "missing"
Exists(fs, p) == Kind(fs, p) # "missing"
IsDir(fs, p) == Kind(fs, p) = "dir"
IsFile(fs, p) == Kind(fs, p) = "file"
IsEmptyDir(fs, p) == IsDir(fs, p) /\ \A c \in Children(p) : ~Exists(fs, c)
FirstMissing(fs, p) ==
    SubSeq(p, 1, CHOOSE n \in 0..Len(p) :
        /\ ~Exists(fs, SubSeq(p, 1, n))
        /\ \A m \in 0..(n - 1) : Exists(fs, SubSeq(p, 1, m)))

(***************************************************************************)
(* Entries.  An entry names a path directly ("path"), by a special value,  *)
(* or by a glob whose matches are the existing paths below `path` that     *)
(* bear the glob's name.                                                   *)
(***************************************************************************)
Entry(kind, path, access) == [kind |-> kind, path |-> path, access |-> access]
PathEntry(path, access) == Entry("path", path, access)
Readable(e) == e.access # "deny"
Writable(e) == e.access = "write"
Restricted(entries) == [kind |-> "restricted", entries |-> entries]
Unrestricted == [kind |-> "unrestricted", entries |-> <<>>]
External == [kind |-> "external", entries |-> <<>>]

EntryPath(fs, e) ==
    CASE e.kind = "path" -> e.path
      [] e.kind = "root" -> Root
      [] e.kind = "project" -> Cwd \o e.path
      [] e.kind = "tmpdir" -> SessionTemp
      [] e.kind = "slashtmp" -> IF IsDir(fs, SlashTmp) THEN SlashTmp ELSE NoPath
      [] OTHER -> NoPath

Resolved(fs, policy) ==
    LET at(e) == [path |-> EntryPath(fs, e), access |-> e.access]
    IN  SelectSeq([i \in DOMAIN policy.entries |-> at(policy.entries[i])],
                  LAMBDA r : r.path # NoPath)

(***************************************************************************)
(* What a policy promises.                                                 *)
(***************************************************************************)
Entries(policy) == Range(policy.entries)
HasRootAccess(policy, accesses) ==
    policy.kind = "restricted" /\ \E e \in Entries(policy) : e.kind = "root" /\ e.access \in accesses
HasDeniedReads(policy) ==
    policy.kind = "restricted" /\ \E e \in Entries(policy) : e.access = "deny"
HasWriteNarrowing(policy) ==
    /\ policy.kind = "restricted"
    /\ \E e \in Entries(policy) :
          ~Writable(e) /\ ~(e.kind = "root" /\ e.access = "read")
FullDiskRead(policy) ==
    policy.kind # "restricted" \/ (HasRootAccess(policy, {"read", "write"}) /\ ~HasDeniedReads(policy))
FullDiskWrite(policy) ==
    policy.kind # "restricted" \/ (HasRootAccess(policy, {"write"}) /\ ~HasWriteNarrowing(policy))

(* The most specific entry decides; among entries for one path a denial    *)
(* outranks a write, and a write outranks a read.                          *)
Rank(access) == CASE access = "read" -> 0 [] access = "write" -> 1 [] access = "deny" -> 2
Access(fs, policy, p) ==
    IF policy.kind # "restricted" THEN "write"
    ELSE LET hits == {r \in Range(Resolved(fs, policy)) : Under(p, r.path)}
             outranks(a, b) == \/ Len(a.path) > Len(b.path)
                               \/ Len(a.path) = Len(b.path) /\ Rank(a.access) >= Rank(b.access)
         IN  IF hits = {} THEN "deny"
             ELSE (CHOOSE a \in hits : \A b \in hits : outranks(a, b)).access

(* Of the writable entries, the first one below which `p` lies in a        *)
(* metadata directory.                                                     *)
MetadataChild(fs, policy, p) ==
    LET hits == SelectSeq(Resolved(fs, policy), LAMBDA r :
                    /\ Writable(r)
                    /\ Below(p, r.path)
                    /\ p[Len(r.path) + 1] \in Metadata)
    IN  IF hits = <<>> THEN NoPath ELSE SubSeq(p, 1, Len(hits[1].path) + 1)

MetadataDenied(fs, policy, p) ==
    LET child == MetadataChild(fs, policy, p)
    IN  /\ policy.kind = "restricted"
        /\ child # NoPath
        /\ ~\E r \in Range(Resolved(fs, policy)) :
              Writable(r) /\ Under(p, r.path) /\ Under(r.path, child)

CanRead(fs, policy, p) == Access(fs, policy, p) # "deny"
CanWrite(fs, policy, p) ==
    /\ Access(fs, policy, p) = "write"
    /\ FullDiskWrite(policy) \/ ~MetadataDenied(fs, policy, p)

(***************************************************************************)
(* The roots the backends enforce.                                         *)
(***************************************************************************)
ReadableRoots(fs, policy) ==
    IF FullDiskRead(policy) THEN {}
    ELSE {r.path : r \in {e \in Range(Resolved(fs, policy)) :
                            Readable(e) /\ CanRead(fs, policy, e.path)}}

WritableEntries(fs, policy) ==
    {r.path : r \in {e \in Range(Resolved(fs, policy)) :
                        Writable(e) /\ CanWrite(fs, policy, e.path)}}

AmbientTemp(fs, root) == root # SessionTemp /\ root = SlashTmp /\ IsDir(fs, SlashTmp)

(* compute_read_only_subpaths, and .codex below a root that holds the      *)
(* workspace.                                                              *)
ReadOnlySubpaths(fs, root) ==
    LET at(name) == Join(root, name)
        there == {n \in Metadata : IsDir(fs, at(n)) \/ (n = DotGit /\ IsFile(fs, at(n)))}
    IN  {at(n) : n \in there}
        \cup (IF DotGit \in there /\ IsFile(fs, at(DotGit)) /\ Exists(fs, Gitdir)
              THEN {Gitdir} ELSE {})

RootExclusions(fs, root) ==
    ReadOnlySubpaths(fs, root)
    \cup (IF Under(Cwd, root) THEN {Join(root, DotCodex)} ELSE {})

ProtectedNames(fs, policy, root) ==
    LET raw == {root} \cup {r \in WritableEntries(fs, policy) : Under(r, root)}
    IN  {n \in Metadata : \A r \in raw : ~CanWrite(fs, policy, Join(r, n))}

WritableRoot(fs, policy, root) ==
    LET protect == ~AmbientTemp(fs, root)
        narrowed == {r.path : r \in {e \in Range(Resolved(fs, policy)) :
                        /\ ~Writable(e)
                        /\ ~CanWrite(fs, policy, e.path)
                        /\ Below(e.path, root)}}
    IN  [root      |-> root,
         readOnly  |-> narrowed \cup (IF protect THEN RootExclusions(fs, root) ELSE {}),
         protected |-> IF protect THEN ProtectedNames(fs, policy, root) ELSE {}]

WritableRoots(fs, policy) ==
    IF FullDiskWrite(policy) THEN {}
    ELSE {WritableRoot(fs, policy, r) : r \in WritableEntries(fs, policy)}

UnreadableRoots(fs, policy) ==
    IF policy.kind # "restricted" THEN {}
    ELSE {r.path : r \in {e \in Range(Resolved(fs, policy)) :
                            e.access = "deny" /\ ~CanRead(fs, policy, e.path)}} \ {Root}

UnreadableGlobs(policy) ==
    {e \in Entries(policy) : policy.kind = "restricted" /\ e.kind = "glob" /\ e.access = "deny"}

(***************************************************************************)
(* The sandbox modes, and the file-system policy each stands for.          *)
(***************************************************************************)
ReadOnlyPolicy == Restricted(<<Entry("root", Root, "read")>>)

WorkspaceWritePolicy(fs, mode) ==
    LET roots == mode.roots
        names == SetToSeq(Metadata)
        fixed == <<Entry("root", Root, "read"), Entry("project", <<>>, "write")>>
        temps == (IF mode.excludeSlashTmp THEN <<>> ELSE <<Entry("slashtmp", Root, "write")>>)
                 \o (IF mode.excludeTmpdir THEN <<>> ELSE <<Entry("tmpdir", Root, "write")>>)
        writable == [i \in DOMAIN roots |-> PathEntry(roots[i], "write")]
        project == [i \in DOMAIN names |-> Entry("project", <<names[i]>>, "read")]
        held == SetToSeq(UNION {ReadOnlySubpaths(fs, roots[i]) : i \in DOMAIN roots})
    IN  Restricted(fixed \o temps \o writable \o project
                   \o [i \in DOMAIN held |-> PathEntry(held[i], "read")])

FileSystemPolicy(fs, mode) ==
    CASE mode.type = "danger-full-access" -> Unrestricted
      [] mode.type = "external-sandbox"   -> External
      [] mode.type = "read-only"          -> ReadOnlyPolicy
      [] mode.type = "workspace-write"    -> WorkspaceWritePolicy(fs, mode)
      [] mode.type = "managed"            -> mode.fileSystem

FullNetwork(mode) == mode.type = "danger-full-access" \/ mode.network
RequiresSandbox(mode) ==
    \/ mode.type \in {"read-only", "workspace-write"}
    \/ mode.type = "managed" /\ (~FullDiskWrite(mode.fileSystem) \/ ~mode.network)

(* The policy the Linux helper enforces: the session's directory is        *)
(* writable, the proxy's socket directory and the worker's own binaries    *)
(* stay readable.                                                          *)
WithEntry(policy, e) ==
    IF e \in Entries(policy) THEN policy
    ELSE [policy EXCEPT !.entries = Append(@, e)]

LinuxPolicy(fs, mode, bridge) ==
    LET base == FileSystemPolicy(fs, mode)
        temp == IF base.kind = "restricted" /\ ~FullDiskWrite(base)
                THEN WithEntry(base, PathEntry(SessionTemp, "write")) ELSE base
        sock == IF bridge /\ temp.kind = "restricted"
                THEN WithEntry(temp, PathEntry(SocketDir, "read")) ELSE temp
    IN  IF sock.kind = "restricted" /\ ~FullDiskRead(sock)
        THEN WithEntry(sock, PathEntry(WorkerBinary, "read")) ELSE sock
=============================================================================
