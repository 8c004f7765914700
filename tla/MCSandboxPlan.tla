--------------------------- MODULE MCSandboxPlan ---------------------------
(***************************************************************************)
(* A small host for SandboxPlan: a workspace w with its .git and a         *)
(* directory d, the directories of temporary files, another directory o    *)
(* with a file k that a glob may match, the platform's usr, a place for    *)
(* the empty directory and the worker's binary x.                          *)
(***************************************************************************)
EXTENDS SandboxPlan

W == <<"w">>
Git == <<"w", ".git">>
GitHead == <<"w", ".git", "h">>
D == <<"w", "d">>
E == <<"w", "d", "e">>
Tmp == <<"tmp">>
Session == <<"tmp", "s">>
Net == <<"tmp", "s", "net">>
T == <<"tmp", "t">>
O == <<"o">>
K == <<"o", "k">>
N == <<"o", "n">>
MCTree ==
    {<<>>, W, Git, GitHead, D, E, Tmp, T, Session, Net, O, K, N, <<"usr">>, <<"var">>, <<"x">>}
MCCwd == W
MCGitdir == N
MCMetadata == {".git", ".codex"}
MCPlatform == {<<"usr">>}
MCEmptySources == {<<"var">>}
MCBinary == <<"x">>

(* .git is missing, an empty directory, a repository or a file that points *)
(* to N; d/e and N are there or not.  Every writable root is a directory.  *)
Host(git, e, n) ==
    [p \in MCTree |->
        CASE p = Git -> (IF git \in {"missing", "file"} THEN git ELSE "dir")
          [] p = GitHead -> IF git = "repo" THEN "file" ELSE "missing"
          [] p = E -> e
          [] p = N -> n
          [] p \in {K, <<"x">>} -> "file"
          [] OTHER -> "dir"]
MCHosts ==
    {Host("missing", "missing", "missing"), Host("empty", "dir", "missing"),
     Host("repo", "missing", "dir"), Host("file", "dir", "dir")}

Accesses == {"read", "write", "deny"}
Candidates ==
    {PathEntry(p, a) : p \in {W, Git, D, E, O}, a \in Accesses}
    \cup {PathEntry(K, "deny"), PathEntry(N, "write"), PathEntry(Tmp, "deny"),
          PathEntry(T, "read"), PathEntry(Net, "read"),
          Entry("project", <<>>, "write"), Entry("project", <<".git">>, "read"),
          Entry("project", <<".git">>, "write"), Entry("project", <<"d">>, "deny"),
          Entry("tmpdir", <<>>, "write"), Entry("slashtmp", <<>>, "write"),
          Entry("slashtmp", <<>>, "read"), Entry("minimal", <<>>, "read"),
          Entry("glob", O, "deny"), Entry("unknown", <<>>, "write")}
Starts ==
    {<<>>, <<Entry("root", <<>>, "read")>>, <<Entry("root", <<>>, "write")>>,
     <<Entry("root", <<>>, "read"), Entry("project", <<>>, "write")>>}
Profiles ==
    {s \o SetToSeq({a, b}) : s \in Starts, a \in Candidates, b \in Candidates}
Meta(profile, network, bwrap, entries) ==
    [profile |-> profile, network |-> network, bwrap |-> bwrap, entries |-> entries]
MCMetas ==
    {Meta("restricted", FALSE, TRUE, e) : e \in Profiles}
    \cup {Meta("restricted", n, b, s) : n \in BOOLEAN, b \in BOOLEAN, s \in Starts}
    \cup {Meta(p, n, TRUE, <<>>) : p \in {"disabled", "external", "unrestricted"}, n \in BOOLEAN}

Inherit == Operation("mode", "inherit")
MCPlans ==
    {<<Inherit>>, <<>>,
     <<Inherit, Operation("add-root", O)>>,
     <<Operation("mode", "read-only"), Operation("add-root", O), Inherit>>,
     <<Operation("add-root", O)>>,
     <<Operation("mode", "read-only")>>,
     <<Operation("mode", "read-only"), Operation("add-root", O)>>,
     <<Operation("mode", "workspace-write"), Operation("add-root", O),
       Operation("network", TRUE), Operation("domains", TRUE)>>,
     <<Operation("mode", "workspace-write"), Operation("bwrap", FALSE)>>,
     <<Operation("mode", "read-only"), Operation("bwrap", FALSE)>>,
     <<Operation("mode", "danger-full-access"), Operation("domains", TRUE)>>}
=============================================================================
