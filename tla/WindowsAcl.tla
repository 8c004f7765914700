----------------------------- MODULE WindowsAcl -----------------------------
(***************************************************************************)
(* The access control lists of the Windows sandbox (windows_sandbox.rs):   *)
(* which entries a path needs for a capability SID, which are revoked, and *)
(* what a worker may write.  `acl` gives the explicit entries of each      *)
(* path; inherited ones follow from its ancestors, because Windows passes  *)
(* a change of a directory's list on to what lies below.                   *)
(***************************************************************************)
EXTENDS Naturals, Sequences, FiniteSets

CONSTANTS
    Order,       \* the paths of the workspace, as a walk from the roots meets them
    Temps,       \* the sessions' temporary directories
    Up,          \* the ancestors of each path
    Dirs,        \* the paths that are directories
    Roots,       \* the writable roots of the policy
    Protected    \* .git, .codex and .agents below a root

Walk == {Order[i] : i \in DOMAIN Order}
Paths == Walk \cup Temps

ASSUME AclAssumption ==
    /\ Order \in Seq(Walk)
    /\ Up \in [Paths -> SUBSET Paths]
    /\ \A p \in Paths : \A q \in Up[p] : Up[q] \subseteq Up[p]
    /\ \A p \in Walk : p \notin Temps /\ Up[p] \cap Temps = {}
    /\ Roots \cup Protected \subseteq Walk
    /\ Temps \subseteq Dirs
    /\ Dirs \subseteq Paths

At(p, roots) == p \in roots \/ Up[p] \cap roots # {}
First(S) ==
    IF S \cap Walk = {} THEN CHOOSE p \in S : TRUE
    ELSE Order[CHOOSE i \in DOMAIN Order :
                  Order[i] \in S /\ \A j \in DOMAIN Order : Order[j] \in S => i <= j]
Last(S) ==
    IF S \cap Walk = {} THEN CHOOSE p \in S : TRUE
    ELSE Order[CHOOSE i \in DOMAIN Order :
                  Order[i] \in S /\ \A j \in DOMAIN Order : Order[j] \in S => j <= i]

(***************************************************************************)
(* Entries.  An allow entry is for the path itself ("self"), for it and    *)
(* what lies below ("tree"), or only for what lies below ("only", which    *)
(* also allows deletion); a "given" entry was inherited from an "only".    *)
(***************************************************************************)
Ace(sid, kind, scope) == [sid |-> sid, kind |-> kind, scope |-> scope]
Inherited(acl, p) ==
    LET handed(a) == [a EXCEPT !.scope = IF @ = "only" THEN "given"
                                         ELSE IF p \in Dirs THEN "tree" ELSE "self"]
    IN  UNION {{handed(a) : a \in {b \in acl[q] : b.scope # "self"}} : q \in Up[p]}
Seen(acl, p) == acl[p] \cup Inherited(acl, p)

Of(entries, sid, kind) == {a \in entries : a.sid = sid /\ a.kind = kind}

(* add_allow_ace_with_options_and_inherit_only_companion: the entries of   *)
(* `p`, read as `own` and `seen`, with what `sid` needs; an entry of       *)
(* another form is taken away first.                                       *)
WithAllow(p, own, seen, sid, inherit, companion) ==
    LET mine == Of(seen, sid, "allow")
        dir == p \in Dirs
        form == IF inherit /\ dir THEN "tree" ELSE "self"
        direct(entries) == IF \E a \in entries : a.scope = form THEN {} ELSE {Ace(sid, "allow", form)}
        only(entries) ==
            IF (companion \/ inherit) /\ dir /\ ~\E a \in entries : a.scope = "only"
            THEN {Ace(sid, "allow", "only")} ELSE {}
        need(entries) == direct(entries) \cup only(entries)
        explicit == {a \in Of(own, sid, "allow") : a.scope # "only"}
    IN  IF need(mine) # {} /\ explicit # {}
        THEN (own \ Of(own, sid, "allow")) \cup need(mine \ Of(own, sid, "allow"))
        ELSE own \cup need(mine)

(* Mutant: the denial is not inherited.                                    *)
WithDeny_self(own, seen, sid) == own \cup {Ace(sid, "deny", "self")}

(* add_deny_write_ace_with_options.                                        *)
WithDeny(own, seen, sid) ==
    IF \E a \in Of(seen, sid, "deny") : a.scope = "tree" THEN own
    ELSE own \cup {Ace(sid, "deny", "tree")}

(* Mutant: every SID's entries of the kind are removed.                    *)
Without_everySid(own, sid, kind) == {a \in own : a.kind # kind}

(* Mutant: entries that are only for what lies below are kept.             *)
Without_direct(own, sid, kind) == own \ {a \in Of(own, sid, kind) : a.scope # "only"}

(* revoke_ace_with_result and revoke_deny_write_ace.                       *)
Without(own, sid, kind) == own \ Of(own, sid, kind)

(* The restricted token of a launch bears the stable SID of its policy and *)
(* its own.                                                                *)
MayWrite(acl, p, stable, sid) ==
    LET mine == {a \in Seen(acl, p) : a.sid \in {stable, sid}}
    IN  /\ \E a \in mine : a.kind = "allow" /\ a.scope # "only"
        /\ ~\E a \in mine : a.kind = "deny"

(***************************************************************************)
(* Targets, each a kind and a path.                                        *)
(***************************************************************************)
Task(kind, p) == [kind |-> kind, path |-> p]
Depth(p) == Cardinality(Up[p])

(* compute_allow_deny_paths, then prepared_launch_allow_targets down to    *)
(* `depth` levels below a root, and prepared_launch_existing_targets below *)
(* what is protected.                                                      *)
AllowTargets(exists, depth) ==
    LET denied == Protected \cap exists
        near(p) == \E r \in Roots : r \in Up[p] /\ Depth(p) <= Depth(r) + depth
    IN  Roots \cup {p \in exists : near(p) /\ ~At(p, denied)}
DenyTargets(exists) == {p \in exists : At(p, Protected \cap exists)}
Targets(exists, depth) ==
    {Task("allow", p) : p \in AllowTargets(exists, depth)}
    \cup {Task("deny", p) : p \in DenyTargets(exists)}

(* The next target: allowed ones first, in the order of the walk.          *)
PathsOf(todo, kind) == {t.path : t \in {u \in todo : u.kind = kind}}
NextTask(todo) ==
    LET kind == IF PathsOf(todo, "allow") # {} THEN "allow" ELSE "deny"
    IN  Task(kind, First(PathsOf(todo, kind)))

(* cleanup_capability_acl_state: a guard on a directory stands for what    *)
(* lies below it now.                                                      *)
CleanTargets(guards, exists) ==
    guards \cup {t \in [kind : {"allow", "deny"}, path : exists] :
                    \E g \in guards : g.kind = t.kind /\ g.path \in Dirs /\ g.path \in Up[t.path]}

(* A guard comes before what lies below it, which comes last one first.    *)
NextGuard(guards, todo) ==
    LET kind == IF PathsOf(todo, "allow") # {} THEN "allow" ELSE "deny"
        held == PathsOf(guards, kind)
        tops == {p \in held \cap PathsOf(todo, kind) : Up[p] \cap held = {}}
    IN  Task(kind, IF tops # {} THEN First(tops) ELSE Last(PathsOf(todo, kind)))
=============================================================================
