-------------------------- MODULE MCWindowsLaunch --------------------------
(* A workspace w with a protected g that holds h, a second root x below w  *)
(* that does not exist yet, and a file m that a worker makes in x.         *)
EXTENDS WindowsLaunch, TLC

CONSTANTS l1, l2, t1, t2, s1, s2

MCOrder == <<"w", "x", "m", "g", "h">>
MCUp ==
    [p \in {"w", "x", "m", "g", "h", t1, t2} |->
        CASE p \in {"x", "g"} -> {"w"}
          [] p = "m" -> {"w", "x"}
          [] p = "h" -> {"w", "g"}
          [] OTHER -> {}]
MCTemp == [l \in {l1, l2} |-> IF l = l1 THEN t1 ELSE t2]

(* The two launches, each with its temporary directory, are alike, and the *)
(* two policies are.                                                       *)
MCSymmetry ==
    {f \in Permutations({l1, l2, t1, t2, s1, s2}) :
        /\ f[l1] \in {l1, l2} /\ f[t1] \in {t1, t2} /\ (f[l1] = l1 <=> f[t1] = t1)
        /\ f[s1] \in {s1, s2} /\ f[s2] \in {s1, s2}}

(* Of two launches that overlapped under two policies neither is promised  *)
(* anything: both are spoiled and both policies are mixed, for good.  A    *)
(* lost write and an overlap are looked at one at a time.                  *)
MCWithin ==
    /\ mixed = {}
    /\ lost = 0 \/ spoiled # Launches
=============================================================================
