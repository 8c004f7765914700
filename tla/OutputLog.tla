------------------------------ MODULE OutputLog -------------------------------
(***************************************************************************)
(* What the output timeline promises its readers: output is shown at most  *)
(* once and in the order of its source, and output that is not kept is     *)
(* announced by a notice.  OutputTimeline implements this specification.   *)
(***************************************************************************)
EXTENDS Integers, Sequences, SequencesExt

VARIABLES written,   \* every piece of output written: a sequence of sources
          pending,   \* the pieces (positions in written) still to be shown
          shown,     \* what readers were given: pieces, and 0 for a notice
          due        \* output was lost and no notice of it has been shown

vars == <<written, pending, shown, due>>

Fresh == {i \in DOMAIN written' : i > Len(written)}
Given == SubSeq(shown', Len(shown) + 1, Len(shown'))
GivenPieces == {Given[i] : i \in DOMAIN Given} \ {0}

Init == written = <<>> /\ pending = {} /\ shown = <<>> /\ due = FALSE

\* Output arrives.  Some of it, or of what waited, may not be kept.
Write ==
    /\ IsPrefix(written, written') /\ shown' = shown
    /\ pending' \subseteq pending \cup Fresh
    /\ due \/ pending' # pending \cup Fresh => due'

\* A reader is given some of what waits, each source in its order, or a
\* notice, or both; what it is not given and does not wait any more is due.
Show ==
    /\ written' = written /\ IsPrefix(shown, shown')
    /\ GivenPieces \subseteq pending /\ pending' \subseteq pending \ GivenPieces
    /\ \A i, j \in DOMAIN Given :
          i < j /\ Given[i] # 0 /\ Given[j] # 0 /\ written[Given[i]] = written[Given[j]]
          => Given[i] < Given[j]
    /\ \A p \in pending', q \in GivenPieces : written[p] = written[q] => q < p
    /\ (due \/ pending' # pending \ GivenPieces) => due' \/ 0 \in {Given[i] : i \in DOMAIN Given}

\* The worker is replaced: what waited is forgotten.
Forget == written' = written /\ shown' = shown /\ pending' = {} /\ due' = FALSE

Next == Write \/ Show \/ Forget

Spec == Init /\ [][Next]_vars
=============================================================================
