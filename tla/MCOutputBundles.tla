--------------------------- MODULE MCOutputBundles ---------------------------
(* Item shapes, reply segments and failing file operations for model       *)
(* checking OutputBundles.                                                 *)
EXTENDS OutputBundles

Text(n, visible) == [kind |-> "text", n |-> n, visible |-> visible, img |-> 0]
Image(id, n) == [kind |-> "image", n |-> n, visible |-> TRUE, img |-> id]

MCSegments == {<<>>, <<Text(2, TRUE)>>, <<Text(5, TRUE)>>,
               <<Image(1, 2), Image(1, 1)>>, <<Text(1, FALSE), Image(2, 1), Text(3, TRUE)>>}
MCDetached == {<<>>, <<Text(4, TRUE)>>}

\* Directories that cannot be made or removed, and the file operations that
\* the items at the places of a reply meet.
Failing(ops, places) == {[ops |-> ops, at |-> p, cut |-> 2] : p \in places}
MCFaults ==
    UNION {Failing({"create"}, {0}), Failing({"remove"}, {0}), Failing({"content", "remove"}, {1, 6}),
           Failing({"index file"}, {1, 2}), Failing({"index"}, 1 .. 3), Failing({"content"}, {1, 2, 3, 6}),
           Failing({"old alias"}, {1, 2}), Failing({"alias"}, {1, 2}), Failing({"new alias"}, {1, 2}),
           Failing({"row"}, {1, 2, 3, 8}), Failing({"notice"}, 1 .. 3)}
=============================================================================
