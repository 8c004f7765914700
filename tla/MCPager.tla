------------------------------- MODULE MCPager -------------------------------
(* Outputs of several pages: short lines, some that match twice, with plots *)
(* between them; one long line; and a short one that comes later.           *)
EXTENDS Pager

MCOutputs ==
    {Text(<<"x","m","n", "x","x","n", "m","x","m","n", "x","n", "x","m","n">>, <<3, 3, 6>>),
     Text(<<"x","m","x","m","x","x","x","m","x","n", "m","x","x">>, <<6>>),
     Text(<<"x","m","n">>, <<>>)}

In(h, n, u) == [head |-> h, n |-> n, unit |-> u]
MCInputs ==
    {In("next", 2, ""), In("skip", 0, ""), In("a", 0, ""), In("tail", 0, ""),
     In("tail", 1, "lines"), In("/", 0, ""), In("n", 0, ""), In("n", 2, ""), In("p", 1, ""),
     In("goto", 2, ""), In("matches", 1, "pattern"), In("matches", 0, ""), In("hits", 0, ""),
     In("hits", 1, ""), In("range", 2, ""), In("seek", 5, "chars"), In("seek", 80, "percent"),
     In("seek", 2, "line"), In("where", 0, ""), In("help", 0, ""), In("q", 0, ""),
     In("goto", 0, "")}
=============================================================================
