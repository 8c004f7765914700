--------------------------- MODULE MCWorkerManager ---------------------------
(***************************************************************************)
(* The instances of WorkerManager for TLC: a server with a fixed policy    *)
(* and every failure; one that takes its policy from the calls, with output*)
(* and workers that end; and one whose respawns fail.                      *)
(***************************************************************************)
EXTENDS WorkerManager

MCSetups ==
  { [inherit |-> FALSE, max_calls |-> 3, max_items |-> 2, max_requests |-> 2,
     failures |-> {"send", "interrupt", "exit", "session_end", "error", "gone", "guardrail"}],
    [inherit |-> TRUE, max_calls |-> 3, max_items |-> 2, max_requests |-> 2,
     failures |-> {"exit", "session_end"}],
    [inherit |-> TRUE, max_calls |-> 2, max_items |-> 0, max_requests |-> 2,
     failures |-> {"spawn", "exit", "session_end", "guardrail", "late_end", "late_warm"}] }
=============================================================================
