----------------------------- MODULE MCSideband -----------------------------
(***************************************************************************)
(* The instance of Sideband for TLC.  The worker's messages come from      *)
(* RSession alone; the client presses Ctrl-C at most once.                 *)
(***************************************************************************)
EXTENDS Sideband

MCTypes == [windows_worker \in BOOLEAN |-> {}]
MCInterrupts == [windows_worker \in BOOLEAN |-> 1]
=============================================================================
