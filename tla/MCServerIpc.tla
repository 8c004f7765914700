---------------------------- MODULE MCServerIpc ----------------------------
(***************************************************************************)
(* The instance of ServerIpc for TLC.  On Windows the interrupt            *)
(* transaction, with a second interrupt that may find the first one open,  *)
(* up to the stream's close; elsewhere every message, valid or not, that   *)
(* has no transaction.                                                     *)
(***************************************************************************)
EXTENDS ServerIpc

Transaction == {"interrupt_armed", "interrupt_complete"}
MCTypes ==
  [windows_worker \in BOOLEAN |->
     IF windows_worker THEN {"worker_ready", "input_wait", "ready"} \union Transaction
     ELSE MessageTypes \ Transaction]
MCInterrupts == [windows_worker \in BOOLEAN |-> IF windows_worker THEN 2 ELSE 1]
=============================================================================
