----------------------------- MODULE PythonQueue -----------------------------
(***************************************************************************)
(* PythonInputQueue: the payloads a Python worker has accepted, the lines  *)
(* of the one being read as stdin, and whether a reader owns the queue.  A *)
(* payload is run whole as a cell or read line by line; what is left of a  *)
(* payload when the next cell is taken is dropped.                         *)
(***************************************************************************)
EXTENDS Naturals, Sequences

CONSTANT LinesPerPayload   \* lines of a payload read as stdin

ASSUME LinesAssumption == LinesPerPayload \in Nat \ {0}

EmptyQueue == [payloads |-> <<>>, bytes |-> <<>>, consumer |-> FALSE]

PushPayload(q, p) == [q EXCEPT !.payloads = Append(@, p)]

\* A payload as stdin: line endings normalised, the last line completed.
StdinLines(p) == [k \in 1..LinesPerPayload |-> <<p, k>>]

HasCell(q) == ~q.consumer /\ q.payloads # <<>>

\* A bug: the rest of the payload read before stays for the next reader.
TakeCellPayload_leftover(q) == [q EXCEPT !.payloads = Tail(@)]

TakeCellPayload(q) == [q EXCEPT !.payloads = Tail(@), !.bytes = <<>>]

RefillStdinBytes(q) ==
    IF q.bytes # <<>> \/ q.payloads = <<>> THEN q
    ELSE [q EXCEPT !.payloads = Tail(@), !.bytes = StdinLines(Head(q.payloads))]

HasStdin(q) == RefillStdinBytes(q).bytes # <<>>

\* consume_line takes one line, consume_bytes up to n units.
Consumed(q, n) ==
    LET r == RefillStdinBytes(q).bytes
    IN SubSeq(r, 1, IF n <= Len(r) THEN n ELSE Len(r))
ConsumeBytes(q, n) ==
    LET r == RefillStdinBytes(q)
    IN [r EXCEPT !.bytes = SubSeq(@, Len(Consumed(q, n)) + 1, Len(@))]

DiscardUnconsumedInput(q) == [q EXCEPT !.payloads = <<>>, !.bytes = <<>>]
ClearAfterInterrupt(q) == EmptyQueue
ClearAfterCellFinish(q) == IF q.consumer THEN q ELSE [q EXCEPT !.bytes = <<>>]
=============================================================================
