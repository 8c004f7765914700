------------------------- MODULE PythonSessionProofs -------------------------
(***************************************************************************)
(* Proofs about the built-in Python worker: payloads and lines are         *)
(* consumed in the order they were sent, and on Windows an interrupt the   *)
(* server takes for settled leaves nothing behind that could strike the    *)
(* next input.  Both hold for any number of threads, inputs and            *)
(* interrupts.                                                             *)
(***************************************************************************)
EXTENDS PythonSession, TLAPS

(***************************************************************************)
(* Types.                                                                  *)
(***************************************************************************)
Line == Nat \X Nat
Queue == [payloads : Seq(Nat), bytes : Seq(Line), consumer : BOOLEAN]
Inbox == {<<"input", n>> : n \in Nat} \cup {<<"interrupt">>, <<"shutdown">>}
Places == {"pub", "user", "next", "read", "event", "check", "cell", "wait", "commit", "rearm",
           "mark", "line", "detached", "clear", "final", "finish", "done"}
Thread == [pc : Places, owns : BOOLEAN, waited : BOOLEAN, got : Seq(Line), raw : BOOLEAN,
           kind : {"ready", "input_wait"}, then : {"next", "read", "line", "back"},
           resume : {"next", "read", "pub"}]
State == [active : BOOLEAN, cell : BOOLEAN, exit : BOOLEAN, shutdown : BOOLEAN, ended : BOOLEAN,
          failure : BOOLEAN, interrupt : BOOLEAN, checkpoint : BOOLEAN,
          target : {"none", "busy", "idle"}]
Delivery == [inFlight : BOOLEAN, handler : {"none", "running", "ended"}, completion : BOOLEAN,
             input : BOOLEAN, cleanup : BOOLEAN, failed : BOOLEAN]
Phases == {"none", "sent", "armed", "native", "completed", "ended"}

PythonType ==
    /\ q \in Queue
    /\ s \in State
    /\ th \in [Threads -> Thread]
    /\ obs \in Delivery
    /\ sig \in BOOLEAN
    /\ ipc \in {"recv", "mark", "discard", "arm", "broken"}
    /\ inbox \in Seq(Inbox)
    /\ server \in [fact : {"none", "ready", "input_wait"}, phase : Phases, shutdown : BOOLEAN]
    /\ last \in Line
    /\ again \in BOOLEAN
    /\ bounds \in [inputs : Nat, interrupts : Nat, reads : Nat, background : BOOLEAN]

(***************************************************************************)
(* What is still to be consumed follows what is done with: the lines of    *)
(* the payload being read, then the payloads, then what is on its way.     *)
(* While a reader waits there are no lines, so that the end of a cell may  *)
(* leave the queue alone.                                                  *)
(***************************************************************************)
QueueOrder(lines, payloads, from, most) ==
    /\ from[1] <= most
    /\ \A i \in DOMAIN lines : Follows(from, lines[i]) /\ lines[i][1] <= most
    /\ \A i, j \in DOMAIN lines : i < j => Follows(lines[i], lines[j])
    /\ \A i \in DOMAIN payloads : from[1] < payloads[i] /\ payloads[i] <= most
    /\ \A i, j \in DOMAIN payloads : i < j => payloads[i] < payloads[j]
    /\ \A i \in DOMAIN lines, j \in DOMAIN payloads : lines[i][1] < payloads[j]
IsInput(m) == m[1] = "input"
InboxOrder(box, most) ==
    /\ \A i \in DOMAIN box : IsInput(box[i]) => box[i][2] <= most
    /\ \A i, j \in DOMAIN box :
          i < j /\ IsInput(box[i]) /\ IsInput(box[j]) => box[i][2] < box[j][2]
(* Every number in use is below that of every input on its way.            *)
BeforeInbox(lines, payloads, from, box) ==
    \A j \in DOMAIN box : IsInput(box[j]) =>
        /\ from[1] < box[j][2]
        /\ \A i \in DOMAIN lines : lines[i][1] < box[j][2]
        /\ \A i \in DOMAIN payloads : payloads[i] < box[j][2]
ConsumeInv ==
    /\ QueueOrder(q.bytes, q.payloads, last, bounds.inputs)
    /\ InboxOrder(inbox, bounds.inputs)
    /\ BeforeInbox(q.bytes, q.payloads, last, inbox)
    /\ q.consumer => q.bytes = <<>>
    /\ ~again

(***************************************************************************)
(* Where an interrupt is, on Windows.                                      *)
(***************************************************************************)
Interrupts == {i \in DOMAIN inbox : inbox[i][1] = "interrupt"}
Idle == /\ ~obs.inFlight /\ obs.handler = "none" /\ ~obs.completion /\ ~sig
        /\ th[Main].pc # "check"
OnItsWay ==
    \/ ipc \in {"discard", "arm"} /\ Interrupts = {}
    \/ ipc \notin {"discard", "arm"} /\ \A i, j \in Interrupts : i = j
Arrived == ipc \notin {"discard", "arm"} /\ Interrupts = {}
InFlight ==
    /\ obs.inFlight /\ obs.cleanup /\ th[Main].pc # "check"
    /\ obs.completion <=> obs.handler = "none"
Joined ==
    /\ ~obs.inFlight /\ ~obs.cleanup /\ ~obs.completion /\ obs.handler = "none"
    /\ th[Main].pc = "check"
Settling ==
    /\ ~s.interrupt /\ ipc # "mark" /\ ~obs.failed
    /\ server.phase # "ended"
    /\ server.phase \in {"none", "completed"} => Idle /\ ~obs.cleanup /\ Arrived
    /\ server.phase = "sent" => Idle /\ ~obs.cleanup /\ OnItsWay
    /\ server.phase = "armed" => Idle /\ obs.cleanup /\ Arrived
    /\ server.phase = "native" => (InFlight \/ Joined) /\ Arrived
Over == server.phase # "none" /\ \A t \in Threads : th[t].pc = "done"
SettleInv == Windows => IF s.ended THEN Over ELSE Settling

-----------------------------------------------------------------------------
(* What the operations of the queue return.                                *)

(* The lines of a payload come one after another.                          *)
LEMMA StdinLinesShape ==
    ASSUME NEW p \in Nat
    PROVE  /\ StdinLines(p) \in Seq(Line)
           /\ Len(StdinLines(p)) = LinesPerPayload
           /\ \A k \in 1..LinesPerPayload : StdinLines(p)[k] = <<p, k>>
BY LinesAssumption DEF StdinLines, Line

(* Refilling keeps the type, and the lines it makes are those of the first *)
(* payload.                                                                *)
LEMMA RefillShape ==
    ASSUME NEW u \in Queue
    PROVE  /\ RefillStdinBytes(u) \in Queue
           /\ RefillStdinBytes(u).consumer = u.consumer
           /\ u.bytes # <<>> \/ u.payloads = <<>> => RefillStdinBytes(u) = u
           /\ u.bytes = <<>> /\ u.payloads # <<>> =>
                 /\ RefillStdinBytes(u).payloads = Tail(u.payloads)
                 /\ RefillStdinBytes(u).bytes = StdinLines(Head(u.payloads))
<1>1. CASE u.bytes # <<>> \/ u.payloads = <<>>
  BY <1>1 DEF RefillStdinBytes
<1>2. CASE u.bytes = <<>> /\ u.payloads # <<>>
  <2>1. Head(u.payloads) \in Nat /\ Tail(u.payloads) \in Seq(Nat)
    BY <1>2 DEF Queue
  <2>2. StdinLines(Head(u.payloads)) \in Seq(Line)
    BY <2>1, StdinLinesShape
  <2> QED  BY <1>2, <2>1, <2>2 DEF RefillStdinBytes, Queue
<1> QED  BY <1>1, <1>2

(* A read takes the first k lines of the refilled queue r.                 *)
Takes(u, n, r, k) ==
    /\ Consumed(u, n) \in Seq(Line)
    /\ Len(Consumed(u, n)) = k
    /\ \A i \in 1..k : Consumed(u, n)[i] = r.bytes[i]
    /\ ConsumeBytes(u, n) \in Queue
    /\ ConsumeBytes(u, n).payloads = r.payloads
    /\ ConsumeBytes(u, n).bytes \in Seq(Line)
    /\ Len(ConsumeBytes(u, n).bytes) = Len(r.bytes) - k
    /\ \A i \in 1..(Len(r.bytes) - k) : ConsumeBytes(u, n).bytes[i] = r.bytes[i + k]

\* Reading stdin takes a non-empty prefix of the refilled bytes.
LEMMA ConsumeShape ==
    ASSUME NEW u \in Queue, NEW n \in Nat \ {0}, HasStdin(u)
    PROVE  \E k \in 1..Len(RefillStdinBytes(u).bytes) : Takes(u, n, RefillStdinBytes(u), k)
<1> DEFINE r == RefillStdinBytes(u)
<1>1. r \in Queue /\ r.bytes \in Seq(Line) /\ r.bytes # <<>>
  BY RefillShape DEF HasStdin, Queue
<1> DEFINE k == IF n <= Len(r.bytes) THEN n ELSE Len(r.bytes)
<1>2. k \in 1..Len(r.bytes)
  <2> HIDE DEF r
  <2> QED  BY <1>1
<1>3. Consumed(u, n) = SubSeq(r.bytes, 1, k)
  BY DEF Consumed
<1>a. r = RefillStdinBytes(u)
  OBVIOUS
<1> HIDE DEF k, r
<1>4. /\ Consumed(u, n) \in Seq(Line)
      /\ Len(Consumed(u, n)) = k
      /\ \A i \in 1..k : Consumed(u, n)[i] = r.bytes[i]
  BY <1>1, <1>2, <1>3
<1>5. ConsumeBytes(u, n) = [r EXCEPT !.bytes = SubSeq(r.bytes, k + 1, Len(r.bytes))]
  BY <1>1, <1>4, <1>a DEF ConsumeBytes, Queue
<1> DEFINE rest == SubSeq(r.bytes, k + 1, Len(r.bytes))
<1>6. /\ rest \in Seq(Line)
      /\ Len(rest) = Len(r.bytes) - k
      /\ \A i \in 1..(Len(r.bytes) - k) : rest[i] = r.bytes[i + k]
  BY <1>1, <1>2
<1> HIDE DEF rest
<1>7. /\ ConsumeBytes(u, n) \in Queue
      /\ ConsumeBytes(u, n).payloads = r.payloads
      /\ ConsumeBytes(u, n).bytes = rest
  BY <1>1, <1>5, <1>6 DEF Queue, rest
<1>8. Takes(u, n, r, k)
  BY <1>4, <1>6, <1>7 DEF Takes
<1> QED  BY <1>2, <1>8, <1>a

(* The other operations keep the type of the queue.                        *)
LEMMA QueueKept ==
    ASSUME NEW u \in Queue
    PROVE  /\ \A p \in Nat : PushPayload(u, p) \in Queue
           /\ u.payloads # <<>> => TakeCellPayload(u) \in Queue
           /\ DiscardUnconsumedInput(u) \in Queue
           /\ ClearAfterInterrupt(u) \in Queue
           /\ ClearAfterCellFinish(u) \in Queue
           /\ EmptyQueue \in Queue
           /\ \A c \in BOOLEAN : [u EXCEPT !.consumer = c] \in Queue
<1>0. << >> \in Seq(Nat) /\ << >> \in Seq(Line)
  OBVIOUS
<1>1. \A p \in Nat : Append(u.payloads, p) \in Seq(Nat)
  BY DEF Queue
<1>2. u.payloads # <<>> => Tail(u.payloads) \in Seq(Nat)
  BY DEF Queue
<1> QED
  BY <1>0, <1>1, <1>2 DEF Queue, PushPayload, TakeCellPayload, DiscardUnconsumedInput,
     ClearAfterInterrupt, ClearAfterCellFinish, EmptyQueue

-----------------------------------------------------------------------------
(* Type correctness.                                                       *)

\* A thread that starts is a thread.
LEMMA NewThreadType ==
    ASSUME NEW pc \in Places
    PROVE  NewThread(pc) \in Thread /\ NewThread(pc).pc = pc
BY DEF NewThread, Thread

\* The initial state has the types.
LEMMA TypeInit == Init => PythonType
<1> SUFFICES ASSUME Init PROVE PythonType
  OBVIOUS
<1>1. << >> \in Seq(Nat) /\ << >> \in Seq(Line) /\ << >> \in Seq(Inbox)
  OBVIOUS
<1>2. th \in [Threads -> Thread]
  BY NewThreadType DEF Init, Places
<1>3. last \in Line /\ obs \in Delivery /\ s \in State /\ q \in Queue
  BY <1>1 DEF Init, Line, Delivery, Observer, State, Queue, EmptyQueue
<1> QED  BY <1>1, <1>2, <1>3 DEF Init, PythonType, Phases

(* What dropping input, or the rest of a payload, is done with.            *)
LEMMA MarkType ==
    ASSUME PythonType
    PROVE  /\ DropInput => last' \in Line /\ again' = again
           /\ EndPayload => last' \in Line /\ again' = again
<1>1. /\ last \in Nat \X Nat /\ LinesPerPayload \in Nat
      /\ q.payloads # <<>> => q.payloads[Len(q.payloads)] \in Nat
  BY LinesAssumption DEF PythonType, Line, Queue
<1>2. last[1] \in Nat
  BY <1>1
<1> DEFINE p == IF q.payloads = <<>> THEN last[1] ELSE q.payloads[Len(q.payloads)]
<1>3. p \in Nat
  BY <1>1, <1>2
<1>4. DropInput => last' = <<p, LinesPerPayload>> /\ again' = again
  BY DEF DropInput
<1> HIDE DEF p
<1>5. EndPayload => last' = <<last[1], LinesPerPayload>> /\ again' = again
  BY DEF EndPayload
<1> QED  BY <1>1, <1>2, <1>3, <1>4, <1>5 DEF Line

(* A fact the server has seen.                                             *)
LEMMA SeenType ==
    ASSUME PythonType, NEW fact \in {"ready", "input_wait"}
    PROVE  Seen(fact) \in [fact : {"none", "ready", "input_wait"}, phase : Phases, shutdown : BOOLEAN]
BY DEF PythonType, Seen, Phases

(* The steps of the server and of native interrupts.                       *)
LEMMA TypeServer == PythonType /\ (ServerStep \/ NativeStep) => PythonType'
<1> SUFFICES ASSUME PythonType, ServerStep \/ NativeStep PROVE PythonType'
  OBVIOUS
<1>0. \A m \in Inbox : Append(inbox, m) \in Seq(Inbox)
  BY DEF PythonType
<1>1. CASE SendInput
  <2>1. bounds.inputs + 1 \in Nat
    BY DEF PythonType
  <2>2. <<"input", bounds.inputs + 1>> \in Inbox
    BY <2>1 DEF Inbox
  <2>3. inbox' \in Seq(Inbox)
    BY <1>0, <1>1, <2>2 DEF SendInput
  <2>4. /\ bounds' \in [inputs : Nat, interrupts : Nat, reads : Nat, background : BOOLEAN]
        /\ server' \in [fact : {"none", "ready", "input_wait"}, phase : Phases, shutdown : BOOLEAN]
    BY <1>1, <2>1 DEF SendInput, PythonType
  <2> QED  BY <1>1, <2>3, <2>4 DEF SendInput, PythonType
<1>2. CASE SendInterrupt
  <2>1. <<"interrupt">> \in Inbox
    BY DEF Inbox
  <2>2. inbox' \in Seq(Inbox)
    BY <1>0, <1>2, <2>1 DEF SendInterrupt
  <2>3. bounds' \in [inputs : Nat, interrupts : Nat, reads : Nat, background : BOOLEAN]
    <3>1. bounds.interrupts + 1 \in Nat
      BY DEF PythonType
    <3>2. bounds' = [bounds EXCEPT !.interrupts = bounds.interrupts + 1]
      BY <1>2 DEF SendInterrupt
    <3> QED  BY <3>1, <3>2 DEF PythonType
  <2>4. server' \in [fact : {"none", "ready", "input_wait"}, phase : Phases, shutdown : BOOLEAN]
    BY <1>2 DEF SendInterrupt, PythonType, Phases
  <2> QED  BY <1>2, <2>2, <2>3, <2>4 DEF SendInterrupt, PythonType
<1>3. CASE SendShutdown
  <2>1. <<"shutdown">> \in Inbox
    BY DEF Inbox
  <2>2. inbox' \in Seq(Inbox)
    BY <1>0, <1>3, <2>1 DEF SendShutdown
  <2> QED  BY <1>3, <2>2 DEF SendShutdown, PythonType
<1>4. CASE NativeInterrupt
  BY <1>4 DEF NativeInterrupt, PythonType, Phases, ObserveCtrlC, Poison, Delivery
<1>5. CASE RuntimeHandler
  BY <1>5 DEF RuntimeHandler, PythonType, HandlerEnds, Delivery
<1>6. CASE Watcher
  BY <1>6 DEF Watcher, PythonType, Watched, Delivery
<1> QED  BY <1>1, <1>2, <1>3, <1>4, <1>5, <1>6 DEF ServerStep, NativeStep

\* Noting new input keeps the observer's type.
LEMMA NotifyType == ASSUME NEW o \in Delivery PROVE NotifyInput(o) \in Delivery
BY DEF NotifyInput, Delivery

\* A protocol failure keeps the session's type.
LEMMA FailureType == ASSUME NEW st \in State PROVE ProtocolFailure(st) \in State
BY DEF ProtocolFailure, State

(* The steps of the sideband reader.                                       *)
LEMMA TypeIpc == PythonType /\ IpcStep => PythonType'
<1> SUFFICES ASSUME PythonType, IpcStep PROVE PythonType'
  OBVIOUS
<1>0. ASSUME NEW kind, Receive(kind)
      PROVE  inbox' \in Seq(Inbox) /\ Head(inbox) \in Inbox
  BY <1>0 DEF Receive, PythonType
<1>1. CASE BeginInput
  <2>1. inbox' \in Seq(Inbox) /\ Head(inbox) \in Inbox /\ Head(inbox)[1] = "input"
    BY <1>0, <1>1 DEF BeginInput, Receive
  <2>2. Head(inbox)[2] \in Nat
    BY <2>1 DEF Inbox
  <2>3. q' \in Queue
    <3>1. q \in Queue
      BY DEF PythonType
    <3>2. PushPayload(q, Head(inbox)[2]) \in Queue /\ EmptyQueue \in Queue
      BY <2>2, <3>1, QueueKept
    <3> QED  BY <1>1, <3>1, <3>2 DEF BeginInput
  <2>4. s' \in State
    BY <1>1, FailureType DEF BeginInput, PythonType, State
  <2>5. obs' \in Delivery
    BY <1>1, NotifyType DEF BeginInput, PythonType
  <2>6. sig' \in BOOLEAN /\ ipc' \in {"recv", "mark", "discard", "arm", "broken"}
    BY <1>1 DEF BeginInput, PythonType
  <2>7. last' \in Line /\ again' \in BOOLEAN
    BY <1>1, MarkType DEF BeginInput, PythonType
  <2> QED  BY <1>1, <2>1, <2>3, <2>4, <2>5, <2>6, <2>7 DEF BeginInput, PythonType
<1>2. CASE Interrupt
  <2>1. inbox' \in Seq(Inbox)
    BY <1>0, <1>2 DEF Interrupt
  <2>2. q \in Queue /\ ClearAfterInterrupt(q) \in Queue
    BY QueueKept DEF PythonType
  <2>3. q' \in Queue /\ ipc' \in {"recv", "mark", "discard", "arm", "broken"}
    BY <1>2, <2>2 DEF Interrupt
  <2>4. s' \in State
    BY <1>2 DEF Interrupt, PythonType, State
  <2>5. last' \in Line /\ again' \in BOOLEAN
    BY <1>2, MarkType DEF Interrupt, PythonType
  <2> QED  BY <1>2, <2>1, <2>3, <2>4, <2>5 DEF Interrupt, PythonType
<1>3. CASE MarkInterruptRequested
  BY <1>3 DEF MarkInterruptRequested, PythonType, State
<1>4. CASE DiscardPendingStdin
  <2>1. last' \in Line /\ again' \in BOOLEAN
    BY <1>4, MarkType DEF DiscardPendingStdin, PythonType
  <2> QED  BY <1>4, <2>1, QueueKept DEF DiscardPendingStdin, PythonType
<1>5. CASE ArmDelivery
  <2>1. obs' \in Delivery
    BY <1>5 DEF ArmDelivery, PythonType, CleanupComplete, Poison, Delivery
  <2>2. s' \in State
    BY <1>5, FailureType DEF ArmDelivery, PythonType
  <2> QED  BY <1>5, <2>1, <2>2 DEF ArmDelivery, PythonType, Phases
<1>6. CASE RequestShutdown
  <2>1. inbox' \in Seq(Inbox)
    BY <1>0, <1>6 DEF RequestShutdown
  <2>2. obs' \in Delivery
    BY <1>6, NotifyType DEF RequestShutdown, PythonType
  <2> QED  BY <1>6, <2>1, <2>2 DEF RequestShutdown, PythonType, State
<1> QED  BY <1>1, <1>2, <1>3, <1>4, <1>5, <1>6 DEF IpcStep

\* A thread that goes back to user code is a thread at rest.
LEMMA BackType ==
    ASSUME NEW t
    PROVE  Back(t) \in Thread /\ Back(t).pc \in {"cell", "user"}
BY NewThreadType DEF Back, Places

\* Giving up the consumer's place leaves the queue's contents alone.
LEMMA ReleaseType ==
    ASSUME PythonType, NEW t
    PROVE  /\ Release(t) \in Queue
           /\ Release(t).bytes = q.bytes
           /\ Release(t).payloads = q.payloads
BY QueueKept DEF Release, PythonType, Queue

(* After a publication a thread goes where it was to go.                   *)
LEMMA PublishedType ==
    ASSUME PythonType, NEW t \in Threads
    PROVE  /\ Published(t) \in [Threads -> Thread]
           /\ Published(t)[t].pc \in {"next", "read", "line", "cell", "user"}
           /\ \A u \in Threads \ {t} : Published(t)[u] = th[u]
<1>1. th[t] \in Thread /\ th \in [Threads -> Thread]
  BY DEF PythonType
<1> DEFINE r == IF th[t].then = "back" THEN Back(t) ELSE [th[t] EXCEPT !.pc = th[t].then]
<1>2. r \in Thread /\ r.pc \in {"next", "read", "line", "cell", "user"}
  BY <1>1, BackType DEF Thread, Places
<1>3. Published(t) = [th EXCEPT ![t] = r]
  BY DEF Published
<1> HIDE DEF r
<1> QED  BY <1>1, <1>2, <1>3

(* The steps of a read, by whatever thread.                                *)
LEMMA TypeRead ==
    ASSUME PythonType, NEW t \in Threads, ReadStep(t)
    PROVE  PythonType'
<1>0. th \in [Threads -> Thread] /\ th[t] \in Thread
  BY DEF PythonType
<1>1. CASE ReadStops(t)
  <2>1. q' \in Queue
    BY <1>1, ReleaseType DEF ReadStops
  <2>2. th' \in [Threads -> Thread]
    BY <1>0, <1>1, BackType DEF ReadStops
  <2>3. s' \in State /\ sig' \in BOOLEAN
    BY <1>1 DEF ReadStops, PythonType, State
  <2> QED  BY <1>1, <2>1, <2>2, <2>3 DEF ReadStops, PythonType
<1>2. CASE ReadLine(t)
  <2> DEFINE n == IF th[t].raw THEN 2 ELSE 1
  <2>1. q \in Queue /\ HasStdin(q) /\ n \in Nat \ {0}
    BY <1>2 DEF ReadLine, PythonType
  <2>2. /\ q' = [ConsumeBytes(q, n) EXCEPT !.consumer = FALSE]
        /\ last' = Consumed(q, n)[Len(Consumed(q, n))]
        /\ again' \in BOOLEAN
        /\ th' = [th EXCEPT ![t].owns = FALSE, ![t].got = Consumed(q, n),
                            ![t].pc = IF s.cell THEN "line" ELSE "detached"]
    BY <1>2 DEF ReadLine, Take
  <2> HIDE DEF n
  <2>3. /\ Consumed(q, n) \in Seq(Line)
        /\ Len(Consumed(q, n)) \in Nat \ {0}
        /\ ConsumeBytes(q, n) \in Queue
    <3>1. RefillStdinBytes(q) \in Queue
      BY <2>1, RefillShape
    <3>2. Len(RefillStdinBytes(q).bytes) \in Nat
      BY <3>1 DEF Queue
    <3>3. PICK k \in 1..Len(RefillStdinBytes(q).bytes) : Takes(q, n, RefillStdinBytes(q), k)
      BY <2>1, ConsumeShape
    <3> QED  BY <3>2, <3>3 DEF Takes
  <2>4. q' \in Queue
    BY <2>2, <2>3, QueueKept
  <2>5. last' \in Line
    BY <2>2, <2>3
  <2>6. th' \in [Threads -> Thread]
    BY <1>0, <2>2, <2>3 DEF Thread, Places
  <2>7. s' \in State
    BY <1>2 DEF ReadLine, PythonType, State
  <2> QED  BY <1>2, <2>2, <2>4, <2>5, <2>6, <2>7 DEF ReadLine, PythonType
<1>3. CASE ReadAtShutdown(t)
  <2>1. q' \in Queue
    BY <1>3, QueueKept DEF ReadAtShutdown, PythonType
  <2>2. th' \in [Threads -> Thread]
    BY <1>0, <1>3, BackType DEF ReadAtShutdown
  <2> QED  BY <1>3, <2>1, <2>2 DEF ReadAtShutdown, PythonType
<1>4. CASE ReadWaits(t)
  <2>1. q' \in Queue
    BY <1>4, QueueKept DEF ReadWaits, PythonType
  <2>2. th' \in [Threads -> Thread]
    BY <1>0, <1>4 DEF ReadWaits, Thread, Places
  <2> QED  BY <1>4, <2>1, <2>2 DEF ReadWaits, PythonType
<1>5. CASE InputWait(t)
  <2>1. th' \in [Threads -> Thread]
    BY <1>0, <1>5 DEF InputWait, Thread, Places
  <2> QED  BY <1>5, <2>1 DEF InputWait, PythonType, State
<1>6. CASE CompleteDetached(t)
  <2>1. th' \in [Threads -> Thread]
    BY <1>0, <1>6 DEF CompleteDetached, Thread, Places
  <2> QED  BY <1>6, <2>1 DEF CompleteDetached, PythonType, State
<1>7. CASE ReadReturns(t)
  <2>1. th' \in [Threads -> Thread]
    <3>1. Goto(t, "read") \in [Threads -> Thread]
      BY <1>0 DEF Goto, Thread, Places
    <3>2. [th EXCEPT ![t] = Back(t)] \in [Threads -> Thread]
      BY <1>0, BackType
    <3> QED  BY <1>7, <3>1, <3>2 DEF ReadReturns
  <2>2. s' \in State /\ sig' \in BOOLEAN
    BY <1>7 DEF ReadReturns, PythonType, State
  <2> QED  BY <1>7, <2>1, <2>2 DEF ReadReturns, PythonType
<1> QED  BY <1>1, <1>2, <1>3, <1>4, <1>5, <1>6, <1>7 DEF ReadStep

\* Moving a thread changes its program point and no other thread.
LEMMA GotoType ==
    ASSUME PythonType, NEW t \in Threads, NEW pc \in Places
    PROVE  /\ Goto(t, pc) \in [Threads -> Thread]
           /\ Goto(t, pc)[t] = [th[t] EXCEPT !.pc = pc]
           /\ Goto(t, pc)[t].pc = pc
           /\ \A u \in Threads \ {t} : Goto(t, pc)[u] = th[u]
<1>1. th \in [Threads -> Thread] /\ th[t] \in Thread
  BY DEF PythonType
<1> QED  BY <1>1 DEF Goto, Thread

(* The steps of a publication.                                             *)
LEMMA TypePublish ==
    ASSUME PythonType, NEW t \in Threads, PublishStep(t)
    PROVE  PythonType'
<1>0. th[t] \in Thread /\ th[t].kind \in {"ready", "input_wait"}
  BY DEF PythonType, Thread
<1>1. CASE PublishUnix(t)
  BY <1>0, <1>1, SeenType, PublishedType DEF PublishUnix, PythonType
<1>2. CASE PreparePublication(t)
  <2>1. th' \in [Threads -> Thread]
    BY <1>2, GotoType DEF PreparePublication, Places
  <2> QED  BY <1>2, <2>1 DEF PreparePublication, PythonType
<1>3. CASE Rearm(t)
  <2>1. th' \in [Threads -> Thread]
    BY <1>3, GotoType DEF Rearm, Places
  <2> QED  BY <1>3, <2>1 DEF Rearm, PythonType
<1>4. CASE MarkCheckpointPending(t)
  <2>1. th' \in [Threads -> Thread]
    BY <1>4, GotoType DEF MarkCheckpointPending, Places
  <2> QED  BY <1>4, <2>1 DEF MarkCheckpointPending, PythonType, State
<1>5. CASE CommitPublication(t)
  <2>1. Goto(t, "pub") \in [Threads -> Thread] /\ Published(t) \in [Threads -> Thread]
    BY GotoType, PublishedType DEF Places
  <2>2. th' \in [Threads -> Thread]
    BY <1>5, <2>1 DEF CommitPublication
  <2>3. server' \in [fact : {"none", "ready", "input_wait"}, phase : Phases, shutdown : BOOLEAN]
    BY <1>0, <1>5, SeenType DEF CommitPublication, PythonType
  <2>4. s' \in State
    BY <1>5 DEF CommitPublication, PythonType, State
  <2> QED  BY <1>5, <2>2, <2>3, <2>4 DEF CommitPublication, PythonType
<1> QED  BY <1>1, <1>2, <1>3, <1>4, <1>5 DEF PublishStep

(* Joining an interrupt on the main thread.                                *)
LEMMA TypeJoin ==
    ASSUME PythonType, FinishInFlight \/ InputEvent \/ CheckJoined
    PROVE  PythonType'
<1>0. Main \in Threads /\ th \in [Threads -> Thread] /\ th[Main] \in Thread
  BY DEF PythonType, Threads
<1>1. CASE FinishInFlight
  <2>1. obs' \in Delivery
    BY <1>1 DEF FinishInFlight, PythonType, ConsumeCompletion, Poison, Delivery
  <2>2. th' \in [Threads -> Thread]
    BY <1>0, <1>1 DEF FinishInFlight, Thread, Places
  <2> QED  BY <1>1, <2>1, <2>2 DEF FinishInFlight, PythonType
<1>2. CASE InputEvent
  <2>1. obs' \in Delivery
    BY <1>2 DEF InputEvent, PythonType, Delivery
  <2>2. th[Main].resume \in Places
    BY <1>0 DEF Thread, Places
  <2>3. th' \in [Threads -> Thread]
    BY <1>0, <1>2, <2>2, GotoType DEF InputEvent
  <2> QED  BY <1>2, <2>1, <2>3 DEF InputEvent, PythonType
<1>3. CASE CheckJoined
  <2> DEFINE r == th[Main]
             raised == sig /\ s.target = "busy"
             reading == r.resume = "read" \/ (r.resume = "pub" /\ r.kind = "input_wait")
             new == CASE reading /\ raised -> Back(Main)
              [] r.resume = "read" /\ ~raised -> [r EXCEPT !.pc = "wait", !.waited = TRUE]
              [] r.resume = "pub" /\ ~raised -> [r EXCEPT !.pc = "commit"]
              [] r.resume = "pub" /\ raised /\ ~reading -> [r EXCEPT !.pc = "pub"]
              [] r.resume = "next" -> [r EXCEPT !.pc = "pub", !.kind = "ready", !.then = "next"]
  <2>1. new \in Thread
    BY <1>0, BackType DEF Thread, Places
  <2>2. th' = [th EXCEPT ![Main] = new]
    BY <1>3 DEF CheckJoined
  <2> HIDE DEF new
  <2>3. th' \in [Threads -> Thread]
    BY <1>0, <2>1, <2>2
  <2>4. q' \in Queue
    BY <1>3, ReleaseType DEF CheckJoined, PythonType
  <2> QED  BY <1>3, <2>3, <2>4 DEF CheckJoined, PythonType, State, Phases
<1> QED  BY <1>1, <1>2, <1>3

(* The cell loop.                                                          *)
LEMMA TypeLoop ==
    ASSUME PythonType,
           ReadBehind \/ TakeInterrupt \/ ReadyAfterInterrupt \/ NextCell \/ LeaveLoop
           \/ WaitForActivity \/ CellEnds \/ FinishCellRequest \/ FinishSessionEnd
    PROVE  PythonType'
<1>0. Main \in Threads /\ th \in [Threads -> Thread] /\ th[Main] \in Thread /\ q \in Queue
  BY DEF PythonType, Threads
<1>1. CASE ReadBehind
  <2>1. th' \in [Threads -> Thread]
    BY <1>0, <1>1 DEF ReadBehind, Thread, Places
  <2> QED  BY <1>1, <2>1 DEF ReadBehind, PythonType
<1>2. CASE TakeInterrupt
  <2>1. th' \in [Threads -> Thread]
    BY <1>0, <1>2, GotoType DEF TakeInterrupt, Places
  <2> QED  BY <1>2, <2>1 DEF TakeInterrupt, PythonType, State
<1>3. CASE ReadyAfterInterrupt
  <2>1. th' \in [Threads -> Thread]
    BY <1>0, <1>3, GotoType DEF ReadyAfterInterrupt, Places
  <2> QED  BY <1>3, <2>1, SeenType DEF ReadyAfterInterrupt, PythonType
<1>4. CASE NextCell
  <2>1. th' \in [Threads -> Thread]
    BY <1>0, <1>4, GotoType DEF NextCell, Places
  <2>2. Head(q.payloads) \in Nat /\ q.payloads # <<>>
    BY <1>0, <1>4 DEF NextCell, HasCell, Queue
  <2>3. q' \in Queue /\ last' \in Line /\ again' \in BOOLEAN
    BY <1>0, <1>4, <2>2, QueueKept, LinesAssumption DEF NextCell, Line, Take
  <2> QED  BY <1>4, <2>1, <2>3 DEF NextCell, PythonType, State
<1>5. CASE LeaveLoop
  <2>1. th' \in [Threads -> Thread]
    BY <1>0, <1>5, GotoType DEF LeaveLoop, Places
  <2> QED  BY <1>5, <2>1 DEF LeaveLoop, PythonType
<1>6. CASE WaitForActivity
  <2>1. th' \in [Threads -> Thread]
    BY <1>0, <1>6 DEF WaitForActivity, Thread, Places
  <2> QED  BY <1>6, <2>1 DEF WaitForActivity, PythonType
<1>7. CASE CellEnds
  <2>1. th' \in [Threads -> Thread]
    <3>1. Goto(Main, "final") \in [Threads -> Thread] /\ Goto(Main, "finish") \in [Threads -> Thread]
      BY <1>0, GotoType DEF Places
    <3> QED  BY <1>7, <3>1 DEF CellEnds
  <2>2. s' \in State /\ sig' \in BOOLEAN
    BY <1>7 DEF CellEnds, PythonType, State
  <2> QED  BY <1>7, <2>1, <2>2 DEF CellEnds, PythonType
<1>8. CASE FinishCellRequest
  <2>1. th' \in [Threads -> Thread]
    BY <1>0, <1>8 DEF FinishCellRequest, Thread, Places
  <2>2. q' \in Queue
    BY <1>0, <1>8, QueueKept DEF FinishCellRequest
  <2>3. s' \in State
    BY <1>0, <1>8 DEF FinishCellRequest, PythonType, State, Queue
  <2>4. last' \in Line /\ again' \in BOOLEAN
    BY <1>8, MarkType DEF FinishCellRequest, PythonType
  <2> QED  BY <1>8, <2>1, <2>2, <2>3, <2>4 DEF FinishCellRequest, PythonType
<1>9. CASE FinishSessionEnd
  <2>1. th' \in [Threads -> Thread]
    BY <1>9, NewThreadType DEF FinishSessionEnd, Places
  <2>2. q' \in Queue
    BY <1>0, <1>9, QueueKept DEF FinishSessionEnd
  <2>3. last' \in Line /\ again' \in BOOLEAN
    BY <1>9, MarkType DEF FinishSessionEnd, PythonType
  <2> QED  BY <1>9, <2>1, <2>2, <2>3 DEF FinishSessionEnd, PythonType, State, Phases
<1> QED  BY <1>1, <1>2, <1>3, <1>4, <1>5, <1>6, <1>7, <1>8, <1>9

(* User code.                                                              *)
LEMMA TypeUser ==
    ASSUME PythonType, RequestExit \/ \E t \in Threads : StartRead(t)
    PROVE  PythonType'
<1>1. CASE RequestExit
  BY <1>1, NotifyType DEF RequestExit, PythonType, State
<1>2. ASSUME NEW t \in Threads, StartRead(t) PROVE PythonType'
  <2>1. \A raw \in BOOLEAN : [NewThread("read") EXCEPT !.raw = raw] \in Thread
    <3>1. NewThread("read") \in Thread
      BY NewThreadType DEF Places
    <3> QED  BY <3>1 DEF Thread
  <2>2. th' \in [Threads -> Thread]
    <3>1. PICK raw \in BOOLEAN : th' = [th EXCEPT ![t] = [NewThread("read") EXCEPT !.raw = raw]]
      BY <1>2 DEF StartRead
    <3>2. th \in [Threads -> Thread] /\ [NewThread("read") EXCEPT !.raw = raw] \in Thread
      BY <2>1 DEF PythonType
    <3> QED  BY <3>1, <3>2
  <2>3. bounds' \in [inputs : Nat, interrupts : Nat, reads : Nat, background : BOOLEAN]
    <3> DEFINE n == bounds.reads + 1
               b == bounds.background \/ t # Main
    <3>1. bounds' = [bounds EXCEPT !.reads = n, !.background = b]
      BY <1>2 DEF StartRead
    <3>2. n \in Nat /\ b \in BOOLEAN
      BY DEF PythonType
    <3> HIDE DEF n, b
    <3> QED  BY <3>1, <3>2 DEF PythonType
  <2> QED  BY <1>2, <2>2, <2>3 DEF StartRead, PythonType
<1> QED  BY <1>1, <1>2

\* Every step keeps the types.
LEMMA TypeStep == PythonType /\ [Next]_vars => PythonType'
<1> SUFFICES ASSUME PythonType, [Next]_vars PROVE PythonType'
  OBVIOUS
<1>1. CASE UNCHANGED vars
  BY <1>1 DEF vars, PythonType
<1>2. CASE MainStep
  <2>1. Main \in Threads
    BY DEF Threads
  <2> QED  BY <1>2, <2>1, TypeJoin, TypeLoop, TypeRead, TypePublish DEF MainStep
<1>3. ASSUME NEW t \in Readers, ReadStep(t) \/ PublishStep(t) PROVE PythonType'
  <2>1. t \in Threads
    BY <1>3 DEF Threads
  <2> QED  BY <1>3, <2>1, TypeRead, TypePublish
<1> QED  BY <1>1, <1>2, <1>3, TypeServer, TypeIpc, TypeUser DEF Next

-----------------------------------------------------------------------------
(* Consumption in order.                                                   *)

(* Dropping lines or payloads, or the next message, disturbs nothing, and  *)
(* the payload being read is done with once its lines are gone.            *)
LEMMA OrderDropped ==
    ASSUME PythonType, PythonType', ConsumeInv,
           q'.bytes \in {q.bytes, <<>>}, q'.payloads \in {q.payloads, <<>>},
           q'.consumer => q.consumer \/ q'.bytes = <<>>,
           inbox' = inbox \/ (inbox # <<>> /\ inbox' = Tail(inbox)),
           last' = last \/ (last'[1] = last[1] /\ q'.bytes = <<>>),
           again' = again, bounds'.inputs = bounds.inputs
    PROVE  ConsumeInv'
<1>0. /\ inbox \in Seq(Inbox) /\ inbox' \in Seq(Inbox)
      /\ \A j \in DOMAIN inbox' : j \in Nat
  BY DEF PythonType
<1>a. last'[1] = last[1] /\ (last' = last \/ q'.bytes = <<>>)
  OBVIOUS
<1>1. QueueOrder(q'.bytes, q'.payloads, last', bounds'.inputs)
  BY <1>a DEF ConsumeInv, QueueOrder
<1>2. PICK d \in {0, 1} :
         \A j \in DOMAIN inbox' : j + d \in DOMAIN inbox /\ inbox'[j] = inbox[j + d]
  <2>1. CASE inbox' = inbox
    <3>1. \A j \in DOMAIN inbox' : j + 0 \in DOMAIN inbox /\ inbox'[j] = inbox[j + 0]
      BY <1>0, <2>1
    <3> QED  BY <3>1
  <2>2. CASE inbox # <<>> /\ inbox' = Tail(inbox)
    <3>1. \A j \in DOMAIN inbox' : j + 1 \in DOMAIN inbox /\ inbox'[j] = inbox[j + 1]
      BY <1>0, <2>2
    <3> QED  BY <3>1
  <2> QED  BY <2>1, <2>2
<1>3. InboxOrder(inbox', bounds'.inputs)
  <2>1. \A i, j \in DOMAIN inbox' : i < j => i + d < j + d
    BY <1>0
  <2> QED  BY <1>0, <1>2, <2>1 DEF ConsumeInv, InboxOrder, IsInput
<1>4. BeforeInbox(q'.bytes, q'.payloads, last', inbox')
  <2>1. \A j \in DOMAIN inbox' : IsInput(inbox'[j]) <=> IsInput(inbox[j + d])
    BY <1>2
  <2>2. \A j \in DOMAIN inbox : IsInput(inbox[j]) =>
           /\ last[1] < inbox[j][2]
           /\ \A i \in DOMAIN q'.bytes : q'.bytes[i][1] < inbox[j][2]
           /\ \A i \in DOMAIN q'.payloads : q'.payloads[i] < inbox[j][2]
    BY DEF ConsumeInv, BeforeInbox
  <2> QED  BY <1>a, <1>2, <2>1, <2>2 DEF BeforeInbox
<1>5. (q'.consumer => q'.bytes = <<>>) /\ ~again'
  BY DEF ConsumeInv
<1> QED  BY <1>1, <1>3, <1>4, <1>5 DEF ConsumeInv

(* Dropping all that was accepted, however far that reaches, disturbs      *)
(* nothing of what is still on its way.                                    *)
LEMMA OrderEmptied ==
    ASSUME PythonType, PythonType', ConsumeInv, DropInput,
           q'.bytes = <<>>, q'.payloads = <<>>,
           inbox' = inbox \/ (inbox # <<>> /\ inbox' = Tail(inbox)),
           bounds'.inputs = bounds.inputs
    PROVE  ConsumeInv'
<1> DEFINE p == IF q.payloads = <<>> THEN last[1] ELSE q.payloads[Len(q.payloads)]
<1>0. /\ inbox \in Seq(Inbox) /\ q.payloads \in Seq(Nat)
      /\ \A j \in DOMAIN inbox : j \in Nat
  BY DEF PythonType, Queue
<1>1. last'[1] = p /\ again' = again
  BY DEF DropInput
<1>2. /\ p <= bounds.inputs
      /\ \A j \in DOMAIN inbox : IsInput(inbox[j]) => p < inbox[j][2]
  <2>1. CASE q.payloads = <<>>
    BY <2>1 DEF ConsumeInv, QueueOrder, BeforeInbox
  <2>2. CASE q.payloads # <<>>
    <3>1. Len(q.payloads) \in DOMAIN q.payloads
      BY <1>0, <2>2
    <3> QED  BY <2>2, <3>1 DEF ConsumeInv, QueueOrder, BeforeInbox
  <2> QED  BY <2>1, <2>2
<1> HIDE DEF p
<1>3. QueueOrder(q'.bytes, q'.payloads, last', bounds'.inputs)
  BY <1>1, <1>2 DEF QueueOrder
<1>4. InboxOrder(inbox', bounds'.inputs) /\ BeforeInbox(q'.bytes, q'.payloads, last', inbox')
  <2>1. CASE inbox' = inbox
    BY <1>1, <1>2, <2>1 DEF ConsumeInv, InboxOrder, BeforeInbox
  <2>2. CASE inbox # <<>> /\ inbox' = Tail(inbox)
    <3>1. /\ \A j \in DOMAIN inbox' : j + 1 \in DOMAIN inbox /\ inbox'[j] = inbox[j + 1]
          /\ \A i, j \in DOMAIN inbox' : i < j => i + 1 < j + 1
      BY <1>0, <2>2
    <3> QED  BY <1>1, <1>2, <3>1 DEF ConsumeInv, InboxOrder, BeforeInbox
  <2> QED  BY <2>1, <2>2
<1> QED  BY <1>1, <1>3, <1>4 DEF ConsumeInv

(* A payload leaves the inbox and joins the queue.                         *)
LEMMA OrderPushed ==
    ASSUME PythonType, PythonType', ConsumeInv,
           inbox # <<>>, inbox' = Tail(inbox), IsInput(Head(inbox)),
           q'.bytes = q.bytes, q'.payloads = Append(q.payloads, Head(inbox)[2]),
           q'.consumer = q.consumer, last' = last, again' = again, bounds'.inputs = bounds.inputs
    PROVE  ConsumeInv'
<1> DEFINE p == Head(inbox)[2]
<1>0. /\ q.payloads \in Seq(Nat) /\ q.bytes \in Seq(Line) /\ inbox \in Seq(Inbox)
      /\ inbox' \in Seq(Inbox) /\ bounds.inputs \in Nat /\ last \in Line
  BY DEF PythonType, Queue
<1>1. /\ Len(inbox') = Len(inbox) - 1
      /\ \A j \in DOMAIN inbox' : j + 1 \in DOMAIN inbox /\ inbox'[j] = inbox[j + 1]
      /\ 1 \in DOMAIN inbox /\ inbox[1] = Head(inbox)
  BY <1>0
<1>2. /\ p \in Nat /\ p <= bounds.inputs
      /\ last[1] < p
      /\ \A i \in DOMAIN q.bytes : q.bytes[i][1] < p
      /\ \A i \in DOMAIN q.payloads : q.payloads[i] < p
  <2>1. Head(inbox) \in Inbox
    BY <1>0
  <2>2. p \in Nat
    BY <2>1 DEF Inbox, IsInput
  <2> QED  BY <1>1, <2>2 DEF ConsumeInv, InboxOrder, BeforeInbox
<1>3. \A j \in DOMAIN inbox' : IsInput(inbox'[j]) => p < inbox'[j][2]
  <2> SUFFICES ASSUME NEW j \in DOMAIN inbox', IsInput(inbox'[j]) PROVE p < inbox'[j][2]
    OBVIOUS
  <2>1. 1 < j + 1
    BY <1>0
  <2> QED  BY <1>1, <2>1 DEF ConsumeInv, InboxOrder
<1>4. /\ Len(q'.payloads) = Len(q.payloads) + 1
      /\ \A i \in DOMAIN q.payloads : q'.payloads[i] = q.payloads[i]
      /\ q'.payloads[Len(q.payloads) + 1] = p
      /\ DOMAIN q'.payloads = DOMAIN q.payloads \cup {Len(q.payloads) + 1}
      /\ \A i \in DOMAIN q.payloads : i \in Nat /\ i < Len(q.payloads) + 1
  BY <1>0
<1> HIDE DEF p
<1>5. QueueOrder(q'.bytes, q'.payloads, last', bounds'.inputs)
  <2>1. last'[1] <= bounds'.inputs
    BY DEF ConsumeInv, QueueOrder
  <2>2. /\ \A i \in DOMAIN q'.bytes : Follows(last', q'.bytes[i]) /\ q'.bytes[i][1] <= bounds'.inputs
        /\ \A i, j \in DOMAIN q'.bytes : i < j => Follows(q'.bytes[i], q'.bytes[j])
    BY DEF ConsumeInv, QueueOrder
  <2>3. \A i \in DOMAIN q'.payloads : last'[1] < q'.payloads[i] /\ q'.payloads[i] <= bounds'.inputs
    BY <1>2, <1>4 DEF ConsumeInv, QueueOrder
  <2>4. \A i, j \in DOMAIN q'.payloads : i < j => q'.payloads[i] < q'.payloads[j]
    <3>1. \A i, j \in DOMAIN q.payloads : i < j => q.payloads[i] < q.payloads[j]
      BY DEF ConsumeInv, QueueOrder
    <3>2. \A i, j \in DOMAIN q'.payloads : i < j => i \in DOMAIN q.payloads
      BY <1>0, <1>4
    <3> QED  BY <1>2, <1>4, <3>1, <3>2
  <2>5. \A i \in DOMAIN q'.bytes, j \in DOMAIN q'.payloads : q'.bytes[i][1] < q'.payloads[j]
    BY <1>2, <1>4 DEF ConsumeInv, QueueOrder
  <2> QED  BY <2>1, <2>2, <2>3, <2>4, <2>5 DEF QueueOrder
<1>6. InboxOrder(inbox', bounds'.inputs)
  <2>1. \A i, j \in DOMAIN inbox' : i < j => i + 1 < j + 1
    BY <1>0
  <2> QED  BY <1>1, <2>1 DEF ConsumeInv, InboxOrder
<1>7. BeforeInbox(q'.bytes, q'.payloads, last', inbox')
  BY <1>1, <1>3, <1>4 DEF ConsumeInv, BeforeInbox
<1> QED  BY <1>5, <1>6, <1>7 DEF ConsumeInv

(* A message joins the inbox: an input numbered after all before it, or    *)
(* something else.                                                         *)
LEMMA OrderSent ==
    ASSUME PythonType, PythonType', ConsumeInv, NEW m,
           inbox' = Append(inbox, m), m \in Inbox,
           q' = q, last' = last, again' = again,
           IF IsInput(m) THEN m[2] = bounds.inputs + 1 /\ bounds'.inputs = bounds.inputs + 1
           ELSE bounds'.inputs = bounds.inputs
    PROVE  ConsumeInv'
<1>0. /\ q.payloads \in Seq(Nat) /\ q.bytes \in Seq(Line) /\ inbox \in Seq(Inbox)
      /\ bounds.inputs \in Nat /\ last \in Line
  BY DEF PythonType, Queue
<1>1. /\ DOMAIN inbox' = DOMAIN inbox \cup {Len(inbox) + 1}
      /\ \A i \in DOMAIN inbox : inbox'[i] = inbox[i] /\ i \in Nat /\ i < Len(inbox) + 1
      /\ inbox'[Len(inbox) + 1] = m
      /\ Len(inbox) \in Nat
  BY <1>0
<1>2. /\ \A i \in DOMAIN q.payloads : q.payloads[i] \in Nat
      /\ \A i \in DOMAIN q.bytes : q.bytes[i][1] \in Nat
      /\ last[1] \in Nat
      /\ \A i \in DOMAIN inbox : IsInput(inbox[i]) => inbox[i][2] \in Nat
  <2>1. \A i \in DOMAIN inbox : inbox[i] \in Inbox
    BY <1>0
  <2>2. \A n \in Inbox : IsInput(n) => n[2] \in Nat
    BY DEF Inbox, IsInput
  <2>3. /\ \A i \in DOMAIN q.payloads : q.payloads[i] \in Nat
        /\ \A i \in DOMAIN q.bytes : q.bytes[i] \in Line
    BY <1>0
  <2> QED  BY <1>0, <2>1, <2>2, <2>3 DEF Line
<1>3. bounds.inputs <= bounds'.inputs /\ bounds'.inputs \in Nat
  BY <1>0
<1>4. QueueOrder(q'.bytes, q'.payloads, last', bounds'.inputs)
  BY <1>0, <1>2, <1>3 DEF ConsumeInv, QueueOrder
<1>5. InboxOrder(inbox', bounds'.inputs)
  <2>1. \A i \in DOMAIN inbox' : IsInput(inbox'[i]) => inbox'[i][2] <= bounds'.inputs
    BY <1>0, <1>1, <1>2, <1>3 DEF ConsumeInv, InboxOrder
  <2>2. \A i, j \in DOMAIN inbox' : i < j => i \in DOMAIN inbox
    BY <1>0, <1>1
  <2>3. \A i, j \in DOMAIN inbox' :
           i < j /\ IsInput(inbox'[i]) /\ IsInput(inbox'[j]) => inbox'[i][2] < inbox'[j][2]
    BY <1>0, <1>1, <1>2, <2>2 DEF ConsumeInv, InboxOrder
  <2> QED  BY <2>1, <2>3 DEF InboxOrder
<1>6. BeforeInbox(q'.bytes, q'.payloads, last', inbox')
  BY <1>0, <1>1, <1>2 DEF ConsumeInv, BeforeInbox, QueueOrder
<1> QED  BY <1>4, <1>5, <1>6 DEF ConsumeInv

(* Refilling keeps the order.                                              *)
LEMMA OrderRefilled ==
    ASSUME NEW u \in Queue, NEW r, r = RefillStdinBytes(u), NEW from \in Line, NEW most \in Nat,
           NEW box \in Seq(Inbox),
           QueueOrder(u.bytes, u.payloads, from, most), BeforeInbox(u.bytes, u.payloads, from, box)
    PROVE  QueueOrder(r.bytes, r.payloads, from, most) /\ BeforeInbox(r.bytes, r.payloads, from, box)
<1>1. CASE u.bytes # <<>> \/ u.payloads = <<>>
  BY <1>1, RefillShape
<1>2. CASE u.bytes = <<>> /\ u.payloads # <<>>
  <2> DEFINE p == Head(u.payloads)
  <2>1. r.payloads = Tail(u.payloads) /\ r.bytes = StdinLines(p)
    BY <1>2, RefillShape
  <2>2. /\ u.payloads \in Seq(Nat) /\ p \in Nat /\ 1 \in DOMAIN u.payloads /\ u.payloads[1] = p
        /\ \A i \in DOMAIN r.payloads :
              i \in Nat \ {0} /\ i + 1 \in DOMAIN u.payloads /\ r.payloads[i] = u.payloads[i + 1]
    BY <1>2, <2>1 DEF Queue
  <2>3. /\ DOMAIN r.bytes = 1..LinesPerPayload
        /\ \A k \in DOMAIN r.bytes : r.bytes[k] = <<p, k>> /\ k \in Nat
    <3>1. StdinLines(p) \in Seq(Line) /\ Len(StdinLines(p)) = LinesPerPayload
      BY <2>2, StdinLinesShape
    <3>2. DOMAIN r.bytes = 1..LinesPerPayload
      BY <2>1, <3>1
    <3>3. \A k \in 1..LinesPerPayload : StdinLines(p)[k] = <<p, k>>
      BY <2>2, StdinLinesShape
    <3>4. \A k \in 1..LinesPerPayload : k \in Nat
      BY LinesAssumption
    <3> HIDE DEF p
    <3> QED  BY <2>1, <3>2, <3>3, <3>4
  <2>4. from[1] < p /\ p <= most
    BY <2>2 DEF QueueOrder
  <2>5. \A i \in DOMAIN r.payloads : p < r.payloads[i]
    BY <2>2 DEF QueueOrder
  <2> HIDE DEF p
  <2>6. \A k \in DOMAIN r.bytes : r.bytes[k][1] = p /\ r.bytes[k][2] = k
    BY <2>3
  <2>7. QueueOrder(r.bytes, r.payloads, from, most)
    <3>1. /\ from[1] <= most
          /\ \A i \in DOMAIN r.payloads : from[1] < r.payloads[i] /\ r.payloads[i] <= most
      BY <2>2 DEF QueueOrder
    <3>2. \A i, j \in DOMAIN r.payloads : i < j => r.payloads[i] < r.payloads[j]
      <4>1. \A i, j \in DOMAIN r.payloads : i < j => i + 1 < j + 1
        BY <2>2
      <4> QED  BY <2>2, <4>1 DEF QueueOrder
    <3>3. \A i \in DOMAIN r.bytes : Follows(from, r.bytes[i]) /\ r.bytes[i][1] <= most
      BY <2>4, <2>6 DEF Follows
    <3>4. \A i, j \in DOMAIN r.bytes : i < j => Follows(r.bytes[i], r.bytes[j])
      BY <2>6 DEF Follows
    <3>5. \A i \in DOMAIN r.bytes, j \in DOMAIN r.payloads : r.bytes[i][1] < r.payloads[j]
      BY <2>5, <2>6
    <3> QED  BY <3>1, <3>2, <3>3, <3>4, <3>5 DEF QueueOrder
  <2>8. BeforeInbox(r.bytes, r.payloads, from, box)
    BY <2>2, <2>6 DEF BeforeInbox
  <2> QED  BY <2>7, <2>8
<1> QED  BY <1>1, <1>2

(* A read takes lines that follow what was consumed, and leaves lines that *)
(* follow these.                                                           *)
LEMMA OrderTaken ==
    ASSUME PythonType, NEW r \in Queue, NEW k \in 1..Len(r.bytes), NEW rest \in Seq(Line),
           QueueOrder(r.bytes, r.payloads, last, bounds.inputs),
           BeforeInbox(r.bytes, r.payloads, last, inbox),
           Len(rest) = Len(r.bytes) - k,
           \A i \in 1..(Len(r.bytes) - k) : rest[i] = r.bytes[i + k]
    PROVE  /\ \A i \in 1..k : Follows(last, r.bytes[i])
           /\ QueueOrder(rest, r.payloads, r.bytes[k], bounds.inputs)
           /\ BeforeInbox(rest, r.payloads, r.bytes[k], inbox)
<1>1. r.bytes \in Seq(Line) /\ r.payloads \in Seq(Nat) /\ k \in DOMAIN r.bytes
  BY DEF Queue
<1>2. \A i \in DOMAIN rest :
         i \in Nat /\ i + k \in DOMAIN r.bytes /\ rest[i] = r.bytes[i + k] /\ k < i + k
  <2>1. DOMAIN rest = 1..(Len(r.bytes) - k) /\ DOMAIN r.bytes = 1..Len(r.bytes) /\ Len(r.bytes) \in Nat
    BY <1>1
  <2> QED  BY <2>1
<1>3. \A i \in 1..k : Follows(last, r.bytes[i])
  <2>1. \A i \in 1..k : i \in DOMAIN r.bytes
    BY <1>1
  <2> QED  BY <2>1 DEF QueueOrder
<1>4. QueueOrder(rest, r.payloads, r.bytes[k], bounds.inputs)
  <2>1. \A i, j \in DOMAIN rest : i < j => i + k < j + k
    BY <1>1, <1>2
  <2>2. /\ \A i \in DOMAIN rest : Follows(r.bytes[k], rest[i]) /\ rest[i][1] <= bounds.inputs
        /\ \A i, j \in DOMAIN rest : i < j => Follows(rest[i], rest[j])
    BY <1>1, <1>2, <2>1 DEF QueueOrder
  <2>3. r.bytes[k][1] <= bounds.inputs
    BY <1>1 DEF QueueOrder
  <2>4. /\ \A i \in DOMAIN r.payloads : r.bytes[k][1] < r.payloads[i] /\ r.payloads[i] <= bounds.inputs
        /\ \A i, j \in DOMAIN r.payloads : i < j => r.payloads[i] < r.payloads[j]
        /\ \A i \in DOMAIN rest, j \in DOMAIN r.payloads : rest[i][1] < r.payloads[j]
    BY <1>1, <1>2 DEF QueueOrder
  <2> QED  BY <2>2, <2>3, <2>4 DEF QueueOrder
<1>5. BeforeInbox(rest, r.payloads, r.bytes[k], inbox)
  BY <1>1, <1>2 DEF BeforeInbox
<1> QED  BY <1>3, <1>4, <1>5

(* One read.                                                               *)
LEMMA OrderRead ==
    ASSUME PythonType, ConsumeInv, NEW t \in Threads, ReadLine(t)
    PROVE  ConsumeInv'
<1> DEFINE n == IF th[t].raw THEN 2 ELSE 1
           r == RefillStdinBytes(q)
<1>1. q \in Queue /\ HasStdin(q) /\ n \in Nat \ {0} /\ r \in Queue
  BY RefillShape DEF ReadLine, PythonType
<1>2. /\ q' = [ConsumeBytes(q, n) EXCEPT !.consumer = FALSE]
      /\ last' = Consumed(q, n)[Len(Consumed(q, n))]
      /\ again' = (again \/ \E i \in DOMAIN Consumed(q, n) : ~Follows(last, Consumed(q, n)[i]))
      /\ inbox' = inbox /\ bounds' = bounds
  BY DEF ReadLine, Take
<1>a. r = RefillStdinBytes(q)
  OBVIOUS
<1> HIDE DEF n, r
<1>3. QueueOrder(r.bytes, r.payloads, last, bounds.inputs) /\ BeforeInbox(r.bytes, r.payloads, last, inbox)
  BY <1>1, <1>a, OrderRefilled DEF PythonType, ConsumeInv
<1>4. PICK k \in 1..Len(r.bytes) : Takes(q, n, r, k)
  BY <1>1, <1>a, ConsumeShape
<1>5. /\ \A i \in 1..k : Follows(last, r.bytes[i])
      /\ QueueOrder(ConsumeBytes(q, n).bytes, r.payloads, r.bytes[k], bounds.inputs)
      /\ BeforeInbox(ConsumeBytes(q, n).bytes, r.payloads, r.bytes[k], inbox)
  <2>1. /\ ConsumeBytes(q, n).bytes \in Seq(Line)
        /\ Len(ConsumeBytes(q, n).bytes) = Len(r.bytes) - k
        /\ \A i \in 1..(Len(r.bytes) - k) : ConsumeBytes(q, n).bytes[i] = r.bytes[i + k]
    BY <1>4 DEF Takes
  <2> QED  BY <1>1, <1>3, <2>1, OrderTaken
<1>6. /\ q'.bytes = ConsumeBytes(q, n).bytes /\ q'.payloads = r.payloads /\ last' = r.bytes[k]
      /\ ~q'.consumer
  <2>1. Len(r.bytes) \in Nat /\ k \in 1..k
    BY <1>1 DEF Queue
  <2> QED  BY <1>2, <1>4, <2>1 DEF Queue, Takes
<1>7. ~again'
  <2>1. DOMAIN Consumed(q, n) = 1..k /\ \A i \in 1..k : Consumed(q, n)[i] = r.bytes[i]
    BY <1>4 DEF Takes
  <2> QED  BY <1>2, <1>5, <2>1 DEF ConsumeInv
<1> QED  BY <1>2, <1>5, <1>6, <1>7 DEF ConsumeInv

(* A payload is run as a cell.                                             *)
LEMMA OrderCell ==
    ASSUME PythonType, ConsumeInv, NextCell
    PROVE  ConsumeInv'
<1> DEFINE p == Head(q.payloads)
<1>1. /\ q \in Queue /\ q.payloads \in Seq(Nat) /\ q.payloads # <<>>
      /\ inbox \in Seq(Inbox) /\ last \in Line
  BY DEF NextCell, HasCell, PythonType, Queue
<1>2. /\ q'.payloads = Tail(q.payloads) /\ q'.bytes = <<>>
      /\ last' = <<p, LinesPerPayload>>
      /\ again' = (again \/ \E i \in DOMAIN << <<p, 1>> >> : ~Follows(last, << <<p, 1>> >>[i]))
      /\ inbox' = inbox /\ bounds' = bounds
  BY <1>1 DEF NextCell, TakeCellPayload, Queue, Take
<1>3. /\ p \in Nat /\ 1 \in DOMAIN q.payloads /\ q.payloads[1] = p
      /\ \A i \in DOMAIN q'.payloads :
            i \in Nat \ {0} /\ i + 1 \in DOMAIN q.payloads /\ q'.payloads[i] = q.payloads[i + 1]
  BY <1>1, <1>2
<1>4. last[1] < p /\ p <= bounds.inputs
  BY <1>3 DEF ConsumeInv, QueueOrder
<1>5. last'[1] = p
  BY <1>2
<1>9. ~again'
  <2>1. DOMAIN << <<p, 1>> >> = {1} /\ << <<p, 1>> >>[1] = <<p, 1>> /\ <<p, 1>>[1] = p
    OBVIOUS
  <2>2. Follows(last, <<p, 1>>)
    BY <1>4, <2>1 DEF Follows
  <2> QED  BY <1>2, <2>1, <2>2 DEF ConsumeInv
<1> HIDE DEF p
<1>6. QueueOrder(q'.bytes, q'.payloads, last', bounds'.inputs)
  <2>1. \A i, j \in DOMAIN q'.payloads : i < j => i + 1 < j + 1
    BY <1>3
  <2>2. \A i \in DOMAIN q'.payloads : p < q'.payloads[i] /\ q'.payloads[i] <= bounds.inputs
    BY <1>3 DEF ConsumeInv, QueueOrder
  <2>3. \A i, j \in DOMAIN q'.payloads : i < j => q'.payloads[i] < q'.payloads[j]
    BY <1>3, <2>1 DEF ConsumeInv, QueueOrder
  <2> QED  BY <1>2, <1>4, <1>5, <2>2, <2>3 DEF QueueOrder
<1>7. BeforeInbox(q'.bytes, q'.payloads, last', inbox')
  BY <1>2, <1>3, <1>5 DEF ConsumeInv, BeforeInbox
<1>8. InboxOrder(inbox', bounds'.inputs)
  BY <1>2 DEF ConsumeInv
<1> QED  BY <1>2, <1>6, <1>7, <1>8, <1>9 DEF ConsumeInv

(* The other steps of a thread leave the order as it is.                   *)
LEMMA OrderThread ==
    ASSUME PythonType, ConsumeInv, NEW t \in Threads, ReadStep(t) \/ PublishStep(t), PythonType'
    PROVE  ConsumeInv'
<1>1. CASE ReadLine(t)
  BY <1>1, OrderRead
<1>2. CASE ReadStops(t) \/ ReadAtShutdown(t) \/ ReadWaits(t) \/ InputWait(t)
           \/ CompleteDetached(t) \/ ReadReturns(t) \/ PublishStep(t)
  <2>1. q'.bytes = q.bytes /\ q'.payloads = q.payloads
    <3>1. q \in Queue
      BY DEF PythonType
    <3>2. q' \in {q, Release(t), [q EXCEPT !.consumer = FALSE], [q EXCEPT !.consumer = TRUE]}
      BY <1>2 DEF ReadStops, ReadAtShutdown, ReadWaits, InputWait, CompleteDetached, ReadReturns,
         PublishStep, PublishUnix, PreparePublication, Rearm, MarkCheckpointPending, CommitPublication
    <3> QED  BY <3>1, <3>2, ReleaseType DEF Queue
  <2>2. inbox' = inbox /\ last' = last /\ again' = again /\ bounds' = bounds
    BY <1>2 DEF ReadStops, ReadAtShutdown, ReadWaits, InputWait, CompleteDetached, ReadReturns,
       PublishStep, PublishUnix, PreparePublication, Rearm, MarkCheckpointPending, CommitPublication
  <2>3. q'.consumer => q.consumer \/ q'.bytes = <<>>
    <3>1. CASE ReadWaits(t)
      <4>1. RefillStdinBytes(q).bytes = <<>>
        BY <3>1 DEF ReadWaits, HasStdin
      <4>2. q.bytes # <<>> => RefillStdinBytes(q) = q
        BY RefillShape DEF PythonType
      <4> QED  BY <2>1, <4>1, <4>2
    <3>2. CASE ~ReadWaits(t)
      <4>1. q \in Queue
        BY DEF PythonType
      <4>2. q' \in {q, Release(t), [q EXCEPT !.consumer = FALSE]}
        BY <1>2, <3>2 DEF ReadStops, ReadAtShutdown, InputWait, CompleteDetached, ReadReturns,
           PublishStep, PublishUnix, PreparePublication, Rearm, MarkCheckpointPending, CommitPublication
      <4> QED  BY <4>1, <4>2 DEF Release, Queue
    <3> QED  BY <3>1, <3>2
  <2> QED  BY <2>1, <2>2, <2>3, OrderDropped
<1> QED  BY <1>1, <1>2 DEF ReadStep

\* The sideband reader keeps the order: it adds payloads or drops them all.
LEMMA OrderIpc ==
    ASSUME PythonType, ConsumeInv, IpcStep, PythonType'
    PROVE  ConsumeInv'
<1>0. q \in Queue
  BY DEF PythonType
<1>1. CASE BeginInput /\ ~s.shutdown
  <2>1. /\ q'.bytes = q.bytes /\ q'.payloads = Append(q.payloads, Head(inbox)[2])
        /\ q'.consumer = q.consumer
    BY <1>0, <1>1 DEF BeginInput, PushPayload, Queue
  <2>2. /\ inbox # <<>> /\ inbox' = Tail(inbox) /\ IsInput(Head(inbox))
        /\ last' = last /\ again' = again /\ bounds' = bounds
    BY <1>1 DEF BeginInput, Receive, IsInput
  <2> QED  BY <2>1, <2>2, OrderPushed
<1>2. CASE (BeginInput /\ s.shutdown /\ ~s.ended) \/ (Interrupt /\ ~Windows) \/ DiscardPendingStdin
  <2>1. q'.bytes = <<>> /\ q'.payloads = <<>> /\ DropInput
    <3>1. q' \in {EmptyQueue, DiscardUnconsumedInput(q)} /\ DropInput
      BY <1>2 DEF BeginInput, Interrupt, DiscardPendingStdin, ClearAfterInterrupt
    <3>2. EmptyQueue.bytes = <<>> /\ EmptyQueue.payloads = <<>>
      BY DEF EmptyQueue
    <3>3. DiscardUnconsumedInput(q).bytes = <<>> /\ DiscardUnconsumedInput(q).payloads = <<>>
      BY <1>0 DEF DiscardUnconsumedInput, Queue
    <3> QED  BY <3>1, <3>2, <3>3
  <2>2. /\ inbox' = inbox \/ (inbox # <<>> /\ inbox' = Tail(inbox))
        /\ bounds' = bounds
    BY <1>2 DEF BeginInput, Interrupt, DiscardPendingStdin, Receive
  <2> QED  BY <2>1, <2>2, OrderEmptied
<1>3. CASE (BeginInput /\ s.shutdown /\ s.ended) \/ (Interrupt /\ Windows) \/ RequestShutdown
           \/ MarkInterruptRequested \/ ArmDelivery
  <2>1. q' = q /\ last' = last /\ again' = again /\ bounds' = bounds
    BY <1>3 DEF BeginInput, Interrupt, RequestShutdown, MarkInterruptRequested, ArmDelivery
  <2>2. inbox' = inbox \/ (inbox # <<>> /\ inbox' = Tail(inbox))
    BY <1>3 DEF BeginInput, Interrupt, RequestShutdown, MarkInterruptRequested, ArmDelivery, Receive
  <2> QED  BY <2>1, <2>2, OrderDropped
<1> QED  BY <1>1, <1>2, <1>3 DEF IpcStep

\* Every step keeps the order.
LEMMA OrderStep == PythonType /\ ConsumeInv /\ [Next]_vars => ConsumeInv'
<1> SUFFICES ASSUME PythonType, ConsumeInv, [Next]_vars PROVE ConsumeInv'
  OBVIOUS
<1>0. PythonType' /\ Main \in Threads /\ q \in Queue
  BY TypeStep DEF Threads, PythonType
<1>1. CASE UNCHANGED vars
  BY <1>1 DEF vars, ConsumeInv
<1>2. CASE SendInput
  <2> DEFINE m == <<"input", bounds.inputs + 1>>
  <2>1. bounds.inputs + 1 \in Nat
    BY DEF PythonType
  <2>2. m \in Inbox /\ IsInput(m) /\ m[2] = bounds.inputs + 1
    BY <2>1 DEF Inbox, IsInput
  <2>3. /\ inbox' = Append(inbox, m) /\ q' = q /\ last' = last /\ again' = again
        /\ bounds'.inputs = bounds.inputs + 1
    BY <1>2 DEF SendInput, PythonType
  <2> HIDE DEF m
  <2> QED  BY <1>0, <2>2, <2>3, OrderSent
<1>3. CASE SendInterrupt \/ SendShutdown
  <2>1. \A m \in {<<"interrupt">>, <<"shutdown">>} : m \in Inbox /\ ~IsInput(m)
    BY DEF Inbox, IsInput
  <2>2. /\ q' = q /\ last' = last /\ again' = again /\ bounds'.inputs = bounds.inputs
        /\ \E m \in {<<"interrupt">>, <<"shutdown">>} : inbox' = Append(inbox, m)
    BY <1>3 DEF SendInterrupt, SendShutdown, PythonType
  <2> QED  BY <1>0, <2>1, <2>2, OrderSent
<1>4. CASE NativeStep \/ RequestExit \/ \E t \in Threads : StartRead(t)
  <2>1. q' = q /\ inbox' = inbox /\ last' = last /\ again' = again /\ bounds'.inputs = bounds.inputs
    BY <1>4 DEF NativeStep, NativeInterrupt, RuntimeHandler, Watcher, RequestExit, StartRead, PythonType
  <2> QED  BY <1>0, <2>1, OrderDropped
<1>5. CASE IpcStep
  BY <1>0, <1>5, OrderIpc
<1>6. CASE NextCell
  BY <1>6, OrderCell
<1>7. CASE FinishInFlight \/ InputEvent \/ ReadBehind \/ TakeInterrupt \/ ReadyAfterInterrupt
           \/ LeaveLoop \/ WaitForActivity \/ CellEnds
  <2>1. q' = q /\ inbox' = inbox /\ last' = last /\ again' = again /\ bounds' = bounds
    BY <1>7 DEF FinishInFlight, InputEvent, ReadBehind, TakeInterrupt, ReadyAfterInterrupt,
       LeaveLoop, WaitForActivity, CellEnds
  <2> QED  BY <1>0, <2>1, OrderDropped
<1>8. CASE CheckJoined
  <2>1. q' \in {q, Release(Main)}
    BY <1>8 DEF CheckJoined
  <2>2. q'.bytes = q.bytes /\ q'.payloads = q.payloads /\ (q'.consumer => q.consumer)
    BY <1>0, <2>1 DEF Release, Queue
  <2>3. inbox' = inbox /\ last' = last /\ again' = again /\ bounds' = bounds
    BY <1>8 DEF CheckJoined
  <2> QED  BY <1>0, <2>2, <2>3, OrderDropped
<1>11. CASE FinishCellRequest
  <2>1. q'.bytes = <<>> /\ q'.payloads = q.payloads
    BY <1>0, <1>11 DEF FinishCellRequest, ClearAfterCellFinish, Queue, ConsumeInv
  <2>2. inbox' = inbox /\ last'[1] = last[1] /\ again' = again /\ bounds' = bounds
    BY <1>11 DEF FinishCellRequest, EndPayload
  <2> QED  BY <1>0, <2>1, <2>2, OrderDropped
<1>12. CASE FinishSessionEnd
  <2>1. q'.bytes = <<>> /\ q'.payloads = <<>> /\ DropInput
    BY <1>12 DEF FinishSessionEnd, ClearAfterInterrupt, EmptyQueue
  <2>2. inbox' = inbox /\ bounds' = bounds
    BY <1>12 DEF FinishSessionEnd
  <2> QED  BY <1>0, <2>1, <2>2, OrderEmptied
<1>9. ASSUME NEW t \in Threads, ReadStep(t) \/ PublishStep(t)
      PROVE  ConsumeInv'
  BY <1>0, <1>9, OrderThread
<1>10. Readers \subseteq Threads
  BY DEF Threads
<1> QED
  BY <1>0, <1>1, <1>2, <1>3, <1>4, <1>5, <1>6, <1>7, <1>8, <1>9, <1>10, <1>11, <1>12
  DEF Next, ServerStep, MainStep

\* Nothing is queued or consumed at first.
LEMMA OrderInit == Init => ConsumeInv
<1> SUFFICES ASSUME Init PROVE ConsumeInv
  OBVIOUS
<1>1. /\ q.bytes = <<>> /\ q.payloads = <<>> /\ inbox = <<>> /\ last[1] = 0 /\ bounds.inputs = 0
      /\ ~again
  BY DEF Init, EmptyQueue
<1> QED  BY <1>1 DEF ConsumeInv, QueueOrder, InboxOrder, BeforeInbox

(* Whatever threads read and whatever interrupts discard, no cell or line  *)
(* is taken twice or out of order, and nothing of a payload reaches a      *)
(* later reader or cell once its cell has ended, the next one was taken or *)
(* an interrupt has discarded it (PythonInputQueue).                       *)
THEOREM ConsumedCorrect == Spec => []ConsumedInOrder
<1>1. Init => PythonType /\ ConsumeInv
  BY TypeInit, OrderInit
<1>2. (PythonType /\ ConsumeInv) /\ [Next]_vars => (PythonType /\ ConsumeInv)'
  BY TypeStep, OrderStep
<1>3. PythonType /\ ConsumeInv => ConsumedInOrder
  BY DEF ConsumeInv, ConsumedInOrder
<1> QED  BY <1>1, <1>2, <1>3, PTL DEF Spec

-----------------------------------------------------------------------------
(* Interrupts settle (Windows).                                            *)

\* No interrupt is under way at first.
LEMMA SettleInit == Init => SettleInv
<1> SUFFICES ASSUME Init PROVE SettleInv
  OBVIOUS
<1>1. th[Main].pc # "check"
  BY DEF Init, NewThread, Threads
<1>2. Interrupts = {}
  BY DEF Init, Interrupts
<1> QED  BY <1>1, <1>2 DEF Init, SettleInv, Settling, Idle, Arrived, Observer

(* When the session has ended nothing makes the server ready again.        *)
LEMMA OverStep ==
    ASSUME PythonType, Windows, s.ended, Over, Next
    PROVE  s'.ended /\ Over'
<1>0. Main \in Threads /\ Readers \subseteq Threads /\ \A t \in Threads : th[t].pc = "done"
  BY DEF Threads, Over
<1>1. CASE ServerStep \/ NativeStep
  <2>1. th' = th /\ s' = s
    BY <1>1 DEF ServerStep, NativeStep, SendInput, SendInterrupt, SendShutdown, NativeInterrupt,
       RuntimeHandler, Watcher
  <2>2. server'.phase # "none"
    BY <1>1 DEF ServerStep, NativeStep, SendInput, SendInterrupt, SendShutdown, NativeInterrupt,
       RuntimeHandler, Watcher, PythonType, Over
  <2> QED  BY <2>1, <2>2 DEF Over
<1>2. CASE IpcStep
  <2>1. th' = th
    BY <1>2 DEF IpcStep, BeginInput, Interrupt, MarkInterruptRequested, DiscardPendingStdin,
       ArmDelivery, RequestShutdown
  <2>2. s'.ended
    BY <1>2 DEF IpcStep, BeginInput, Interrupt, MarkInterruptRequested, DiscardPendingStdin,
       ArmDelivery, RequestShutdown, ProtocolFailure, PythonType, State
  <2>3. server'.phase # "none"
    BY <1>2 DEF IpcStep, BeginInput, Interrupt, MarkInterruptRequested, DiscardPendingStdin,
       ArmDelivery, RequestShutdown, PythonType, Over
  <2> QED  BY <2>1, <2>2, <2>3 DEF Over
<1>3. ~\E t \in Threads : ReadStep(t) \/ PublishStep(t)
  BY <1>0 DEF ReadStep, PublishStep, ReadStops, ReadLine, ReadAtShutdown, ReadWaits, Turn, InputWait,
     CompleteDetached, ReadReturns, PublishUnix, PreparePublication, Rearm, MarkCheckpointPending,
     CommitPublication
<1>4. ~(RequestExit \/ \E t \in Threads : StartRead(t))
  BY <1>0 DEF RequestExit, StartRead
<1>5. ~(FinishInFlight \/ InputEvent \/ CheckJoined \/ ReadBehind \/ TakeInterrupt
        \/ ReadyAfterInterrupt \/ NextCell \/ LeaveLoop \/ WaitForActivity
        \/ CellEnds \/ FinishCellRequest \/ FinishSessionEnd)
  BY <1>0 DEF FinishInFlight, InputEvent, CheckJoined, ReadBehind, Turn, TakeInterrupt,
     ReadyAfterInterrupt, NextCell, LeaveLoop, WaitForActivity, CellEnds, FinishCellRequest,
     FinishSessionEnd
<1> QED  BY <1>0, <1>1, <1>2, <1>3, <1>4, <1>5 DEF Next, MainStep

(* What a message taken from or put into the inbox means for interrupts.   *)
LEMMA InboxTaken ==
    ASSUME PythonType, inbox # <<>>, inbox' = Tail(inbox)
    PROVE  /\ Interrupts = {} => Interrupts' = {}
           /\ (\A i, j \in Interrupts : i = j) => \A i, j \in Interrupts' : i = j
           /\ (\A i, j \in Interrupts : i = j) /\ Head(inbox)[1] = "interrupt" => Interrupts' = {}
<1>1. inbox \in Seq(Inbox)
  BY DEF PythonType
<1>2. /\ 1 \in DOMAIN inbox /\ inbox[1] = Head(inbox)
      /\ \A i \in DOMAIN inbox' :
            i \in Nat \ {0} /\ i + 1 \in DOMAIN inbox /\ inbox'[i] = inbox[i + 1]
  BY <1>1
<1>3. \A i \in Interrupts' : i \in Nat \ {0} /\ i + 1 \in Interrupts /\ i + 1 # 1
  BY <1>2 DEF Interrupts
<1>4. (\A i, j \in Interrupts : i = j) => \A i, j \in Interrupts' : i = j
  <2> SUFFICES ASSUME \A i, j \in Interrupts : i = j, NEW i \in Interrupts', NEW j \in Interrupts'
               PROVE  i = j
    OBVIOUS
  <2>1. i + 1 = j + 1
    BY <1>3
  <2> QED  BY <1>3, <2>1
<1>5. Head(inbox)[1] = "interrupt" => 1 \in Interrupts
  BY <1>2 DEF Interrupts
<1> QED  BY <1>3, <1>4, <1>5

\* Only sending an interrupt adds one to the stream, and it is the only one
\* there.
LEMMA InboxGiven ==
    ASSUME PythonType, NEW m, inbox' = Append(inbox, m)
    PROVE  /\ m[1] # "interrupt" => Interrupts' = Interrupts
           /\ Interrupts = {} => \A i, j \in Interrupts' : i = j
<1>1. inbox \in Seq(Inbox)
  BY DEF PythonType
<1>2. /\ DOMAIN inbox' = DOMAIN inbox \cup {Len(inbox) + 1}
      /\ \A i \in DOMAIN inbox : inbox'[i] = inbox[i]
      /\ inbox'[Len(inbox) + 1] = m
  BY <1>1
<1> QED  BY <1>2 DEF Interrupts

(* The parts an interrupt is settled by are as they were.                  *)
Undisturbed ==
    /\ s'.ended = s.ended /\ (s'.interrupt => s.interrupt)
    /\ obs'.inFlight = obs.inFlight /\ obs'.handler = obs.handler
    /\ obs'.completion = obs.completion /\ obs'.cleanup = obs.cleanup /\ obs'.failed = obs.failed
    /\ sig' => sig
    /\ server'.phase = server.phase \/ (server.phase = "completed" /\ server'.phase = "none")
    /\ th'[Main].pc = "check" <=> th[Main].pc = "check"
    /\ ipc' = ipc \/ (ipc = "recv" /\ ipc' = "broken")
    /\ Interrupts = {} => Interrupts' = {}
    /\ (\A i, j \in Interrupts : i = j) => \A i, j \in Interrupts' : i = j

\* A step that touches neither interrupt, observer nor checkpoint keeps
\* Settling.
LEMMA SettlingKept ==
    ASSUME PythonType, PythonType', Settling, Undisturbed
    PROVE  Settling'
<1>1. Idle => Idle'
  BY DEF Idle, Undisturbed
<1>2. Arrived => Arrived'
  BY DEF Arrived, Undisturbed
<1>3. OnItsWay => OnItsWay'
  BY DEF OnItsWay, Undisturbed
<1>4. (InFlight => InFlight') /\ (Joined => Joined')
  BY DEF InFlight, Joined, Undisturbed
<1>5. /\ ~s'.interrupt /\ ipc' # "mark" /\ ~obs'.failed /\ obs'.cleanup = obs.cleanup
      /\ server'.phase = server.phase \/ (server.phase = "completed" /\ server'.phase = "none")
      /\ server.phase # "ended"
  BY DEF Settling, Undisturbed
<1> QED  BY <1>1, <1>2, <1>3, <1>4, <1>5 DEF Settling

(* A thread that steps on its own disturbs nothing.                        *)
LEMMA SettleThread ==
    ASSUME PythonType, PythonType', Windows, ~s.ended, Settling, NEW t \in Threads,
           ReadStep(t) \/ PublishStep(t)
    PROVE  Undisturbed
<1>0. /\ th \in [Threads -> Thread] /\ th[t] \in Thread /\ s \in State /\ Main \in Threads
      /\ ~s.interrupt
  BY DEF PythonType, Threads, Settling
<1>1. th'[Main].pc = "check" <=> th[Main].pc = "check"
  <2>1. \A u \in Threads \ {t} : th'[u] = th[u]
    <3>1. \A pc : \A u \in Threads \ {t} : Goto(t, pc)[u] = th[u]
      BY <1>0 DEF Goto
    <3>2. \A u \in Threads \ {t} : Published(t)[u] = th[u]
      BY PublishedType
    <3>3. CASE PublishStep(t)
      BY <3>1, <3>2, <3>3 DEF PublishStep, PublishUnix, PreparePublication, Rearm,
         MarkCheckpointPending, CommitPublication
    <3>4. CASE ReadStep(t)
      BY <1>0, <3>1, <3>4 DEF ReadStep, ReadStops, ReadLine, ReadAtShutdown,
         ReadWaits, InputWait, CompleteDetached, ReadReturns
    <3> QED  BY <3>3, <3>4
  <2>2. th[t].pc # "check"
    BY DEF ReadStep, PublishStep, ReadStops, ReadLine, ReadAtShutdown, Turn,
       ReadWaits, InputWait, CompleteDetached, ReadReturns, PublishUnix, PreparePublication, Rearm,
       MarkCheckpointPending, CommitPublication
  <2>3. th'[t].pc # "check"
    <3>1. CASE ReadStops(t) \/ ReadAtShutdown(t) \/ ReadReturns(t)
      <4>1. Back(t).pc # "check" /\ Goto(t, "read")[t].pc = "read"
        BY BackType, GotoType DEF Places
      <4>2. th' \in {[th EXCEPT ![t] = Back(t)], Goto(t, "read")}
        BY <3>1 DEF ReadStops, ReadAtShutdown, ReadReturns
      <4> QED  BY <1>0, <4>1, <4>2
    <3>2. CASE ReadLine(t) \/ ReadWaits(t) \/ InputWait(t) \/ CompleteDetached(t)
      BY <1>0, <3>2 DEF ReadLine, ReadWaits, InputWait, CompleteDetached, Thread
    <3>3. CASE PublishUnix(t) \/ PreparePublication(t) \/ Rearm(t) \/ MarkCheckpointPending(t)
               \/ CommitPublication(t)
      BY <1>0, <3>3, GotoType, PublishedType DEF PublishUnix, PreparePublication, Rearm,
         MarkCheckpointPending, CommitPublication, Places
    <3> QED  BY <3>1, <3>2, <3>3 DEF ReadStep, PublishStep
  <2> QED  BY <1>0, <2>1, <2>2, <2>3
<1>2. s'.ended = s.ended /\ (s'.interrupt => s.interrupt)
  BY <1>0 DEF ReadStep, PublishStep, ReadStops, ReadLine, ReadAtShutdown,
     ReadWaits, InputWait, CompleteDetached, ReadReturns, PublishUnix, PreparePublication, Rearm,
     MarkCheckpointPending, CommitPublication, State
<1>3. sig' => sig
  <2>1. CASE ReadReturns(t)
    BY <1>0, <2>1 DEF ReadReturns
  <2>2. CASE ~ReadReturns(t)
    BY <1>0, <2>2 DEF ReadStep, PublishStep, ReadStops, ReadLine, ReadAtShutdown,
       ReadWaits, InputWait, CompleteDetached, PublishUnix, PreparePublication, Rearm,
       MarkCheckpointPending, CommitPublication
  <2> QED  BY <2>1, <2>2
<1>4. server'.phase = server.phase \/ (server.phase = "completed" /\ server'.phase = "none")
  BY DEF ReadStep, PublishStep, ReadStops, ReadLine, ReadAtShutdown,
     ReadWaits, InputWait, CompleteDetached, ReadReturns, PublishUnix, PreparePublication, Rearm,
     MarkCheckpointPending, CommitPublication, Seen, PythonType
<1>5. obs' = obs /\ ipc' = ipc /\ inbox' = inbox
  BY DEF ReadStep, PublishStep, ReadStops, ReadLine, ReadAtShutdown,
     ReadWaits, InputWait, CompleteDetached, ReadReturns, PublishUnix, PreparePublication, Rearm,
     MarkCheckpointPending, CommitPublication
<1>6. Interrupts' = Interrupts
  BY <1>5 DEF Interrupts
<1> QED  BY <1>1, <1>2, <1>3, <1>4, <1>5, <1>6 DEF Undisturbed

(* Nor does the rest of the cell loop, nor user code.                      *)
LEMMA SettleLoop ==
    ASSUME PythonType, PythonType', Windows, ~s.ended, Settling,
           InputEvent \/ ReadBehind \/ TakeInterrupt \/ ReadyAfterInterrupt \/ NextCell \/ LeaveLoop
           \/ WaitForActivity \/ CellEnds \/ FinishCellRequest \/ RequestExit
           \/ \E t \in Threads : StartRead(t)
    PROVE  Undisturbed
<1>0. /\ th \in [Threads -> Thread] /\ th[Main] \in Thread /\ s \in State /\ Main \in Threads
      /\ obs \in Delivery
  BY DEF PythonType, Threads
<1>1. th'[Main].pc = "check" <=> th[Main].pc = "check"
  <2>1. CASE InputEvent
    <3>1. th[Main].resume \in Places \ {"check"} /\ th[Main].pc # "check"
      BY <1>0, <2>1 DEF InputEvent, Thread, Places
    <3>2. Goto(Main, th[Main].resume)[Main].pc # "check"
      BY <1>0, <3>1, GotoType
    <3> QED  BY <2>1, <3>1, <3>2 DEF InputEvent
  <2>2. CASE ReadBehind \/ WaitForActivity \/ FinishCellRequest
    BY <1>0, <2>2 DEF ReadBehind, Turn, WaitForActivity, FinishCellRequest, Thread
  <2>3. CASE TakeInterrupt \/ ReadyAfterInterrupt \/ NextCell \/ LeaveLoop \/ CellEnds
    <3>1. th' \in {Goto(Main, "clear"), Goto(Main, "next"), Goto(Main, "cell"), Goto(Main, "final"),
                   Goto(Main, "finish")}
      BY <2>3 DEF TakeInterrupt, ReadyAfterInterrupt, NextCell, LeaveLoop, CellEnds
    <3>2. \A pc \in Places : Goto(Main, pc)[Main].pc = pc
      BY <1>0, GotoType
    <3>3. th'[Main].pc # "check"
      BY <3>1, <3>2 DEF Places
    <3> QED  BY <2>3, <3>3 DEF TakeInterrupt, ReadyAfterInterrupt, NextCell, LeaveLoop, CellEnds
  <2>4. CASE RequestExit
    BY <2>4 DEF RequestExit
  <2>5. ASSUME NEW t \in Threads, StartRead(t)
        PROVE  th'[Main].pc = "check" <=> th[Main].pc = "check"
    <3>1. PICK raw \in BOOLEAN : th' = [th EXCEPT ![t] = [NewThread("read") EXCEPT !.raw = raw]]
      BY <2>5 DEF StartRead
    <3>2. th[t].pc # "check"
      BY <2>5 DEF StartRead
    <3>3. [NewThread("read") EXCEPT !.raw = raw].pc = "read"
      BY DEF NewThread
    <3> QED  BY <1>0, <3>1, <3>2, <3>3
  <2> QED  BY <2>1, <2>2, <2>3, <2>4, <2>5
<1>2. s'.ended = s.ended /\ (s'.interrupt => s.interrupt)
  BY <1>0 DEF InputEvent, ReadBehind, TakeInterrupt, ReadyAfterInterrupt, NextCell, LeaveLoop,
     WaitForActivity, CellEnds, FinishCellRequest, RequestExit, StartRead, State
<1>3. sig' => sig
  BY DEF InputEvent, ReadBehind, TakeInterrupt, ReadyAfterInterrupt, NextCell, LeaveLoop,
     WaitForActivity, CellEnds, FinishCellRequest, RequestExit, StartRead
<1>4. server'.phase = server.phase \/ (server.phase = "completed" /\ server'.phase = "none")
  BY DEF InputEvent, ReadBehind, TakeInterrupt, ReadyAfterInterrupt, NextCell, LeaveLoop,
     WaitForActivity, CellEnds, FinishCellRequest, RequestExit, StartRead, Seen, PythonType
<1>5. ipc' = ipc /\ inbox' = inbox
  BY DEF InputEvent, ReadBehind, TakeInterrupt, ReadyAfterInterrupt, NextCell, LeaveLoop,
     WaitForActivity, CellEnds, FinishCellRequest, RequestExit, StartRead
<1>6. /\ obs'.inFlight = obs.inFlight /\ obs'.handler = obs.handler
      /\ obs'.completion = obs.completion /\ obs'.cleanup = obs.cleanup /\ obs'.failed = obs.failed
  BY <1>0 DEF InputEvent, ReadBehind, TakeInterrupt, ReadyAfterInterrupt, NextCell, LeaveLoop,
     WaitForActivity, CellEnds, FinishCellRequest, RequestExit, StartRead, NotifyInput, Delivery
<1>7. Interrupts' = Interrupts
  BY <1>5 DEF Interrupts
<1> QED  BY <1>1, <1>2, <1>3, <1>4, <1>5, <1>6, <1>7 DEF Undisturbed

(* Input and shutdown, sent and received.                                  *)
LEMMA SettleInput ==
    ASSUME PythonType, PythonType', Windows, ~s.ended, Settling,
           SendInput \/ SendShutdown \/ BeginInput \/ RequestShutdown
    PROVE  Undisturbed
<1>0. s \in State /\ obs \in Delivery
  BY DEF PythonType
<1>1. /\ s'.ended = s.ended /\ (s'.interrupt => s.interrupt)
  BY <1>0 DEF SendInput, SendShutdown, BeginInput, RequestShutdown, ProtocolFailure, State
<1>2. /\ th' = th /\ server'.phase = server.phase
      /\ ipc' = ipc \/ (ipc = "recv" /\ ipc' = "broken")
  BY DEF SendInput, SendShutdown, BeginInput, RequestShutdown, Receive, PythonType
<1>3. sig' => sig
  BY DEF SendInput, SendShutdown, BeginInput, RequestShutdown
<1>4. /\ obs'.inFlight = obs.inFlight /\ obs'.handler = obs.handler
      /\ obs'.completion = obs.completion /\ obs'.cleanup = obs.cleanup /\ obs'.failed = obs.failed
  BY <1>0 DEF SendInput, SendShutdown, BeginInput, RequestShutdown, NotifyInput, Delivery
<1>5. /\ Interrupts = {} => Interrupts' = {}
      /\ (\A i, j \in Interrupts : i = j) => \A i, j \in Interrupts' : i = j
  <2>1. CASE SendInput
    <3>1. <<"input", bounds.inputs + 1>>[1] # "interrupt"
      OBVIOUS
    <3>2. inbox' = Append(inbox, <<"input", bounds.inputs + 1>>)
      BY <2>1 DEF SendInput
    <3> QED  BY <3>1, <3>2, InboxGiven
  <2>2. CASE SendShutdown
    <3>1. <<"shutdown">>[1] # "interrupt"
      OBVIOUS
    <3>2. inbox' = Append(inbox, <<"shutdown">>)
      BY <2>2 DEF SendShutdown
    <3> QED  BY <3>1, <3>2, InboxGiven
  <2>3. CASE BeginInput \/ RequestShutdown
    BY <2>3, InboxTaken DEF BeginInput, RequestShutdown, Receive
  <2> QED  BY <2>1, <2>2, <2>3
<1> QED  BY <1>1, <1>2, <1>3, <1>4, <1>5 DEF Undisturbed

(* An interrupt on its way to the observer.                                *)
LEMMA SettleArm ==
    ASSUME PythonType, PythonType', Windows, ~s.ended, Settling,
           SendInterrupt \/ Interrupt \/ DiscardPendingStdin \/ ArmDelivery
    PROVE  Settling' /\ ~s'.ended
<1>0. s \in State /\ obs \in Delivery /\ ~s.interrupt /\ ipc # "mark" /\ ~obs.failed
  BY DEF PythonType, Settling
<1>1. CASE SendInterrupt
  <2>1. /\ server.phase = "none" /\ server'.phase = "sent"
        /\ inbox' = Append(inbox, <<"interrupt">>)
        /\ UNCHANGED <<s, th, obs, sig, ipc>>
    BY <1>1 DEF SendInterrupt, PythonType
  <2>2. Idle /\ ~obs.cleanup /\ Arrived
    BY <2>1 DEF Settling
  <2>3. \A i, j \in Interrupts' : i = j
    BY <2>1, <2>2, InboxGiven DEF Arrived
  <2>4. Idle' /\ ~obs'.cleanup /\ OnItsWay'
    BY <2>1, <2>2, <2>3 DEF Idle, Arrived, OnItsWay
  <2> QED  BY <1>0, <2>1, <2>4 DEF Settling
<1>2. CASE Interrupt
  <2>1. /\ inbox # <<>> /\ inbox' = Tail(inbox) /\ Head(inbox)[1] = "interrupt"
        /\ ipc = "recv" /\ ipc' = "discard"
        /\ UNCHANGED <<th, obs, sig, server>>
    BY <1>2 DEF Interrupt, Receive
  <2>2. s'.ended = s.ended /\ s'.interrupt = s.interrupt
    BY <1>0, <1>2 DEF Interrupt, State
  <2>3. 1 \in Interrupts
    BY <2>1 DEF Interrupts, PythonType
  <2>4. server.phase = "sent"
    BY <2>3 DEF Settling, Arrived, PythonType, Phases
  <2>5. Idle /\ ~obs.cleanup /\ OnItsWay
    BY <2>4 DEF Settling
  <2>6. Interrupts' = {}
    BY <2>1, <2>5, InboxTaken DEF OnItsWay
  <2>7. Idle' /\ ~obs'.cleanup /\ OnItsWay'
    BY <2>1, <2>5, <2>6 DEF Idle, OnItsWay
  <2> QED  BY <1>0, <2>1, <2>2, <2>4, <2>7 DEF Settling
<1>3. CASE DiscardPendingStdin
  <2>1. ipc = "discard" /\ ipc' = "arm" /\ UNCHANGED <<s, th, obs, sig, inbox, server>>
    BY <1>3 DEF DiscardPendingStdin
  <2>2. server.phase = "sent"
    BY <2>1 DEF Settling, Arrived, PythonType, Phases
  <2>3. Idle /\ ~obs.cleanup /\ OnItsWay
    BY <2>2 DEF Settling
  <2>4. Idle' /\ ~obs'.cleanup /\ OnItsWay'
    BY <2>1, <2>3 DEF Idle, OnItsWay, Interrupts
  <2> QED  BY <1>0, <2>1, <2>2, <2>4 DEF Settling
<1>4. CASE ArmDelivery
  <2>1. ipc = "arm" /\ UNCHANGED <<th, sig, inbox>>
    BY <1>4 DEF ArmDelivery
  <2>2. server.phase = "sent"
    BY <2>1 DEF Settling, Arrived, PythonType, Phases
  <2>3. Idle /\ ~obs.cleanup /\ OnItsWay
    BY <2>2 DEF Settling
  <2>4. obs' = [obs EXCEPT !.cleanup = TRUE]
    BY <1>4, <2>3 DEF ArmDelivery, CleanupComplete
  <2>5. /\ obs'.cleanup /\ obs'.inFlight = obs.inFlight /\ obs'.handler = obs.handler
        /\ obs'.completion = obs.completion /\ ~obs'.failed
    BY <1>0, <2>4 DEF Delivery
  <2>6. RearmedAtOnce(obs)
    BY <2>3 DEF Idle, RearmedAtOnce
  <2>7. server'.phase = "armed" /\ ipc' = "recv" /\ s' = s
    BY <1>4, <2>5, <2>6 DEF ArmDelivery, PythonType
  <2>8. Idle' /\ Arrived'
    BY <2>1, <2>3, <2>5, <2>7 DEF Idle, Arrived, OnItsWay, Interrupts
  <2> QED  BY <1>0, <2>5, <2>7, <2>8 DEF Settling
<1> QED  BY <1>1, <1>2, <1>3, <1>4

(* The dispatch, its handler and the watcher.                              *)
LEMMA SettleNative ==
    ASSUME PythonType, PythonType', Windows, ~s.ended, Settling, NativeStep
    PROVE  Settling' /\ ~s'.ended
<1>0. s \in State /\ obs \in Delivery /\ ~s.interrupt /\ ipc # "mark" /\ ~obs.failed
  BY DEF PythonType, Settling
<1>a. UNCHANGED <<s, th, ipc, inbox>> /\ Interrupts' = Interrupts
  BY DEF NativeStep, NativeInterrupt, RuntimeHandler, Watcher, Interrupts
<1>1. CASE NativeInterrupt
  <2>1. server.phase = "armed" /\ server'.phase = "native" /\ obs' = ObserveCtrlC(obs)
    BY <1>1 DEF NativeInterrupt, PythonType
  <2>2. Idle /\ obs.cleanup /\ Arrived
    BY <2>1 DEF Settling
  <2>3. obs' = [obs EXCEPT !.inFlight = TRUE, !.handler = "running"]
    BY <2>1, <2>2 DEF Idle, ObserveCtrlC
  <2>4. /\ obs'.inFlight /\ obs'.handler = "running" /\ obs'.cleanup /\ ~obs'.failed
        /\ ~obs'.completion
    BY <1>0, <2>2, <2>3 DEF Delivery, Idle
  <2>5. InFlight' /\ Arrived'
    BY <1>a, <2>2, <2>4 DEF InFlight, Arrived, Idle
  <2> QED  BY <1>0, <1>a, <2>1, <2>4, <2>5 DEF Settling
<1>2. CASE RuntimeHandler \/ Watcher
  <2>1. obs.handler # "none" /\ server' = server
    BY <1>2 DEF RuntimeHandler, Watcher, CompletionWatcher
  <2>2. server.phase = "native" /\ InFlight /\ Arrived
    BY <2>1 DEF Settling, Idle, Joined, PythonType, Phases
  <2>3. /\ obs'.inFlight /\ obs'.cleanup /\ ~obs'.failed
        /\ obs'.completion <=> obs'.handler = "none"
    BY <1>0, <1>2, <2>1, <2>2 DEF RuntimeHandler, Watcher, HandlerEnds, Watched, CompletionWatcher,
       Delivery, InFlight
  <2>4. InFlight' /\ Arrived'
    BY <1>a, <2>2, <2>3 DEF InFlight, Arrived
  <2> QED  BY <1>0, <1>a, <2>1, <2>2, <2>3, <2>4 DEF Settling
<1> QED  BY <1>1, <1>2 DEF NativeStep

(* The main thread joins the dispatch and reports it.                      *)
LEMMA SettleJoin ==
    ASSUME PythonType, PythonType', Windows, ~s.ended, Settling, FinishInFlight \/ CheckJoined
    PROVE  Settling' /\ ~s'.ended
<1>0. /\ s \in State /\ obs \in Delivery /\ ~s.interrupt /\ ipc # "mark" /\ ~obs.failed
      /\ th \in [Threads -> Thread] /\ Main \in Threads /\ th[Main] \in Thread
  BY DEF PythonType, Settling, Threads
<1>a. UNCHANGED <<ipc, inbox>> /\ Interrupts' = Interrupts
  BY DEF FinishInFlight, CheckJoined, Interrupts
<1>1. CASE FinishInFlight
  <2>1. obs.completion /\ obs.cleanup /\ UNCHANGED <<s, sig, server>>
    BY <1>1 DEF FinishInFlight, CanJoin
  <2>2. server.phase = "native" /\ InFlight /\ Arrived
    BY <2>1 DEF Settling, Idle, Joined, PythonType, Phases
  <2>3. PICK i \in {obs.input, FALSE} : obs' = [ConsumeCompletion(obs) EXCEPT !.input = i]
    BY <1>1 DEF FinishInFlight
  <2>4. /\ ~obs'.inFlight /\ ~obs'.cleanup /\ ~obs'.completion /\ obs'.handler = obs.handler
        /\ ~obs'.failed
    BY <1>0, <2>2, <2>3 DEF ConsumeCompletion, InFlight, Delivery
  <2>5. th'[Main].pc = "check"
    BY <1>0, <1>1 DEF FinishInFlight, Thread
  <2>6. Joined' /\ Arrived'
    BY <1>a, <2>1, <2>2, <2>4, <2>5 DEF Joined, InFlight, Arrived
  <2> QED  BY <1>0, <1>a, <2>1, <2>2, <2>4, <2>6 DEF Settling
<1>2. CASE CheckJoined
  <2>1. /\ th[Main].pc = "check" /\ obs' = obs /\ ~sig' /\ server'.phase = "completed"
    BY <1>2 DEF CheckJoined, PythonType
  <2>2. server.phase = "native" /\ Joined /\ Arrived
    BY <2>1 DEF Settling, Idle, InFlight, PythonType, Phases
  <2>3. s'.interrupt = s.interrupt /\ s'.ended = s.ended
    BY <1>0, <1>2 DEF CheckJoined, State
  <2>4. th'[Main].pc # "check"
    <3> DEFINE r == th[Main]
               raised == sig /\ s.target = "busy"
               reading == r.resume = "read" \/ (r.resume = "pub" /\ r.kind = "input_wait")
               new == CASE reading /\ raised -> Back(Main)
                [] r.resume = "read" /\ ~raised -> [r EXCEPT !.pc = "wait", !.waited = TRUE]
                [] r.resume = "pub" /\ ~raised -> [r EXCEPT !.pc = "commit"]
                [] r.resume = "pub" /\ raised /\ ~reading -> [r EXCEPT !.pc = "pub"]
                [] r.resume = "next" -> [r EXCEPT !.pc = "pub", !.kind = "ready", !.then = "next"]
    <3>1. new.pc # "check"
      BY <1>0, BackType DEF Thread
    <3>2. th' = [th EXCEPT ![Main] = new]
      BY <1>2 DEF CheckJoined
    <3> HIDE DEF new
    <3> QED  BY <1>0, <3>1, <3>2
  <2>5. Idle' /\ ~obs'.cleanup /\ Arrived'
    BY <1>a, <2>1, <2>2, <2>4 DEF Idle, Joined, Arrived
  <2> QED  BY <1>0, <1>a, <2>1, <2>3, <2>5 DEF Settling
<1> QED  BY <1>1, <1>2

(* The end of the session.                                                 *)
LEMMA SettleEnd ==
    ASSUME PythonType, FinishSessionEnd
    PROVE  s'.ended /\ Over'
BY DEF FinishSessionEnd, Over, PythonType, State, NewThread

\* Every step keeps what is known of an interrupt under way.
LEMMA SettleStep == PythonType /\ SettleInv /\ [Next]_vars => SettleInv'
<1> SUFFICES ASSUME PythonType, SettleInv, [Next]_vars PROVE SettleInv'
  OBVIOUS
<1>0. PythonType' /\ Main \in Threads /\ Readers \subseteq Threads
  BY TypeStep DEF Threads
<1>1. CASE UNCHANGED vars
  BY <1>1 DEF vars, SettleInv, Windows, Over, Settling, Idle, Arrived, OnItsWay, InFlight, Joined,
     Interrupts
<1>2. os' = os
  BY DEF Next, vars, ServerStep, NativeStep, IpcStep, MainStep, ReadStep, PublishStep,
     SendInput, SendInterrupt, SendShutdown, NativeInterrupt, RuntimeHandler, Watcher, BeginInput,
     Interrupt, MarkInterruptRequested, DiscardPendingStdin, ArmDelivery, RequestShutdown,
     FinishInFlight, InputEvent, CheckJoined, ReadBehind, TakeInterrupt, ReadyAfterInterrupt,
     NextCell, LeaveLoop, WaitForActivity, CellEnds, FinishCellRequest, FinishSessionEnd,
     ReadStops, ReadLine, ReadAtShutdown, ReadWaits, InputWait, CompleteDetached, ReadReturns,
     PublishUnix, PreparePublication, Rearm, MarkCheckpointPending, CommitPublication,
     StartRead, RequestExit
<1>3. CASE ~Windows
  BY <1>2, <1>3 DEF SettleInv, Windows
<1>4. CASE Next /\ Windows /\ s.ended
  BY <1>2, <1>4, OverStep DEF SettleInv, Windows
<1>5. CASE Next /\ Windows /\ ~s.ended
  <2> SUFFICES (Settling' /\ ~s'.ended) \/ (s'.ended /\ Over')
    BY DEF SettleInv
  <2>0. Settling
    BY <1>5 DEF SettleInv
  <2>1. Undisturbed => Settling' /\ ~s'.ended
    BY <1>0, <1>5, <2>0, SettlingKept DEF Undisturbed
  <2>2. ~MarkInterruptRequested
    BY <2>0 DEF MarkInterruptRequested, Settling
  <2>3. CASE ServerStep \/ IpcStep
    BY <1>0, <1>5, <2>0, <2>1, <2>2, <2>3, SettleInput, SettleArm DEF ServerStep, IpcStep
  <2>4. CASE NativeStep
    BY <1>0, <1>5, <2>0, <2>4, SettleNative
  <2>5. CASE FinishSessionEnd
    BY <2>5, SettleEnd
  <2>6. CASE FinishInFlight \/ CheckJoined
    BY <1>0, <1>5, <2>0, <2>6, SettleJoin
  <2>7. ASSUME NEW t \in Threads, ReadStep(t) \/ PublishStep(t) PROVE Settling' /\ ~s'.ended
    BY <1>0, <1>5, <2>0, <2>1, <2>7, SettleThread
  <2>8. CASE InputEvent \/ ReadBehind \/ TakeInterrupt \/ ReadyAfterInterrupt \/ NextCell \/ LeaveLoop
             \/ WaitForActivity \/ CellEnds \/ FinishCellRequest \/ RequestExit
             \/ \E t \in Threads : StartRead(t)
    BY <1>0, <1>5, <2>0, <2>1, <2>8, SettleLoop
  <2> QED  BY <1>0, <1>5, <2>3, <2>4, <2>5, <2>6, <2>7, <2>8 DEF Next, MainStep
<1> QED  BY <1>1, <1>3, <1>4, <1>5

(* On Windows, when the server takes an interrupt for settled, the         *)
(* handlers have run, their signal was taken and the observer is ready for *)
(* the next one (interrupt_complete, check_joined_windows_interrupt).      *)
THEOREM SettledCorrect == Spec => []SettledMeansQuiet
<1>1. Init => PythonType /\ SettleInv
  BY TypeInit, SettleInit
<1>2. (PythonType /\ SettleInv) /\ [Next]_vars => (PythonType /\ SettleInv)'
  BY TypeStep, SettleStep
<1>3. PythonType /\ SettleInv => SettledMeansQuiet
  BY DEF SettleInv, SettledMeansQuiet, Over, Settling, Idle
<1> QED  BY <1>1, <1>2, <1>3, PTL DEF Spec
=============================================================================
