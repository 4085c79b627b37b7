------------------------------ MODULE RevealQueue ------------------------------
(***************************************************************************)
(* The message queues of the Reveal bus (Service/Reveal/Reveal.c): a ring  *)
(* of slots for normal messages and one for priority messages, filled by   *)
(* the tasks of the main loop and emptied by Reveal__Handler every 5 ms,   *)
(* with acknowledgements, time-outs and retries.                           *)
(*                                                                         *)
(* The heartbeat is queued by Reveal__Handler1ms, in the timer interrupt,  *)
(* and the macros that should protect the queue from it are empty in this  *)
(* build (Reveal_prv.h:50).  So the main loop's accesses to the normal     *)
(* queue are steps of their own here, in the order and with the loads and  *)
(* stores of the build (listings/Reveal.lst).  Only the main loop uses the *)
(* priority queue.                                                         *)
(***************************************************************************)
EXTENDS Naturals, FiniteSets

CONSTANTS
    QueueSize,       \* REVEAL_QUEUE_SIZE
    PrioritySize,    \* REVEAL_QUEUE_PRIORITY_SIZE
    DebounceCount,   \* REVEAL_QUEUE_DEBOUNCE_COUNT
    RetryTimes,      \* REVEAL_RETRY_TIMES
    AckTimeout,      \* REVEAL_TIMEOUT
    AckFifo,         \* REVEAL_ACK_FIFO
    Peers,           \* the other nodes of the bus
    Requests,        \* the messages the tasks ask for in the normal queue
    UrgentRequests,  \* and in the priority queue
    Refused          \* those that Reveal__QueueCommand may not take: the data
                     \*  did not fit, or the message is blocked

Nodes == Peers \cup {"own"}
Messages == [cmd : BOOLEAN, to : Nodes \cup {"all"}]

ASSUME RevealConstants ==
    /\ QueueSize \in Nat \ {0, 1}
    /\ PrioritySize \in Nat \ {0, 1}
    /\ DebounceCount \in Nat \ {0}
    /\ RetryTimes \in Nat \ {0}
    /\ AckTimeout \in Nat
    /\ AckFifo \in Nat \ {0}
    /\ "own" \notin Peers /\ "all" \notin Peers
    /\ Requests \subseteq Messages /\ UrgentRequests \subseteq Messages
    /\ Refused \subseteq Requests \cup UrgentRequests

Queues == {"normal", "priority"}
Size(k) == IF k = "normal" THEN QueueSize ELSE PrioritySize

\* The debounce counter of a slot: free, ready to be sent, given up, and
\* above that reserved by a caller that has not completed the message.
IDLE == 0
QUEUED == 1
TIMEOUT == 2
SET == DebounceCount + 2
Pending(d) == d > TIMEOUT

VARIABLES
    queue,     \* [k -> [slot |-> [i -> [d, msg]], read, write]]: the two rings
    outgoing,  \* [st, of, retry, timeout, drop]: Reveal_Outgoing_State, which
               \*  also says the queue, and the three variables beside it
    acks,      \* how many acknowledgements Reveal_Ack_Buffer holds
    nodes,     \* Reveal_Node_Status: the nodes that are known to be there
    task,      \* [pc, slot, msg]: where the main loop is in a queue operation
    tick       \* [phase |-> the half of Reveal__Handler that comes next,
               \*  beat |-> the heartbeat came since the last run]

queueVars == <<queue, outgoing, acks, nodes, task, tick>>

Blank == [cmd |-> FALSE, to |-> "own"]
Heartbeat == [cmd |-> FALSE, to |-> "all"]
NoTask == [pc |-> "free", slot |-> 0, msg |-> Blank]
NoMessage == [st |-> "IDLE", of |-> "normal", retry |-> 0, timeout |-> 0, drop |-> FALSE]

Slots(k) == 0..(Size(k) - 1)
NextItem(k, i) == IF i + 1 >= Size(k) THEN 0 ELSE i + 1
SlotState(k, i) == queue[k].slot[i].d

RevealTypeOK ==
    /\ DOMAIN queue = Queues
    /\ \A k \in Queues :
          queue[k] \in [slot : [Slots(k) -> [d : 0..SET, msg : Messages]],
                       read : Slots(k), write : Slots(k)]
    /\ outgoing \in [st : {"IDLE", "SENDING", "TIMING"}, of : Queues, retry : 0..RetryTimes,
                     timeout : 0..AckTimeout, drop : BOOLEAN]
    /\ acks \in 0..(AckFifo - 1)
    /\ nodes \subseteq Nodes
    /\ task \in [pc : {"free", "checked", "reserved", "scanning", "comparing"},
                 slot : Slots("normal"), msg : Messages]
    /\ tick \in [phase : {"incoming", "outgoing"}, beat : BOOLEAN]

(* Reveal__Initialize; the first message is the wake-up it publishes, and  *)
(* the only node known is the board itself.                                *)
RevealInit ==
    /\ queue = [k \in Queues |->
                  [slot |-> [i \in Slots(k) |->
                               IF k = "normal" /\ i = 0 THEN [d |-> QUEUED, msg |-> Heartbeat]
                                                        ELSE [d |-> IDLE, msg |-> Blank]],
                   read |-> 0, write |-> IF k = "normal" THEN 1 ELSE 0]]
    /\ outgoing = NoMessage
    /\ acks = 0
    /\ nodes = {"own"}
    /\ task = NoTask
    /\ tick = [phase |-> "incoming", beat |-> FALSE]
--------------------------------------------------------------------------------
(* Filling the queues.                                                     *)

Fill(k, i, m) ==
    [queue EXCEPT ![k].slot[i] = [d |-> QUEUED, msg |-> m], ![k].write = NextItem(k, i)]

\* Reveal__NewFeedback and Reveal__NewCommand in a task of the main loop:
\* the write index is loaded once and its slot found free.
NewChecks ==
    /\ task.pc = "free"
    /\ SlotState("normal", queue["normal"].write) = IDLE
    /\ \E m \in Requests :
          task' = [pc |-> "checked", slot |-> queue["normal"].write, msg |-> m]
    /\ UNCHANGED <<queue, outgoing, acks, nodes, tick>>

\* Faulty variant: the write index is loaded again for the store.
BadNewReserves ==
    /\ task.pc = "checked"
    /\ queue' = [queue EXCEPT !["normal"].slot[queue["normal"].write].d = SET]
    /\ task' = [task EXCEPT !.pc = "reserved", !.slot = queue["normal"].write]
    /\ UNCHANGED <<outgoing, acks, nodes, tick>>

\* The slot is taken, whatever an interrupt has put there since.
NewReserves ==
    /\ task.pc = "checked"
    /\ queue' = [queue EXCEPT !["normal"].slot[task.slot].d = SET]
    /\ task' = [task EXCEPT !.pc = "reserved"]
    /\ UNCHANGED <<outgoing, acks, nodes, tick>>

\* What Reveal__QueueCommand leaves of a message: one that is refused stays
\* as the caller reserved it.
Queued(m) == IF m \in Refused THEN {QUEUED, SET} ELSE {QUEUED}

\* The write index is stored, the message filled in and queued.
NewAdvances ==
    /\ task.pc = "reserved"
    /\ \E d \in Queued(task.msg) :
          queue' = [queue EXCEPT !["normal"].slot[task.slot] = [d |-> d, msg |-> task.msg],
                                 !["normal"].write = NextItem("normal", task.slot)]
    /\ task' = NoTask
    /\ UNCHANGED <<outgoing, acks, nodes, tick>>

\* Reveal__PriorityNew..., filled and queued.
PriorityRequest ==
    /\ task.pc = "free"
    /\ LET w == queue["priority"].write
       IN  /\ SlotState("priority", w) = IDLE
           /\ \E m \in UrgentRequests : \E d \in Queued(m) :
                 queue' = [Fill("priority", w, m) EXCEPT !["priority"].slot[w].d = d]
    /\ UNCHANGED <<outgoing, acks, nodes, task, tick>>

\* Reveal1sTasks in the timer interrupt: at most once between two handlers.
HeartbeatInterrupt ==
    /\ ~tick.beat
    /\ tick' = [tick EXCEPT !.beat = TRUE]
    /\ LET w == queue["normal"].write
       IN  queue' = IF SlotState("normal", w) = IDLE THEN Fill("normal", w, Heartbeat) ELSE queue
    /\ UNCHANGED <<outgoing, acks, nodes, task>>

\* The same interrupt gives up another node that has been silent too long.
NodeLost ==
    /\ \E n \in nodes \cap Peers : nodes' = nodes \ {n}
    /\ UNCHANGED <<queue, outgoing, acks, task, tick>>
--------------------------------------------------------------------------------
(* Reveal__Handler, in the main loop.                                      *)

\* Faulty variant: the read index stays.
BadDrop(q, k) ==
    [q EXCEPT ![k].slot[q[k].read] = [d |-> IDLE, msg |-> Blank]]

\* DropMessageFromQueue.  What a free slot still holds is not kept here.
Drop(q, k) ==
    [q EXCEPT ![k].slot[q[k].read] = [d |-> IDLE, msg |-> Blank],
              ![k].read = NextItem(k, q[k].read)]

HeadMessage(q, k) == q[k].slot[q[k].read].msg

\* An acknowledgement is owed for every command; without room it is not given.
AckOwed(kind) == IF kind = "command" /\ acks + 1 < AckFifo THEN acks + 1 ELSE acks

\* RevealHandlerIncomming: at most one message.  Its sender is there, and so
\* is the node whose wake-up it acknowledges; Win takes messages that carry
\* the board's own address as their source, too.  An acknowledgement that
\* answers the command being timed ends it; a command earns one.
Incoming(kind, from, woken) ==
    /\ task.pc = "free" /\ tick.phase = "incoming"
    /\ tick' = [tick EXCEPT !.phase = "outgoing"]
    /\ nodes' = nodes \cup (CASE kind = "nothing" -> {}
                              [] kind = "wake-up" -> {from, woken}
                              [] OTHER -> {from})
    /\ IF kind = "answer" /\ outgoing.st = "TIMING"
       THEN queue' = Drop(queue, outgoing.of) /\ outgoing' = NoMessage
       ELSE UNCHANGED <<queue, outgoing>>
    /\ acks' = AckOwed(kind)
    /\ UNCHANGED task

HandlerIncoming ==
    \E kind \in {"nothing", "answer", "command", "wake-up", "other"}, from, woken \in Nodes :
        Incoming(kind, from, woken)

\* Faulty variant: a message left unfinished never times out.
BadAged(q) == q

\* The debounce counters: they run down to TIMEOUT.
AgedSlot(s) == IF Pending(s.d) THEN [s EXCEPT !.d = @ - 1] ELSE s
Aged(q) ==
    [k \in Queues |-> [q[k] EXCEPT !.slot = [i \in Slots(k) |-> AgedSlot(@[i])]]]

\* Where the search of the priority queue ends: at a message, at one that is
\* being filled, or where the indexes meet.
PriorityStop(q) ==
    LET p == q["priority"]
        at(i) == (p.read + i) % PrioritySize
        ends(i) == LET d == p.slot[at(i)].d
                   IN  \/ d = QUEUED \/ Pending(d)
                       \/ at(i) = p.write /\ (i > 0 \/ d = IDLE)
    IN  CHOOSE i \in 0..PrioritySize : ends(i) /\ \A j \in 0..(i - 1) : ~ends(j)

\* What it passes are messages given up, which are freed.
Searched(q) ==
    LET p == q["priority"]
        n == PriorityStop(q)
        passed == {(p.read + i) % PrioritySize : i \in 0..(n - 1)}
    IN  [q EXCEPT !["priority"].read = (p.read + n) % PrioritySize,
                  !["priority"].slot = [i \in Slots("priority") |->
                        IF i \in passed THEN [d |-> IDLE, msg |-> Blank] ELSE @[i]]]

\* Faulty variant: the search ends before it begins when the indexes meet, as
\* they do when the ring is full.
BadUrgent(q) ==
    LET s == Searched(q)["priority"]
    IN  s.slot[s.read].d = QUEUED /\ s.read # s.write

\* Whether the search found a message to send: one it stopped at because the
\* indexes met waits for the next run.
Urgent(q) ==
    LET s == Searched(q)["priority"]
    IN  s.slot[s.read].d = QUEUED /\ (PriorityStop(q) = 0 \/ s.read # s.write)

\* What is left when Win refuses a message to the board itself: a command is
\* dropped from its ring, but a report has been dropped already, and the state,
\* which is IDLE by then, makes the second drop one of the priority ring.
RefusedByWin(q, k) ==
    IF HeadMessage(q, k).cmd THEN Drop(q, k) ELSE Drop(Drop(q, k), "priority")

\* The SENDING states; win says whether Win__AllocateMessage gives a buffer.
Send(q, o, win) ==
    LET m == HeadMessage(q, o.of)
    IN  IF m.to \in Nodes /\ m.to \notin nodes
        THEN <<q, [o EXCEPT !.st = "TIMING", !.retry = 1, !.timeout = 0, !.drop = TRUE]>>
        ELSE IF ~win THEN <<q, [o EXCEPT !.st = "SENDING", !.drop = FALSE]>>
        ELSE IF m.to = "own" THEN <<RefusedByWin(q, o.of), NoMessage>>
        ELSE IF m.cmd
        THEN <<q, [o EXCEPT !.st = "TIMING", !.timeout = AckTimeout, !.drop = FALSE]>>
        ELSE <<Drop(q, o.of), NoMessage>>

Picked(k) == [outgoing EXCEPT !.st = "SENDING", !.of = k, !.retry = RetryTimes]

\* The TIMING states: the time-out, the retries, the end.
Timed(q) ==
    IF outgoing.timeout > 0
    THEN <<q, [outgoing EXCEPT !.timeout = @ - 1]>>
    ELSE IF outgoing.retry > 1
    THEN <<q, [outgoing EXCEPT !.st = "SENDING", !.retry = @ - 1]>>
    ELSE <<Drop(q, outgoing.of), NoMessage>>

\* The node that is given up with a command whose retries failed: that of the
\* normal queue's head, whichever queue the command is from, and of whatever
\* that slot held last when it is free.
GivenUp ==
    IF outgoing.timeout > 0 \/ outgoing.retry > 1 \/ outgoing.drop THEN {{}}
    ELSE IF SlotState("normal", queue["normal"].read) = IDLE THEN {{n} : n \in nodes} \cup {{}}
    ELSE {{HeadMessage(queue, "normal").to}}

Sent(q, o, win) ==
    LET r == Send(q, o, win) IN queue' = r[1] /\ outgoing' = r[2]

HandlerEnds == tick' = [tick EXCEPT !.phase = "incoming", !.beat = FALSE]

\* RevealHandlerOutgoing up to the search of the normal queue: the debounce
\* counters, then one acknowledgement, or else the state machine.
Outgoing(win) ==
    /\ task.pc = "free" /\ tick.phase = "outgoing"
    /\ LET q == Aged(queue)
       IN  \/ /\ acks > 0
              /\ acks' = IF win THEN acks - 1 ELSE acks
              /\ queue' = q
              /\ HandlerEnds
              /\ UNCHANGED <<outgoing, nodes, task>>
           \/ /\ acks = 0 /\ outgoing.st = "IDLE" /\ Urgent(q)
              /\ Sent(Searched(q), Picked("priority"), win)
              /\ HandlerEnds
              /\ UNCHANGED <<acks, nodes, task>>
           \/ /\ acks = 0 /\ outgoing.st = "IDLE" /\ ~Urgent(q)
              /\ queue' = Searched(q)
              /\ task' = [task EXCEPT !.pc = "scanning"]
              /\ UNCHANGED <<outgoing, acks, nodes, tick>>
           \/ /\ acks = 0 /\ outgoing.st = "SENDING"
              /\ Sent(q, outgoing, win)
              /\ HandlerEnds
              /\ UNCHANGED <<acks, nodes, task>>
           \/ /\ acks = 0 /\ outgoing.st = "TIMING"
              /\ LET r == Timed(q) IN queue' = r[1] /\ outgoing' = r[2]
              /\ \E lost \in GivenUp : nodes' = nodes \ lost
              /\ HandlerEnds
              /\ UNCHANGED <<acks, task>>

HandlerOutgoing == \E win \in BOOLEAN : Outgoing(win)

\* The end of the do-while loop of the normal queue.
ScanGoesOn(q) ==
    LET n == q["normal"]
    IN  IF Pending(n.slot[n.read].d) \/ n.read = n.write
        THEN task' = NoTask /\ HandlerEnds
        ELSE task' = [task EXCEPT !.pc = "scanning"] /\ UNCHANGED tick

Skipped == [queue EXCEPT !["normal"].read = NextItem("normal", @)]

\* The head of the normal queue is read: to be sent, given up, being filled,
\* or free, and then the indexes are compared next.
ScanNormal(win) ==
    /\ task.pc = "scanning"
    /\ LET d == SlotState("normal", queue["normal"].read)
       IN  \/ /\ d = QUEUED
              /\ Sent(queue, Picked("normal"), win)
              /\ task' = NoTask
              /\ HandlerEnds
           \/ /\ d = TIMEOUT
              /\ queue' = Drop(queue, "normal")
              /\ ScanGoesOn(Drop(queue, "normal"))
              /\ UNCHANGED outgoing
           \/ /\ d = IDLE
              /\ task' = [task EXCEPT !.pc = "comparing"]
              /\ UNCHANGED <<queue, outgoing, tick>>
           \/ /\ Pending(d)
              /\ task' = NoTask
              /\ HandlerEnds
              /\ UNCHANGED <<queue, outgoing>>
    /\ UNCHANGED <<acks, nodes>>

ScanHead == \E win \in BOOLEAN : ScanNormal(win)

\* A free slot with the indexes apart is passed over.
ScanCompares ==
    /\ task.pc = "comparing"
    /\ IF queue["normal"].read # queue["normal"].write
       THEN queue' = Skipped /\ ScanGoesOn(Skipped)
       ELSE /\ task' = NoTask
            /\ HandlerEnds
            /\ UNCHANGED queue
    /\ UNCHANGED <<outgoing, acks, nodes>>
--------------------------------------------------------------------------------
RevealNext ==
    \/ NewChecks
    \/ NewReserves
    \/ NewAdvances
    \/ PriorityRequest
    \/ HeartbeatInterrupt
    \/ NodeLost
    \/ HandlerIncoming
    \/ HandlerOutgoing
    \/ ScanHead
    \/ ScanCompares

RevealSpec == RevealInit /\ [][RevealNext]_queueVars
--------------------------------------------------------------------------------
\* The priority ring is in line: the slots in use are those from the read
\* index up to the write index, and no others.
PriorityAligned ==
    LET p == queue["priority"]
        used == {i \in Slots("priority") : p.slot[i].d # IDLE}
        ahead == {(p.read + j) % PrioritySize :
                      j \in 0..(((PrioritySize + p.write - p.read) % PrioritySize) - 1)}
    IN  used = ahead \/ (p.read = p.write /\ used = Slots("priority"))

\* The reports to the board itself that wait in either ring.
OwnReport == [cmd |-> FALSE, to |-> "own"]
OwnReports ==
    {s \in UNION {{k} \X Slots(k) : k \in Queues} :
        queue[s[1]].slot[s[2]] = [d |-> QUEUED, msg |-> OwnReport]}

(* The priority ring stays in line whatever is sent, acknowledged, given   *)
(* up or left unfinished (Reveal.c:1894, "there is a misalignment.  This   *)
(* condition should never happen"), with one exception: Win refuses a      *)
(* report to the board itself, the second drop finds the ring empty, and   *)
(* the read index passes the write index.  Then nothing waits in it yet.   *)
PriorityKeepsLine ==
    [][PriorityAligned /\ ~PriorityAligned' =>
          /\ ~(OwnReports \subseteq OwnReports')
          /\ \A i \in Slots("priority") : queue'["priority"].slot[i].d = IDLE]_queueVars

(* The abstract specification of the priority queue: what the slots hold   *)
(* from the read index on, as many as are in use.                          *)
LineLength ==
    LET p == queue["priority"]
    IN  IF p.read = p.write /\ p.slot[p.read].d # IDLE THEN PrioritySize
        ELSE (PrioritySize + p.write - p.read) % PrioritySize

EntryOf(s) ==
    [msg |-> s.msg, ready |-> s.d = QUEUED, left |-> IF Pending(s.d) THEN s.d - TIMEOUT ELSE 0]

PriorityLineOf ==
    LET p == queue["priority"]
    IN  [i \in 1..LineLength |-> EntryOf(p.slot[(p.read + i - 1) % PrioritySize])]

Urgents == INSTANCE PriorityLine WITH
               Room <- PrioritySize, Message <- UrgentRequests, Patience <- DebounceCount,
               line <- PriorityLineOf,
               inLine <- PriorityAligned, strays <- OwnReports,
               taken <- outgoing.st # "IDLE" /\ outgoing.of = "priority",
               turned <- task.pc \in {"scanning", "comparing"}

(* The priority queue is a line: its messages leave in the order they came *)
(* and only from its head, one never completed is given up after so many   *)
(* runs and no sooner, and no normal message is looked for while a         *)
(* complete one is first in line (Reveal.c:1918, "Check if no Priority     *)
(* message is ready to be sent - progress with normal queue").  It loses   *)
(* its head, or its order when it is empty, only to a report to the board  *)
(* itself that Win refuses.                                                *)
UrgentLine == Urgents!Spec

(* Of the messages waiting in the normal ring only a heartbeat can be      *)
(* written over: the race with the interrupt costs no message of a task.   *)
OnlyHeartbeatsLost ==
    [][\A i \in Slots("normal") :
          SlotState("normal", i) = QUEUED /\ queue'["normal"].slot[i].d = SET
              => queue["normal"].slot[i].msg = Heartbeat]_queueVars

(* Every message that waits in the normal ring is sent or dropped some day, *)
(* although a race with the heartbeat can put the indexes out of line and  *)
(* leave it behind the read index; provided that the handler looks at the  *)
(* normal ring again and again, from which acknowledgements, priority      *)
(* messages and a bus that gives no buffer can keep it.                    *)
WaitingEnds ==
    []<>(task.pc = "scanning") =>
        \A i \in Slots("normal") : (SlotState("normal", i) = QUEUED) ~> (SlotState("normal", i) # QUEUED)
================================================================================
