--------------------------------- MODULE WinBus ---------------------------------
(***************************************************************************)
(* The data link of the WIN bus (Service/Win/Win.c): one wire shared by    *)
(* the boards, a message at a time, an echo checked byte by byte, an       *)
(* acknowledgement from the destination, retries, and a 4-bit counter by   *)
(* which a receiver tells a repetition from a new message.                 *)
(*                                                                         *)
(* The grain is the frame: what the wire did to it and to its answer is    *)
(* chosen when it ends.  The arbitration (bus grant, node times) is left   *)
(* out: one frame is on the wire at a time, and one that is disturbed has  *)
(* a wrong echo.  Win_Tx_State, Win_Tx_Status and Win_Tx_Message_State are *)
(* one field here.  All the boards run the same code.                      *)
(***************************************************************************)
EXTENDS Naturals

CONSTANTS
    Boards,           \* the nodes that are modelled
    Talkers,          \* those that have messages to send
    Elsewhere,        \* addresses whose nodes are not modelled
    CounterLimit,     \* WIN_MSG_COUNTER_LIMIT
    Retries,          \* WIN_NUM_RETRIES
    CollisionRetries, \* WIN_NUM_RETRIES_COLLISION
    MaxMessages       \* WIN_MAX_NUM_MESSAGES

ASSUME WinConstants ==
    /\ Talkers \subseteq Boards
    /\ Boards \cap Elsewhere = {} /\ "all" \notin Boards \cup Elsewhere
    /\ CounterLimit \in Nat \ {0, 1}
    /\ Retries \in Nat /\ CollisionRetries \in Nat
    /\ MaxMessages \in Nat \ {0}

VARIABLES
    tx,      \* [n -> [st, to, count, retry, collision]]: the message to be sent
    next,    \* [n -> Msg_Count]
    sent,    \* [n -> Node_Sent_Counter]
    rx,      \* [n -> Win_Rx_Message_State]
    prev,    \* [n -> [source -> Prev_Rx_Msg_Count]]
    noted,   \* history: [n -> the boards that have taken note of n's message]
    missed   \* history: [n -> those that took no note of the message before]

winVars == <<tx, next, sent, rx, prev, noted, missed>>

\* The message counter starts at 0 and goes round from 1 to the limit.
Reset == 0
Start == 1
Counters == 0..CounterLimit
Destinations(n) == (Boards \ {n}) \cup Elsewhere \cup {"all"}

NothingToSend == [st |-> "FREE", to |-> "all", count |-> Reset, retry |-> 0, collision |-> 0]

WinTypeOK ==
    /\ tx \in [Boards -> [st : {"FREE", "READY", "SENDING"},
                          to : Boards \cup Elsewhere \cup {"all"}, count : Counters,
                          retry : 0..Retries, collision : 0..CollisionRetries]]
    /\ next \in [Boards -> Counters]
    /\ sent \in [Boards -> 0..MaxMessages]
    /\ rx \in [Boards -> {"FREE", "READY", "PROCESSING"}]
    /\ prev \in [Boards -> [Talkers -> Counters]]
    /\ noted \in [Boards -> SUBSET Boards]
    /\ missed \in [Boards -> SUBSET Boards]

(* Win__Initialize on every board.                                         *)
WinInit ==
    /\ tx = [n \in Boards |-> NothingToSend]
    /\ next = [n \in Boards |-> Reset]
    /\ sent = [n \in Boards |-> 0]
    /\ rx = [n \in Boards |-> "FREE"]
    /\ prev = [n \in Boards |-> [s \in Talkers |-> Reset]]
    /\ noted = [n \in Boards |-> {}]
    /\ missed = [n \in Boards |-> {}]
--------------------------------------------------------------------------------
(* The upper layer.                                                        *)

CountAfter(c) == IF c + 1 > CounterLimit THEN Start ELSE c + 1

\* Win__AllocateMessage and Win__QueueMessage, which the main loop calls one
\* after the other (RevealHandlerOutgoing).
WinQueue(n, to) ==
    /\ tx[n].st = "FREE"
    /\ tx' = [tx EXCEPT ![n] = [st |-> "READY", to |-> to, count |-> next[n],
                                retry |-> Retries, collision |-> CollisionRetries]]
    /\ next' = [next EXCEPT ![n] = CountAfter(@)]
    /\ noted' = [noted EXCEPT ![n] = {}]
    /\ UNCHANGED <<sent, rx, prev, missed>>

\* Win__GetIncomingMessage and, when it is parsed, Win__FreeIncomingMessage.
WinTake(n) ==
    /\ \/ rx[n] = "READY" /\ rx' = [rx EXCEPT ![n] = "PROCESSING"]
       \/ rx[n] = "PROCESSING" /\ rx' = [rx EXCEPT ![n] = "FREE"]
    /\ UNCHANGED <<tx, next, sent, prev, noted, missed>>

\* Win_Rx_Message_Time runs out, even on a message that is being parsed.
WinExpire(n) ==
    /\ rx[n] # "FREE"
    /\ rx' = [rx EXCEPT ![n] = "FREE"]
    /\ UNCHANGED <<tx, next, sent, prev, noted, missed>>

\* The timers that end a board's turn at the bus: WIN_TIME_HOLDING_MSG after
\* it last sent, or a bus that has been idle for WIN_NODE_MAX_TIME.
HoldingEnds(n) ==
    /\ sent[n] > 0
    /\ sent' = [sent EXCEPT ![n] = 0]
    /\ UNCHANGED <<tx, next, rx, prev, noted, missed>>

\* The message of n is done with; by are the boards that have noted it.
Missing(n, by) == (missed[n] \cup (Boards \ {n})) \ by

\* A reset: Win__Initialize.  What it was sending is gone.
WinRestart(n) ==
    /\ tx' = [tx EXCEPT ![n] = NothingToSend]
    /\ next' = [next EXCEPT ![n] = Reset]
    /\ sent' = [sent EXCEPT ![n] = 0]
    /\ rx' = [rx EXCEPT ![n] = "FREE"]
    /\ prev' = [prev EXCEPT ![n] = [s \in Talkers |-> Reset]]
    /\ noted' = [m \in Boards |-> IF m = n THEN {} ELSE noted[m] \ {n}]
    /\ missed' = IF tx[n].st = "FREE" THEN missed
                 ELSE [missed EXCEPT ![n] = Missing(n, noted[n])]
--------------------------------------------------------------------------------
(* Sending and receiving.                                                  *)

\* The bus is granted and the frame starts, unless this board has had its
\* share of the bus.
WinGrant(n) ==
    /\ tx[n].st = "READY" /\ sent[n] < MaxMessages
    /\ \A m \in Boards : tx[m].st # "SENDING"
    /\ tx' = [tx EXCEPT ![n].st = "SENDING"]
    /\ UNCHANGED <<next, sent, rx, prev, noted, missed>>

\* DropSendingMessage.
DropSending(n, by) ==
    /\ tx' = [tx EXCEPT ![n] = NothingToSend]
    /\ sent' = [sent EXCEPT ![n] = @ + 1]
    /\ missed' = [missed EXCEPT ![n] = Missing(n, by)]

Again(n, m) ==
    /\ tx' = [tx EXCEPT ![n] = [m EXCEPT !.st = "READY"]]
    /\ UNCHANGED <<sent, missed>>

\* WIN_TX_STATUS_COLLISION: the echo differs.
Collided(n, by) ==
    IF tx[n].collision > 0 THEN Again(n, [tx[n] EXCEPT !.collision = @ - 1])
                           ELSE DropSending(n, by)

\* Faulty variant: the retries of a message nobody answers are not counted.
BadUnanswered(n, by) ==
    IF tx[n].to \in {"all", "pc"} \/ tx[n].retry = 0 THEN DropSending(n, by)
                                                     ELSE Again(n, tx[n])

\* The bus is idle after the message (WIN_TX_STATUS_SENT), with no answer.
Unanswered(n, by) ==
    IF tx[n].to \in {"all", "pc"} \/ tx[n].retry = 0
    THEN DropSending(n, by)
    ELSE Again(n, [tx[n] EXCEPT !.retry = @ - 1])

\* The boards a frame of n is for; one that is not needs no room for it.
IsFor(n, r) == tx[n].to \in {r, "all"}
Accepts(n, r) == ~IsFor(n, r) \/ rx[r] = "FREE"

\* Faulty variant: a repetition is not told from a new message.
BadRepeated(n, r) == FALSE

\* The counter is that of the message before, and not the one after a reset.
Repeated(n, r) == prev[r][n] = tx[n].count /\ tx[n].count # Reset

\* Faulty variant: a message to another board leaves the counter alone.
BadCountKept(n, r) == IF IsFor(n, r) THEN tx[n].count ELSE prev[r][n]

\* Prev_Rx_Msg_Count after a frame: a message to another board clears it.
CountKept(n, r) == IF IsFor(n, r) THEN tx[n].count ELSE Reset

\* What the receivers do with a frame that they heard well.
Heard(n, by) ==
    /\ rx' = [r \in Boards |-> IF r \in by /\ IsFor(n, r) /\ ~Repeated(n, r)
                               THEN "READY" ELSE rx[r]]
    /\ prev' = [r \in Boards |-> IF r \in by THEN [prev[r] EXCEPT ![n] = CountKept(n, r)]
                                             ELSE prev[r]]
    /\ noted' = [noted EXCEPT ![n] = @ \cup by]

(* A frame of n ends: those in heard received it well; the echo came back  *)
(* right, wrong, or with bytes missing; an acknowledgement was heard.      *)
FrameEnds(n, heard, echo, answered) ==
    /\ tx[n].st = "SENDING"
    /\ LET by == {r \in heard : Accepts(n, r)}
           all == noted[n] \cup by
       IN  /\ answered => tx[n].to \in by \cup Elsewhere
           /\ Heard(n, by)
           /\ \/ echo = "right" /\ answered /\ DropSending(n, all)
              \/ echo = "right" /\ ~answered /\ Unanswered(n, all)
              \* An acknowledgement is taken for the rest of a short echo.
              \/ (echo = "wrong" \/ (echo = "short" /\ answered)) /\ Collided(n, all)
              \* The bus is idle before the echo is complete: no retry counts.
              \/ echo = "short" /\ ~answered /\ Again(n, tx[n])
    /\ UNCHANGED next

Echoes == {"right", "wrong", "short"}

WinFrame(n) ==
    \E heard \in SUBSET (Boards \ {n}), echo \in Echoes, answered \in BOOLEAN :
        FrameEnds(n, heard, echo, answered)

\* An attempt that the wire does not cut short.
WholeFrame(n) ==
    \E heard \in SUBSET (Boards \ {n}), echo \in Echoes \ {"short"}, answered \in BOOLEAN :
        FrameEnds(n, heard, echo, answered)
--------------------------------------------------------------------------------
WinNext ==
    \/ \E n \in Talkers : \/ \E to \in Destinations(n) : WinQueue(n, to)
                          \/ WinGrant(n)
                          \/ WinFrame(n)
                          \/ HoldingEnds(n)
    \/ \E n \in Boards : WinTake(n) \/ WinExpire(n) \/ WinRestart(n)

WinSpec == WinInit /\ [][WinNext]_winVars
--------------------------------------------------------------------------------
\* The step gives the upper layer of r the frame of n.
Handed(n, r) ==
    tx[n].st = "SENDING" /\ IsFor(n, r) /\ rx[r] = "FREE" /\ rx'[r] = "READY"

(* A message that is sent again is not parsed again (Win.c:878, "if it is  *)
(* a repeated message it won't be parsed"), however acknowledgements are   *)
(* lost; but the first one after a reset of its sender may be.             *)
ParsedOnce ==
    [][\A n \in Talkers : \A r \in noted[n] :
          Handed(n, r) /\ r \in noted'[n] => tx[n].count = Reset]_winVars

(* No new message is taken for a repetition, acknowledged and thrown away, *)
(* even when the counter has gone round or its sender was reset; unless    *)
(* this board took no note of a message of that sender before it.          *)
NewIsParsed ==
    [][\A n \in Talkers : \A r \in Boards \ noted[n] :
          r \in noted'[n] /\ IsFor(n, r) => Handed(n, r) \/ r \in missed[n]]_winVars

(* The buffer is free again some day, whatever happens on the wire and at  *)
(* the other boards, unless every frame is cut short: the upper layer is   *)
(* not locked out by a message nobody takes.                               *)
TxBufferFreed == \A n \in Talkers : (tx[n].st # "FREE") ~> (tx[n].st = "FREE")
================================================================================
