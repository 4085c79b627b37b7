----------------------------- MODULE SafetyChannel -----------------------------
(***************************************************************************)
(* The safety channel between two boards: the numbered messages of         *)
(* SRAPI020Safety.c, and SRMCUSpeedMonitor.c that sends one every TxTimer  *)
(* calls and asks for the last one heard.  The other board (the ACU) is    *)
(* taken to run the same API: one direction is modelled, from this code's  *)
(* sender to this code's receiver.                                         *)
(*                                                                         *)
(* What is sent is not told apart: the question is which messages the      *)
(* receiver trusts.  A message that the bus gives up, or that arrives with *)
(* a wrong CRC, address or length, is lost to it; a repetition that the    *)
(* data link lets through is heard again.  Time is counted in calls of the *)
(* 25 ms slow handler, the same on both boards; the 32 bit millisecond     *)
(* counter behind it does not come round.                                  *)
(***************************************************************************)
EXTENDS Naturals, Sequences

CONSTANTS
    SequenceLast,   \* SEQUENCE_LAST (253)
    TxTimer,        \* SR_SPEED_MONITOR_TX_TIMER, in calls (52)
    TxPeriod,       \* SRAPI020_SPEED_MONITOR_TX_RATE_MS (1800 ms, 72 calls)
    RxPeriod,       \* SRAPI020_SPEED_MONITOR_RX_RATE_MS (8000 ms, 320 calls)
    WireSize        \* messages that the bus holds at a time

(* A message is due before the sender calls it late and the receiver gives *)
(* it up; and the numbers do not come round while the receiver waits, the  *)
(* messages that wait on the wire aside.                                   *)
ASSUME ChannelConstants ==
    /\ {SequenceLast, TxTimer, TxPeriod, RxPeriod, WireSize} \subseteq Nat \ {0}
    /\ TxTimer + 1 < TxPeriod
    /\ TxTimer + 1 < RxPeriod
    /\ SequenceLast > WireSize
    /\ (SequenceLast - WireSize) * (TxTimer + 1) > RxPeriod

SeqReset   == 0
SeqFirst   == 1
SeqLost    == SequenceLast + 1
SeqInvalid == SequenceLast + 2

\* What was sent between a message and the one heard before it: nothing,
\* messages that are lost, or among these one with which the sender began
\* its count anew (SEQUENCE_RESET, SEQUENCE_LOST).
Gaps == {"none", "lost", "anew"}

VARIABLES
    sender,   \* [next |-> Tx_Next_Sequence, age |-> calls since Tx_Time,
              \*  timer |-> SR_Speed_Monitor_TX_Handler_Timer]
    receiver, \* [expected |-> Rx_Expected_Sequence, age |-> calls since Rx_Time,
              \*  valid |-> Rx_Sequence_Valid, gap: before the last message heard]
    wire,     \* the messages on their way: [seq, gap, copy: heard already]
    unheard,  \* the gap before the next message that is sent
    calm      \* nothing is lost, repeated, refused or reset from now on

channelVars == <<sender, receiver, wire, unheard, calm>>

ChannelTypeOK ==
    /\ sender \in [next : 0..SequenceLast, age : 0..TxPeriod, timer : 0..TxTimer]
    /\ receiver \in [expected : (1..SequenceLast) \cup {SeqInvalid},
                    age : 0..(RxPeriod + 1), valid : BOOLEAN, gap : Gaps]
    /\ wire \in Seq([seq : 0..SeqLost, gap : Gaps, copy : BOOLEAN])
    /\ Len(wire) <= WireSize
    /\ unheard \in Gaps
    /\ calm \in BOOLEAN

\* SRAPI020Safety__Initialize and SRMCUSpeedMonitor__Initialize.
TxInit == [next |-> SeqReset, age |-> 0, timer |-> 0]
RxInit == [expected |-> SeqInvalid, age |-> 0, valid |-> FALSE, gap |-> "none"]

ChannelInit ==
    /\ sender = TxInit
    /\ receiver = RxInit
    /\ wire = <<>>
    /\ unheard = "none"
    /\ calm = FALSE

NextSequence(s) == IF s < SequenceLast THEN s + 1 ELSE SeqFirst
--------------------------------------------------------------------------------
(* The sender.                                                             *)

Later(age, limit) == IF age < limit THEN age + 1 ELSE limit

\* The number that SRAPI020Safety__SetTxValue gives the message.
Sequence(t) == IF t.next # SeqReset /\ t.age >= TxPeriod THEN SeqLost ELSE t.next

\* Faulty variant: the time of the message is not noted.
BadGivenOut(t) == [next |-> NextSequence(Sequence(t)), age |-> t.age, timer |-> TxTimer]

\* The variables after a message that the bus took, the timer reloaded.
GivenOut(t) == [next |-> NextSequence(Sequence(t)), age |-> 0, timer |-> TxTimer]

(* Monitor_TX_Status: when the timer has run out, a message, in every call *)
(* until the bus takes it.                                                 *)
MonitorTx(accepted) ==
    LET t == [sender EXCEPT !.age = Later(@, TxPeriod)] IN
    \/ /\ sender.timer > 0
       /\ sender' = [t EXCEPT !.timer = @ - 1]
       /\ UNCHANGED <<wire, unheard>>
    \/ /\ sender.timer = 0
       /\ accepted /\ Len(wire) < WireSize
       /\ wire' = Append(wire, [seq |-> Sequence(t), gap |-> unheard, copy |-> FALSE])
       /\ unheard' = "none"
       /\ sender' = GivenOut(t)
    \/ /\ sender.timer = 0
       /\ ~(accepted /\ Len(wire) < WireSize)
       /\ sender' = t
       /\ UNCHANGED <<wire, unheard>>
--------------------------------------------------------------------------------
(* The receiver.                                                           *)

\* IS_MESSAGE_PERIOD_VALID.
PeriodValid(r) == r.age <= RxPeriod

\* Faulty variant: the number alone decides.
BadPreserved(seq) == seq = receiver.expected

\* SaveSafetyData's sequence_preserved.
Preserved(seq) == seq = receiver.expected /\ PeriodValid(receiver)

(* SRAPI020Safety__FeedbackParser and SaveSafetyData.                      *)
Hears(m) == receiver' = [expected |-> NextSequence(m.seq), age |-> 0,
                         valid |-> Preserved(m.seq), gap |-> m.gap]

(* SRAPI020Safety__GetRxValue, as Monitor_RX_Status_Reaction asks for the  *)
(* value: ResetRxChannel once the period is over.                          *)
MonitorRx ==
    LET r == [receiver EXCEPT !.age = Later(@, RxPeriod + 1)]
    IN  receiver' = IF r.valid /\ ~PeriodValid(r)
              THEN [r EXCEPT !.expected = SeqInvalid, !.valid = FALSE] ELSE r
--------------------------------------------------------------------------------
(* One call of the slow handlers; a calm bus delivers in between.          *)
SlowCall ==
    /\ calm => wire = <<>>
    /\ \E accepted \in {TRUE} \cup (IF calm THEN {} ELSE {FALSE}) : MonitorTx(accepted)
    /\ MonitorRx
    /\ UNCHANGED calm

Deliver ==
    /\ wire # <<>>
    /\ Hears(Head(wire))
    /\ wire' = Tail(wire)
    /\ UNCHANGED <<sender, unheard, calm>>

\* Gaps add up; a count begun anew in any of them counts.
Both(g, h) == IF g = "none" THEN h ELSE IF h = "none" THEN g
              ELSE IF g = "anew" \/ h = "anew" THEN "anew" ELSE "lost"

LostGap(m) ==
    IF m.copy THEN "none" ELSE Both(m.gap, IF m.seq \in {SeqReset, SeqLost} THEN "anew" ELSE "lost")

Lose ==
    /\ ~calm
    /\ wire # <<>>
    /\ LET g == LostGap(Head(wire)) IN
       IF Len(wire) = 1
       THEN wire' = <<>> /\ unheard' = Both(g, unheard)
       ELSE wire' = [Tail(wire) EXCEPT ![1].gap = Both(g, @)] /\ UNCHANGED unheard
    /\ UNCHANGED <<sender, receiver, calm>>

\* The message is heard, and once more later.
Repeat ==
    /\ ~calm
    /\ wire # <<>>
    /\ Hears(Head(wire))
    /\ wire' = [wire EXCEPT ![1].gap = "none", ![1].copy = TRUE]
    /\ UNCHANGED <<sender, unheard, calm>>

ResetSender   == ~calm /\ sender' = TxInit /\ UNCHANGED <<receiver, wire, unheard, calm>>
ResetReceiver == ~calm /\ receiver' = RxInit /\ UNCHANGED <<sender, wire, unheard, calm>>
CalmsDown     == ~calm /\ calm' = TRUE /\ UNCHANGED <<sender, receiver, wire, unheard>>

ChannelNext ==
    \/ SlowCall
    \/ Deliver
    \/ Lose
    \/ Repeat
    \/ ResetSender
    \/ ResetReceiver
    \/ CalmsDown

(* SRAPI020Safety.c:220, "The last two messages were sequential (no lost   *)
(* message)", as far as the code keeps it: messages lost before the one    *)
(* that is trusted show, however many they are, unless the sender began    *)
(* its count anew with one of them (0 or 254): then the 1 that comes next, *)
(* or a later number, may be the one that the receiver expects.            *)
TrustedInSequence == receiver.valid => receiver.gap # "lost"

(* Whatever was lost, repeated, refused or reset, and wherever the two     *)
(* counts stand: once the bus is calm and the boards run, the receiver     *)
(* trusts the channel again, and for good.                                 *)
LinkRecovers == <>calm => <>[](receiver.valid)
================================================================================
