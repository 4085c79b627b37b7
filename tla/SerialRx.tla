-------------------------------- MODULE SerialRx --------------------------------
(***************************************************************************)
(* The receiver of the Master Commander (MasterCommander/Source/           *)
(* mc_serial.c, MC_Rx): it finds the messages of the host in a stream of   *)
(* bytes.  A message begins with a start of block; inside it a byte of     *)
(* this value is sent twice.  The receiver only keeps whether the last     *)
(* byte was the first of a pair, so every lost or stray byte turns what    *)
(* comes after it into something else, until it is in step again.          *)
(*                                                                         *)
(* A byte is a small number: as a command, those below Standard are fast   *)
(* commands with as many bytes of data.  The checksum is not computed.     *)
(*                                                                         *)
(* Every message is answered.  While the board answers, its poll takes no  *)
(* bytes from the UART (mc_serial.c:204), except those that came in one    *)
(* batch with the end of the message (238); and when the answer has been   *)
(* sent MC_Listen gives up what these had begun.  So bytes may come at any *)
(* time here, and the answer end at any time.  The host is the tool's      *)
(* master_commander.py, which waits for the answer before it sends again,  *)
(* but not for ever.                                                       *)
(***************************************************************************)
EXTENDS Naturals, Sequences

CONSTANTS
    Standard,        \* the command code that a length byte follows
    SOB,             \* MC_SOB
    MaxByte,         \* the largest byte
    CommBufferSize,  \* MC_COMM_BUFFER_SIZE
    Frames           \* the messages of the host: command, length if any, data
                     \*  and checksum

Bytes == 0..MaxByte

ASSUME SerialConstants ==
    /\ MaxByte \in Nat /\ SOB \in 0..MaxByte /\ Standard \in 0..(SOB - 1)
    /\ CommBufferSize \in 1..MaxByte
    /\ \A f \in Frames :
          /\ f \in Seq(Bytes) /\ Len(f) - 1 \in 1..CommBufferSize
          /\ \/ f[1] < Standard /\ Len(f) = f[1] + 2
             \/ f[1] = Standard /\ Len(f) = f[2] + 3

VARIABLES
    link,   \* [last |-> bRxLastCharSOB, length |-> bRxMsgLengthNext,
            \*  todo |-> pcm_nRxTodo, buff |-> what pcm_pCommBuffer holds below
            \*  pcm_pRxBuff, over |-> pcm_pRxBuff is NULL, answering |->
            \*  bTxActive]
    line,   \* [frame: the message that the host sends; sent: how many bytes of
            \*  it have come; next: whether the wire has its start, a byte or
            \*  the second of a pair next; whole: a whole message came last
            \*  and, once the next has begun, no answer was being sent then]
    heard   \* the message that the last byte has completed, or nothing

serialVars == <<link, line, heard>>

Quiet ==
    [last |-> FALSE, length |-> FALSE, todo |-> 0, buff |-> <<>>, over |-> FALSE,
     answering |-> FALSE]

SerialTypeOK ==
    /\ link \in [last : BOOLEAN, length : BOOLEAN, todo : 0..MaxByte,
                 buff : Seq(Bytes), over : BOOLEAN, answering : BOOLEAN]
    /\ Len(link.buff) <= CommBufferSize
    /\ line \in [frame : Frames \cup {<<>>}, sent : Nat, next : {"start", "byte", "twin"},
                 whole : BOOLEAN]
    /\ line.sent <= Len(line.frame)
    /\ heard # <<>> => Len(heard) <= CommBufferSize

(* MC_InitSerial.                                                          *)
SerialInit ==
    /\ link = Quiet
    /\ line = [frame |-> <<>>, sent |-> 0, next |-> "start", whole |-> FALSE]
    /\ heard = <<>>
--------------------------------------------------------------------------------
(* MC_Rx.                                                                  *)

\* The first byte of a pair, or a start of block.
Pairs(b, r) == b = SOB /\ ~r.last

\* The command code: whatever was being received is given up.
Command(b, r) ==
    [r EXCEPT !.last = FALSE, !.length = b >= Standard,
              !.todo = IF b < Standard THEN b + 1 ELSE 0, !.buff = <<b>>, !.over = FALSE]

\* Faulty variant: one byte past the end of the buffer.
BadRoom(b, r) ==
    IF r.over THEN r
    ELSE IF Len(r.buff) <= CommBufferSize THEN [r EXCEPT !.buff = Append(@, b)]
    ELSE [r EXCEPT !.over = TRUE]

\* Room for one more byte; without it the rest is thrown away.
Room(b, r) ==
    IF r.over THEN r
    ELSE IF Len(r.buff) < CommBufferSize THEN [r EXCEPT !.buff = Append(@, b)]
    ELSE [r EXCEPT !.over = TRUE]

\* How many bytes are owed, this one among them: a length byte says how many
\* come after it, and the sum is kept in a byte.
Owed(b, r) == IF r.length THEN (b + 2) % (MaxByte + 1) ELSE r.todo

\* A length byte, a byte of data or the checksum, which is not kept.
Content(b, r) ==
    LET n == Owed(b, r)
        s == [r EXCEPT !.length = FALSE, !.todo = IF n = 0 THEN 0 ELSE n - 1]
    IN  IF n > 1 THEN Room(b, s) ELSE s

\* Faulty variant: the second byte of a pair is taken for a start as well.
BadReceived(b, r) ==
    IF b = SOB THEN [r EXCEPT !.last = TRUE]
    ELSE IF r.last THEN Command(b, r)
    ELSE Content(b, r)

Received(b, r) ==
    IF Pairs(b, r) THEN [r EXCEPT !.last = TRUE]
    ELSE IF r.last /\ b # SOB THEN Command(b, r)
    ELSE Content(b, [r EXCEPT !.last = FALSE])

Completes(b, r) == (r.last <=> b = SOB) /\ Owed(b, r) = 1

\* A byte: the last of a message begins an answer, and when the message had
\* room the decoder gets what was kept.
Takes(b) ==
    LET r == Received(b, link)
    IN  /\ link' = [r EXCEPT !.answering = @ \/ Completes(b, link)]
        /\ heard' = IF Completes(b, link) /\ ~r.over THEN r.buff ELSE <<>>

\* MC_Listen, after the last byte of the answer.
AnswerSent ==
    /\ link.answering
    /\ link' = [link EXCEPT !.answering = FALSE, !.todo = 0]
    /\ heard' = <<>>
    /\ UNCHANGED line
--------------------------------------------------------------------------------
(* The host and the wire.                                                  *)

Sending == line.sent < Len(line.frame)

\* A byte that does not belong to a whole message: noise, or what is left of
\* a message that the wire has broken.
StrayByte ==
    /\ ~Sending
    /\ \E b \in Bytes : Takes(b)
    /\ line' = [line EXCEPT !.whole = FALSE]

\* The host sends a message.  It has had its answer, or been told of an error,
\* or waited in vain, or it does not know of an answer that noise has caused.
HostSends ==
    /\ ~Sending
    /\ \E f \in Frames :
          line' = [line EXCEPT !.frame = f, !.sent = 0, !.next = "start",
                               !.whole = @ /\ ~link.answering]
    /\ heard' = <<>>
    /\ UNCHANGED link

\* A byte of the message, or the first of the two that stand for it.
Due == IF line.next = "start" THEN SOB ELSE line.frame[line.sent + 1]
Doubled == line.next = "byte" /\ Due = SOB

WireDelivers ==
    /\ Sending
    /\ Takes(Due)
    /\ IF line.next = "start" \/ Doubled
       THEN line' = [line EXCEPT !.next = IF Doubled THEN "twin" ELSE "byte"]
       ELSE line' = [line EXCEPT !.sent = @ + 1, !.next = "byte",
                                 !.whole = @ \/ line.sent + 1 = Len(line.frame)]

SerialNext ==
    \/ StrayByte
    \/ HostSends
    \/ WireDelivers
    \/ AnswerSent

SerialSpec == SerialInit /\ [][SerialNext]_serialVars
--------------------------------------------------------------------------------
(* However the stream was garbled, one whole message brings the receiver   *)
(* into step: the next one is decoded, byte for byte and in time, whatever *)
(* of its bytes look like a start, provided that no answer is under way    *)
(* when it begins, as the one who waits for the answer can rely on.        *)
BackInStep ==
    [][line.whole /\ Sending /\ line'.sent = Len(line.frame) =>
          heard' = SubSeq(line.frame, 1, Len(line.frame) - 1)]_serialVars
================================================================================
