-------------------------------- MODULE Recorder --------------------------------
(***************************************************************************)
(* The recorder of the Master Commander (MasterCommander/Source/mc_rec.c): *)
(* a circular buffer of samples of some variables, taken by MC_Recorder in *)
(* the PWM interrupt until the post-trigger samples are counted down.  The *)
(* host's commands are executed by MC_Poll in the 250 us interrupt, which  *)
(* the PWM interrupt preempts, so the loads and stores of MC_StopRec on a  *)
(* running recorder are steps (listings/mc_rec.lst).  The other commands   *)
(* only touch a recorder that is not running, or stop it with one store.   *)
(*                                                                         *)
(* A sample is one set of the recorded variables.  Instead of its values   *)
(* the buffer holds its age, in samples taken since.                       *)
(***************************************************************************)
EXTENDS Naturals

CONSTANTS
    RecBuffSize,  \* MC_REC_BUFF_SIZE
    Setups        \* what the host may ask for: [total, bytes, post, div, edge]:
                  \*  pcm_wRecTotalSmps, the size of a sample (0 for a list of
                  \*  variables that is refused), pcm_wRecPostTrigger,
                  \*  pcm_wRecTimeDiv, and whether a trigger mode is set

ASSUME RecorderConstants ==
    /\ RecBuffSize \in Nat \ {0}
    /\ Setups \subseteq [total : Nat, bytes : Nat, post : Nat, div : Nat, edge : BOOLEAN]

VARIABLES
    rec,    \* [configured, running, stopping, virgin, crossed: pcm_wRecFlags,
            \*  ptr: pcm_dwRecWritePtr in samples, start: pcm_wRecBuffStartIx,
            \*  div: pcm_wRecTimeDivCtr, count: pcm_wStoprecCountDown]
    setup,  \* the member of Setups that was asked for last
    buff,   \* the age of the sample at each place of the recorder buffer
    stop,   \* [pc, flags]: where MC_StopRec is, and the word it has loaded
    story   \* history: [cause of the countdown, samples taken after it]

recVars == <<rec, setup, buff, stop, story>>

Places == 0..(RecBuffSize - 1)
TooOld == RecBuffSize
Fits(s) == s.bytes > 0 /\ s.total * s.bytes <= RecBuffSize

\* The flags of the word that MC_StopRec writes back.
Loaded(r) == [running |-> r.running, virgin |-> r.virgin, crossed |-> r.crossed]
NoSetup == [total |-> 0, bytes |-> 0, post |-> 0, div |-> 0, edge |-> FALSE]
NoFlags == [running |-> FALSE, virgin |-> FALSE, crossed |-> FALSE]

Unconfigured(r) ==
    [r EXCEPT !.configured = FALSE, !.running = FALSE, !.stopping = FALSE, !.virgin = FALSE,
              !.crossed = FALSE]

RecTypeOK ==
    /\ rec \in [configured : BOOLEAN, running : BOOLEAN, stopping : BOOLEAN, virgin : BOOLEAN,
                crossed : BOOLEAN, ptr : Nat, start : Nat, div : Nat, count : Nat]
    /\ setup \in Setups \cup {NoSetup}
    /\ rec.ptr \in Places /\ rec.start \in Places
    /\ buff \in [Places -> 0..TooOld]
    /\ stop \in [pc : {"free", "testing", "loading", "setting", "counting"},
                 flags : [running : BOOLEAN, virgin : BOOLEAN, crossed : BOOLEAN]]
    /\ story \in [cause : {"unused", "none", "edge", "host"}, after : Nat]

(* MC_InitRec and the zeroes of the C start-up.                            *)
RecInit ==
    /\ rec = [configured |-> FALSE, running |-> FALSE, stopping |-> FALSE, virgin |-> FALSE,
              crossed |-> FALSE, ptr |-> 0, start |-> 0, div |-> 0, count |-> 0]
    /\ setup = NoSetup
    /\ buff = [i \in Places |-> TooOld]
    /\ stop = [pc |-> "free", flags |-> NoFlags]
    /\ story = [cause |-> "unused", after |-> 0]
--------------------------------------------------------------------------------
(* The commands of the host, one at a time.                                *)

\* MC_SetUpRec: whatever was going on is aborted first.
SetUpRec(s) ==
    /\ stop.pc = "free"
    /\ setup' = s
    /\ rec' = [Unconfigured(rec) EXCEPT !.configured = Fits(s)]
    /\ story' = [cause |-> "unused", after |-> 0]
    /\ UNCHANGED <<buff, stop>>

\* MC_StartRec.
StartRec ==
    /\ stop.pc = "free"
    /\ rec.configured /\ ~rec.running
    /\ rec' = [rec EXCEPT !.ptr = 0, !.start = 0, !.div = 0, !.stopping = FALSE,
                          !.crossed = FALSE, !.virgin = TRUE, !.running = TRUE]
    /\ buff' = [i \in Places |-> TooOld]
    /\ story' = [cause |-> "none", after |-> 0]
    /\ UNCHANGED <<setup, stop>>

\* MC_StopRec of a recorder that is configured and running.
StopRec ==
    /\ stop.pc = "free"
    /\ rec.configured /\ rec.running
    /\ stop' = [stop EXCEPT !.pc = "testing"]
    /\ UNCHANGED <<rec, setup, buff, story>>

\* Faulty variant: MC_TriggerRec starts a countdown that has begun again.
BadStopTests ==
    /\ stop.pc = "testing"
    /\ stop' = [stop EXCEPT !.pc = "loading"]
    /\ UNCHANGED <<rec, setup, buff, story>>

\* MC_TriggerRec, called by it: a countdown that has begun goes on.
StopTests ==
    /\ stop.pc = "testing"
    /\ stop' = [stop EXCEPT !.pc = IF rec.stopping THEN "free" ELSE "loading"]
    /\ UNCHANGED <<rec, setup, buff, story>>

\* bIsStopping is set by a load and a store of the word of the flags.
StopLoads ==
    /\ stop.pc = "loading"
    /\ stop' = [pc |-> "setting", flags |-> Loaded(rec)]
    /\ UNCHANGED <<rec, setup, buff, story>>

StopSets ==
    /\ stop.pc = "setting"
    /\ rec' = [rec EXCEPT !.running = stop.flags.running, !.virgin = stop.flags.virgin,
                          !.crossed = stop.flags.crossed, !.stopping = TRUE]
    /\ stop' = [pc |-> "counting", flags |-> NoFlags]
    /\ story' = [cause |-> "host", after |-> 0]
    /\ UNCHANGED <<setup, buff>>

\* The countdown is stored last.
StopCounts ==
    /\ stop.pc = "counting"
    /\ rec' = [rec EXCEPT !.count = setup.post]
    /\ stop' = [stop EXCEPT !.pc = "free"]
    /\ UNCHANGED <<setup, buff, story>>
--------------------------------------------------------------------------------
(* MC_Recorder and MC_Recorder2, in the PWM interrupt.                     *)

\* Faulty variant: the place after the last one is used too.
BadWraps(r) == r.ptr + 1 > setup.total

\* The write pointer has come to the end of the active buffer.
Wraps(r) == r.ptr + 1 >= setup.total

\* The index of the oldest sample goes with the write pointer.
Stored(r) ==
    [r EXCEPT !.ptr = IF Wraps(r) THEN 0 ELSE @ + 1,
              !.start = IF Wraps(r) THEN 0 ELSE @ + 1,
              !.virgin = @ /\ ~Wraps(r),
              !.div = setup.div]

Older(i) == IF buff[i] < TooOld THEN buff[i] + 1 ELSE TooOld

\* The edge: the variable is beyond the threshold and has been on this side
\* of it since the buffer was full.
Edge(r, beyond) == setup.edge /\ ~r.stopping /\ beyond /\ r.crossed

Triggered(r, beyond) ==
    IF Edge(r, beyond) THEN [r EXCEPT !.stopping = TRUE, !.count = setup.post]
    ELSE [r EXCEPT !.crossed = @ \/ (setup.edge /\ ~r.stopping /\ ~beyond)]

\* Faulty variant: the countdown is decremented before it is tested.
BadCounted(r) ==
    IF ~r.stopping THEN r
    ELSE IF r.count <= 1 THEN [r EXCEPT !.count = 0, !.running = FALSE]
    ELSE [r EXCEPT !.count = @ - 1]

\* The post-trigger samples are counted down; the recorder stops at zero.
Counted(r) ==
    IF ~r.stopping THEN r
    ELSE IF r.count = 0 THEN [r EXCEPT !.running = FALSE]
    ELSE [r EXCEPT !.count = @ - 1]

\* A call that is skipped by the time divisor.
Skip ==
    /\ rec.running /\ rec.div > 0
    /\ rec' = [rec EXCEPT !.div = @ - 1]
    /\ UNCHANGED <<setup, buff, stop, story>>

\* One that takes a sample; there is no trigger before the buffer is full.
Sample(beyond) ==
    /\ rec.running /\ rec.div = 0
    /\ buff' = [i \in Places |-> IF i = rec.ptr THEN 0 ELSE Older(i)]
    /\ LET r == Stored(rec)
           tested == ~r.virgin
       IN  /\ rec' = IF tested THEN Counted(Triggered(r, beyond)) ELSE r
           /\ story' = IF tested /\ Edge(r, beyond) THEN [cause |-> "edge", after |-> 0]
                       ELSE [story EXCEPT !.after = IF r.stopping THEN @ + 1 ELSE @]
    /\ UNCHANGED <<setup, stop>>

PwmRecorder == Skip \/ \E beyond \in BOOLEAN : Sample(beyond)
--------------------------------------------------------------------------------
RecNext ==
    \/ \E s \in Setups : SetUpRec(s)
    \/ StartRec
    \/ StopRec \/ StopTests \/ StopLoads \/ StopSets \/ StopCounts
    \/ PwmRecorder

RecSpec == RecInit /\ [][RecNext]_recVars
--------------------------------------------------------------------------------
\* MC_GetRecBuff (mc_rec.c:663) tells the host where the recording starts.
Readable == stop.pc = "free" /\ rec.configured /\ ~rec.running /\ story.cause # "unused"

(* The recording that the host reads is complete and begins at the index   *)
(* it is told (mc_rec.c:808, "it points to the oldest sample"): going      *)
(* round from there every sample is the one taken next, even when MC_StopRec *)
(* has written an old word of flags back over the interrupt's.             *)
OldestFirst ==
    Readable =>
        \A i \in 0..(setup.total - 1) :
            buff[(rec.start + i) % setup.total] = setup.total - 1 - i

(* A recording that its trigger has ended holds as many samples after it   *)
(* as the host has asked for; one that MC_StopRec has ended may have less, *)
(* because the interrupt can find the flag set and the countdown not yet.  *)
PostTriggerKept == Readable /\ story.cause = "edge" => story.after = setup.post

(* A recorder that the host stops does stop, however often it is told to,  *)
(* and even if the end of its first round is written back as not come.     *)
RecorderStops == stop.pc # "free" ~> ~rec.running
================================================================================
