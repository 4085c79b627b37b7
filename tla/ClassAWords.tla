------------------------------ MODULE ClassAWords ------------------------------
(***************************************************************************)
(* Mci_Flow_Control and Mci_Error at the grain of loads and stores.  The   *)
(* commands of Mci.c and its 5 ms handler run in the main loop and change  *)
(* the two words without protection, while Mci__PwmHandler, the operator   *)
(* of Mci, interrupts them anywhere and changes them too.                  *)
(*                                                                         *)
(* A command is the list of its accesses to Mci_Flow_Control and           *)
(* Mci_Control_State in the order of the build (listings/Mci.lst), which   *)
(* is not that of the source: what the source reads twice is often loaded  *)
(* once.  The parameters are loaded and the initialisation is over.  Of    *)
(* class B only what class A asks of it is kept, and it goes on in the     *)
(* main loop's slots only, so never inside a command.                      *)
(***************************************************************************)
EXTENDS Mci, Sequences

VARIABLES
    ctl,     \* the variables of Mci.c
    call,    \* [cmd, ops, tests, word]: what the main loop is executing, what
             \*  is left of it, and the word it has loaded
    classB,  \* class B: "idle", "busy", or "granted" its inverter to class A
    asked,   \* history: the requests that were accepted, and neither cleared
             \*  by the interrupt nor forgotten by a stop since
    stopped  \* history: no request was accepted since the last Mci__Stop

classAWordVars == <<ctl, call, classB, asked, stopped>>

ClassACommands == {"run", "fvt", "manual", "stop", "fvtstop"}
MainErrors == {"MCL"}   \* stands for all the errors of the 5 ms handler

NoCall == [cmd |-> "none", ops |-> <<>>, tests |-> <<>>, word |-> {}]

ClassAWordsTypeOK ==
    /\ ctl \in MciType
    /\ call.cmd \in ClassACommands \cup {"none", "errors"}
    /\ Len(call.ops) <= 5 /\ Len(call.tests) <= 1
    /\ call.word \subseteq MciFlows \/ call.word \subseteq MciErrors
    /\ classB \in {"idle", "busy", "granted"}
    /\ asked \subseteq {"REQUESTED_START", "REQUESTED_MANUAL", "REQUESTED_FVT_MODE"}
    /\ stopped \in BOOLEAN

ClassAWordsInit ==
    /\ ctl = [MciInit EXCEPT !.st = "IDLE", !.errors = {}, !.loaded = TRUE, !.params = TRUE]
    /\ call = NoCall
    /\ classB = "idle"
    /\ asked = {}
    /\ stopped = TRUE
--------------------------------------------------------------------------------
(* The commands.                                                           *)

Request(cmd) ==
    IF cmd = "run" THEN "REQUESTED_START"
    ELSE IF cmd = "fvt" THEN "REQUESTED_FVT_MODE"
    ELSE IF cmd = "manual" THEN "REQUESTED_MANUAL"
    ELSE "REQUESTED_STOP"

\* The states in which a command changes the word.
TakenIn(cmd) ==
    IF cmd \in {"run", "fvt"} THEN {"IDLE"}
    ELSE IF cmd = "manual" THEN {"IDLE", "MANUAL_CONTROL"}
    ELSE IF cmd = "stop" THEN {"RUNNING", "STARTING", "CLASS_B_STARTING", "MANUAL_CONTROL"}
    ELSE {"FVT_MODE", "STARTING", "CLASS_B_STARTING"}

\* Faulty variant: the comparisons of Mci__Stop each load the state, as they
\* are written.
BadStateTests(cmd) ==
    IF cmd = "stop" THEN <<{"RUNNING"}, {"STARTING"}, {"CLASS_B_STARTING"}, {"MANUAL_CONTROL"}>>
    ELSE <<TakenIn(cmd)>>

\* The loads of the state, each with the states it is compared with.
StateTests(cmd) == <<TakenIn(cmd)>>

\* Faulty variant: MclFvt__Entry is inlined, and the word not loaded again.
BadAccesses(cmd) ==
    IF cmd \in {"run", "fvt"} THEN <<"flow", "state", "store">>
    ELSE IF cmd = "manual" THEN <<"flow", "state", "load", "store">>
    ELSE IF cmd = "stop" THEN <<"load", "clear", "state", "load", "store">>
    ELSE <<"state", "load", "store">>

\* Mci__Run stores the word that it has loaded before the state.
Accesses(cmd) ==
    IF cmd = "run" THEN <<"flow", "state", "store">>
    ELSE IF cmd \in {"fvt", "manual"} THEN <<"flow", "state", "load", "store">>
    ELSE IF cmd = "stop" THEN <<"load", "clear", "state", "load", "store">>
    ELSE <<"state", "load", "store">>

Calls(cmd) ==
    /\ call = NoCall
    /\ call' = [cmd |-> cmd, ops |-> Accesses(cmd), tests |-> StateTests(cmd), word |-> {}]
    /\ UNCHANGED <<ctl, classB, asked, stopped>>

Due(op) == call.ops # <<>> /\ Head(call.ops) = op
Stepped(word) == [call EXCEPT !.ops = Tail(@), !.word = word]

\* A command ends; a stop that has ended calls off what was asked for.
Returns ==
    /\ call' = NoCall
    /\ stopped' = (stopped \/ call.cmd = "stop")

\* The word is loaded and tested: a start is refused during a stop.
FlowLoaded ==
    /\ Due("flow")
    /\ IF "REQUESTED_STOP" \in ctl.flow THEN Returns
       ELSE call' = Stepped(ctl.flow) /\ UNCHANGED stopped
    /\ UNCHANGED <<ctl, classB, asked>>

StateLoaded ==
    /\ Due("state")
    /\ IF ctl.st \in Head(call.tests) THEN call' = Stepped(call.word) /\ UNCHANGED stopped
       ELSE IF Len(call.tests) > 1 THEN call' = [call EXCEPT !.tests = Tail(@)] /\ UNCHANGED stopped
       ELSE Returns
    /\ UNCHANGED <<ctl, classB, asked>>

WordLoaded ==
    /\ Due("load")
    /\ call' = Stepped(ctl.flow)
    /\ UNCHANGED <<ctl, classB, asked, stopped>>

\* Mci__Stop forgets a run; the word it has stored is tested.
RunForgotten ==
    /\ Due("clear")
    /\ ctl' = [ctl EXCEPT !.flow = call.word \ {"REQUESTED_START"}]
    /\ asked' = asked \ {"REQUESTED_START"}
    /\ IF "REQUESTED_STOP" \in call.word THEN Returns
       ELSE call' = Stepped(call.word) /\ UNCHANGED stopped
    /\ UNCHANGED classB

\* What a command leaves of the other requests.
Kept ==
    IF call.cmd = "fvtstop" THEN call.word \ {"REQUESTED_START", "REQUESTED_FVT_MODE"}
    ELSE call.word

WordStored ==
    /\ Due("store")
    /\ ctl' = [ctl EXCEPT !.flow = Kept \cup {Request(call.cmd)}]
    /\ \/ /\ call.cmd \in {"stop", "fvtstop"}
          /\ asked' = asked \cap Kept
          /\ Returns
       \/ /\ call.cmd \in {"run", "fvt", "manual"}
          /\ asked' = asked \cup {Request(call.cmd)}
          /\ call' = NoCall
          /\ stopped' = FALSE
    /\ UNCHANGED classB
--------------------------------------------------------------------------------
(* The rest of the main loop.                                              *)

\* Check_Errors_5ms_Handler: its bits are loaded and stored one by one.
ErrorLoaded ==
    /\ call = NoCall
    /\ call' = [NoCall EXCEPT !.cmd = "errors", !.word = ctl.errors]
    /\ UNCHANGED <<ctl, classB, asked, stopped>>

ErrorStored ==
    /\ call.cmd = "errors"
    /\ \E found \in SUBSET MainErrors :
          ctl' = [ctl EXCEPT !.errors = (call.word \ MainErrors) \cup found]
    /\ call' = NoCall
    /\ UNCHANGED <<classB, asked, stopped>>

\* A slot of class B: tests end, a start is granted, faults come and go.
ClassBSlot ==
    /\ call = NoCall
    /\ classB' \in {"idle", "busy"} \cup (IF classB = "busy" THEN {"granted"} ELSE {})
    /\ UNCHANGED <<ctl, call, asked, stopped>>
--------------------------------------------------------------------------------
\* What class B makes of a request, at once: a start ends its idling, a stop
\* and its own faults end the access.
ClassBAnswer(req, access) ==
    IF req = "start" /\ classB = "idle" THEN "busy"
    ELSE IF classB = "granted" /\ (req = "stop" \/ ~access) THEN "busy"
    ELSE classB

PwmInterrupt ==
    \E over, done \in BOOLEAN, access \in {FALSE, classB = "granted"} :
        LET a == MciPwmHandler(ctl, classB = "idle", access, over, done, "duty")
        IN  /\ ctl' = a.mci
            /\ classB' = ClassBAnswer(a.req, access)
            /\ asked' = asked \ (ctl.flow \ a.mci.flow)
            /\ UNCHANGED <<call, stopped>>

ClassAWordsNext ==
    \/ \E cmd \in ClassACommands : Calls(cmd)
    \/ FlowLoaded \/ StateLoaded \/ WordLoaded \/ RunForgotten \/ WordStored
    \/ ErrorLoaded \/ ErrorStored
    \/ ClassBSlot
    \/ PwmInterrupt

ClassAWordsSpec == ClassAWordsInit /\ [][ClassAWordsNext]_classAWordVars
--------------------------------------------------------------------------------
(* Wherever the interrupt falls into Mci__Stop ("always accepted",         *)
(* Mci.c:1287), class A does not run on once it has returned: either the   *)
(* stop is still requested, or the run has ended, or never begins.  A      *)
(* start of another kind, which Mci__Stop does not forget, may.            *)
StopTakesHold ==
    stopped /\ "REQUESTED_STOP" \notin ctl.flow =>
        /\ ctl.st \notin {"STARTING", "RUNNING"}
        /\ ctl.st = "CLASS_B_STARTING" =>
              ctl.flow \cap {"REQUESTED_FVT_MODE", "REQUESTED_MANUAL"} # {}

(* The control algorithm starts only for a run that was accepted and not   *)
(* cleared since: no late store of the main loop brings back a request     *)
(* that the interrupt has served, or dropped with a failure.               *)
StartOnlyAsked ==
    [][ctl.st = "CLASS_B_STARTING" /\ ctl'.st = "STARTING"
         => "REQUESTED_START" \in asked]_classAWordVars

(* Mci.c:480, "MCI_CLASS_B_STARTING --> MCI_MANUAL_CONTROL : [User         *)
(* requested to manual control]": the same of the manual injection.        *)
ManualOnlyAsked ==
    [][ctl.st = "CLASS_B_STARTING" /\ ctl'.st = "MANUAL_CONTROL"
         => "REQUESTED_MANUAL" \in asked]_classAWordVars
================================================================================
