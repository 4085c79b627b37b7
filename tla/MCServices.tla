------------------------------ MODULE MCServices ------------------------------
(***************************************************************************)
(* The services around the motor control: the queues of the Reveal bus,    *)
(* the WIN data link below them, the safety channel above, the receiver of *)
(* the Master Commander, and the surge relay.  What the queues and the     *)
(* channel see of the layer below is open to them, so a behaviour follows  *)
(* one of the five, part, and the others stay as initialised.              *)
(***************************************************************************)
EXTENDS RevealQueue, WinBus, SafetyChannel, SerialRx, SurgeRelay

VARIABLE part

Parts == {"queue", "link", "channel", "receiver", "relay"}

servicesVars == <<part, queueVars, winVars, channelVars, serialVars, relayVars>>

AnAcu == {[cmd |-> TRUE, to |-> "acu"]}
ToItself == {[cmd |-> FALSE, to |-> "own"]}
FiveFrames == {<<0, 3>>, <<1, 3, 0>>, <<2, 2, 3, 1, 3>>, <<1, 2, 1>>, <<2, 0, 1>>}

ServicesTypeOK ==
    /\ RevealTypeOK /\ WinTypeOK /\ ChannelTypeOK
    /\ SerialTypeOK /\ RelayTypeOK

ServicesInit ==
    /\ part \in Parts
    /\ RevealInit /\ WinInit /\ ChannelInit
    /\ SerialInit /\ RelayInit

ServicesNext ==
    /\ UNCHANGED part
    /\ \/ part = "queue" /\ RevealNext
       \/ part = "link" /\ WinNext
       \/ part = "channel" /\ ChannelNext
       \/ part = "receiver" /\ SerialNext
       \/ part = "relay" /\ RelayNext
    /\ part # "queue" => UNCHANGED queueVars
    /\ part # "link" => UNCHANGED winVars
    /\ part # "channel" => UNCHANGED channelVars
    /\ part # "receiver" => UNCHANGED serialVars
    /\ part # "relay" => UNCHANGED relayVars

(* The main loop goes on: an operation that has begun is finished, and the *)
(* handler runs again as soon as the tasks have no more room to fill.  The *)
(* heartbeat's timer never stops.                                          *)
RevealFairness ==
    /\ WF_queueVars(part = "queue" /\ (NewReserves \/ NewAdvances \/ ScanHead \/ ScanCompares))
    /\ WF_queueVars(part = "queue" /\ (HandlerIncoming \/ HandlerOutgoing))
    /\ WF_queueVars(part = "queue" /\ HeartbeatInterrupt)

(* The 1 ms interrupt goes on: the bus is granted, the timers run out, and *)
(* the wire does not cut short every frame for ever.                       *)
WinFairness ==
    \A n \in Talkers :
        /\ WF_winVars(part = "link" /\ WinGrant(n))
        /\ SF_winVars(part = "link" /\ WholeFrame(n))
        /\ WF_winVars(part = "link" /\ HoldingEnds(n))

(* Both boards' main loops go round, and the bus delivers or gives up.     *)
ChannelFairness ==
    /\ WF_channelVars(part = "channel" /\ SlowCall)
    /\ WF_channelVars(part = "channel" /\ Deliver)

RelayFairness == WF_relayVars(part = "relay" /\ RelayHandler)

ServicesSpec ==
    /\ ServicesInit /\ [][ServicesNext]_servicesVars
    /\ RevealFairness /\ WinFairness /\ ChannelFairness /\ RelayFairness
================================================================================
