# Verification of the motor controller firmware

TLA+ specifications of the firmware under `src/source`: a controller for one
three-phase motor in a household appliance, with a safety part (class B) that owns
the inverter, a control part (class A) that drives it, and a host tool that
commissions the control loops over a serial line. The specifications are checked
by TLC on small instances and proved in part, for all values of their constants,
with TLAPS.

Paths below are relative to `src/source/XCategory` unless they start with
`source/`. `PROJECT.json` maps every definition to the lines it models.

## 1. The system

### Contexts and scheduling

* **PWM interrupt** (`MCPwm`, priority 0, 16 kHz): class B's
  `SRMotorSafetyMgr__MCPwmHandler`, which ends by calling class A's
  `Mci__PwmHandler`. It preempts everything.
* **250 us interrupt** (SysTick, priority 1): current plausibility checks. It is
  preempted by the PWM interrupt.
* **Main loop** (`Common/SRMain/SRMain.c`): a slot every 5 ms, five slots to a
  25 ms round. In each slot it runs, in this order, class B's
  `SRMotorSafetyMgr__Handler5ms`, the class B task of that slot (slot 2:
  `SRMotorSafetyMgr__SlowHandler`), class A's `Mci__5msHandler` and
  `Reveal__Handler`, and the class A task of that slot (slot 0:
  `MciParametersLoader__25msHandler`, slot 1: `Mci__25msHandler`, whose callback
  is `SelfCommissioning__25msHandler`). A late slot is made up for at once. The
  watchdog (about 100 ms) resets a controller whose loop stands.

The contexts share plain variables. Nothing is locked, apart from short
interrupt-free stretches in some drivers; class B stores each variable with its
complement and resets the controller when the two differ.

### Components

| Component | State | Operations | What makes it correct |
|---|---|---|---|
| Motor safety manager, `Hbl/SRMotorSafetyMgr` | one of eight states, the fault word, the flag word, retry time, debouncers, gate pattern | PWM, 250 us, 5 ms and 25 ms handlers; `Prepare2StartMotor`, `ForceStop`, `SetParams`, `UpdatePwm`, `ConfigPwmPattern` | the motor runs only after this start's tests; the door is released only for a motor shown to be at rest; never both; faults end in a safe output and are retried; no test lasts for ever |
| PWM driver, `Driver/SRMCPwm` | diagnostic state, sample counters, delays, error bits, comparator threshold, fault latch | diagnostic handler, enable, feedback, hardware-fault report, gate patterns | SAFE means tested; the protection is armed afterwards; a test ends |
| AtoD driver, `Driver/SRMCAtod` | diagnostic state, result | diagnostic handler, enable, feedback | a test covers all phases and ends |
| Motor control interface, `Hbl/Mci/Mci.c` | one of ten states, request flags, error word, timers | PWM and 5 ms handlers; `Run`, `Stop`, `FvtStart`, `FvtStop`, `Manual_Injection`, `SetParams` | a start only for a command not stopped since; starts and stops end; IDLE means the motor is released |
| Self commissioning, `source/Category/Common/SelfCommissioning` | injection flag and its old value, pending command | 25 ms handler; what the tool writes | a pending run is served; flags and commands do not get out of step |
| Parameters loader, `Application/MciParametersLoader` | programming state | 25 ms handler | both classes get their parameters, and not during initialisation |
| Reveal motor control API, `Application/Reveal_APIs/API220MotorControl` | last commands, publish timers | one op-code per message | commands reach `Mci` in order |
| Motor control library, `Hbl/Mci/Mcl`, with `SpeedRefGen`, `MclFvt` | control loops, ramp, test sequence | called from `Mci` | ramp limits; the test ends |
| Surge relay, `Hbl/Mci/SurgeRelay` | one of four states, the bus voltage before | 25 ms handler; `Action`, `IsBusReady` | a bus that is up and steady closes the relay in the end; no motor starts before |
| Safety channel, `Application/Reveal_APIs/SRAPI020Safety` with `Common/SRMcuSpeedMonitor` | message counts, times and validity of each direction | `SetTxValue`, `GetRxValue`, `FeedbackParser`; slow handler | only an unbroken sequence is trusted; a broken one is mended |
| Main loop, `Common/SRMain`, with `SRPowerMgr`, `SRFlow`, `SRIsrMonitor`, `SystemTimers` | slot, timer difference, power state, counters | the loop | each task at its rate; catch-up; the monitors see a lost task |
| Setting file, `Common/SettingFile`, `Application/SFUpdater`, `Application/Mode` | flash image, update state | load, update, engage | an interrupted update leaves a valid file |
| Master Commander, `source/Category/Common/MasterCommander` | receive buffer, framing, recorder | receiver; `MC_SetUpRec`, `StartRec`, `StopRec`; `MC_Recorder` in the PWM interrupt | the receiver gets back in step; a recording is whole, in order and stops |
| WIN bus, `Service/Win` | one transmit and one receive buffer, retry and collision counters, message counters | 1 ms interrupt; `QueueMessage`, `GetIncomingMessage` | nothing is parsed twice or thrown away as known; the buffer is freed |
| Reveal bus, `Service/Reveal` | two rings of messages, acknowledgements, retry and time-out | 5 ms handler, 1 ms interrupt; `NewFeedback`, `PriorityNewFeedback`, `QueueCommand` | messages of tasks are not written over; every message is sent or dropped; the rings keep their shape |
| Class B monitors (clock, speed, memory, CPU), `SRData`, `SRException` | counters, complements | self tests | a failure resets |
| Host tool, `src/self_commissioning_python` | where its script is; one message under way | writes of the commissioning variables; a message, framed, and its answer | it waits for an answer before it sends again; what it starts the board can end |
| Drivers, utilities | registers, buffers | | |

### Interactions

Class A never calls into class B's state machine directly. It sets a request
flag (`REQUESTED_TO_START`, `REQUESTED_TO_STOP`), watches the access flag and the
state, and writes duties through functions that look at the access flag. Class B
takes the request in its next 5 ms slot; the PWM interrupt gives and takes
access. The results of the self tests go the other way, from the interrupt to the
slot, through flags. Commands go to `Mci` by function call from the Reveal bus
and from the self commissioning handler, in the main loop, and become request
flags that its interrupt part takes. Parameters go to both classes when they ask.

### What is hard

The hand-overs. Each pair of state machines exchanges flags at its own pace, some
of them survive a change of state, several faults share one retry time, and the
fault latch is deliberately silent while a test trips it. `PROJECT.json` lists
each hazard at its line, with the properties that watch it. In short: results of
an interrupted test taken for those of the next; the door's announcement left
standing from before a start; the access flag outliving the RUNNING state by one
interrupt; a pending door check taken up after another run; a start and a stop
crossing each other; commands that outlive a stop or a failure; handlers that
wait for a test that never answers; the wait for one fault overwritten by
another; words changed by read-modify-write in three contexts; a comparator left
tripped by a test that failed. Around the motor control: a ring that an interrupt
fills while the main loop does, with empty protection macros; repetitions told
from new messages by a counter that goes round; sequences of messages that must
not look whole when one is missing; a recorder stopped by one interrupt while
another runs it; a receiver without a time-out on a line with noise, whose own answers
give up what had come meanwhile; a message that the link refuses after the queue has
already dropped it.

## 2. The modules

| Module | Models | Extends or uses |
|---|---|---|
| `SRMCPwmDiag` | the shut-down self test, as operators on a record of its variables | |
| `SRMCAtodDiag` | the converter self test, likewise | |
| `PwmSelfTest` | the shut-down test as a component of its own, any caller, any fault input | `SRMCPwmDiag` |
| `MotorPermit` | abstract: who may drive, when the door is released | |
| `PriorityLine` | abstract: the priority queue as a line of messages, and what a report to the board itself may cost it | |
| `SafetyMgr` | the motor safety manager with both self tests | both of them; `MotorPermit` by `INSTANCE ... WITH` |
| `Mci` | class A's state machine, as operators on the record of its variables | |
| `MotorControl` | the composition: class B, class A inside its interrupt, loader, Reveal, tool | `SafetyMgr`, `Mci` |
| `SharedWords` | `SR_Motor_Flags` and `SR_Motor_Fault` at the grain of loads and stores | `MotorPermit` by `INSTANCE ... WITH` |
| `ClassAWords` | `Mci_Flow_Control` and `Mci_Error` at that grain, interrupted by class A's whole PWM handler | `Mci` |
| `RevealQueue` | both rings of the Reveal bus, its handler, the heartbeat in the timer interrupt | `PriorityLine` by `INSTANCE ... WITH` |
| `WinBus` | the WIN data link: several boards on one wire, a frame at a time | |
| `SafetyChannel` | the numbered safety messages from a sender to a receiver | |
| `Recorder` | the Master Commander's recorder against its interrupt | |
| `SerialRx` | the Master Commander's receiver on a stream of bytes | |
| `SurgeRelay` | the surge relay on a bus that moves | |
| `MCSafetyMgr`, `MCMotorControl` | instances for TLC | `SafetyMgr`, `MotorControl` |
| `MCSafetyBench` | the safety manager on failing hardware and, as a second instance, under all inputs | `SafetyMgr`, extended and once more as an instance with other constants |
| `MCSafetyRepair` | the safety manager on hardware that is faulty until it is repaired | `SafetyMgr`, extended and once more as an instance without failures |
| `MCPwmInterrupt` | the self test, the words of class B and those of class A, and the recorder, in one instance | `PwmSelfTest`, `SharedWords`, `ClassAWords`, `Recorder` |
| `MCServices` | the queues, the link, the safety channel, the receiver and the relay in one instance | those five modules |
| `MCRevealQueue` | the queues by themselves, with messages that stay incomplete for longer, and reports to the board itself in both | `RevealQueue` |
| `SRMCPwmDiagProofs`, `MciProofs` | lemmas on the operators of the shut-down test and of class A's machine: types, what a call changes, how far a test is | `TLAPS` |
| `MotorPermitProofs`, `SafetyMgrProofs`, `MotorControlProofs`, `RecorderProofs` | theorems of those modules | `TLAPS` |
| `PwmInterruptProofs` | theorems of the parts of `MCPwmInterrupt` | `SRMCPwmDiagProofs`, `MciProofs`, `RecorderProofs` |
| `ServicesProofs` | theorems of all the services: the link, the queues, the safety channel, the receiver, the types of the relay | `TLAPS` |

### State and actions against the code

`SafetyMgr`: `state` is `SR_SafetyMngr_State`, `fault` `SR_Motor_Fault`, `flags`
`SR_Motor_Flags`, `retry` `SR_Timeout_Failure_Retry`, `phaseLost`, `powerUp`,
`moving` and `checkTimer` the counters of its handlers, `dcbus` the bus voltage
as a range, `diag` and `atod` the drivers' variables, `gates` what the last
write left on the inverter. `mainLoop` says where in the 5 ms handler the loop
is, `pwmTicks` counts interrupts since the slot began, and `tested` and
`stopped` are history variables: what the code has shown in this start, and since
class A last had access. They are written along with the code's own decisions
and read by no action.

`MCPwmHandler` is the whole interrupt: diagnostic, access, gates, and class A's
request and output as parameters. `Handler5ms_Check` is the first part of the
5 ms handler (hardware fault, bus voltage) and `Handler5ms_Dispatch` the second,
which branches on the state (`Running`, `Postrun`, `Prerun`, `Idle`,
`UnlockDoorCheck`, `Initialize`, `ErrorFound`). An interrupt may fall between the
two; what happens inside each is one step. `Handler250us`, `SlowHandler`,
`SetParams` and `ForceStop` are the other entry points.

`Mci` keeps the variables of `Mci.c` in a record, and `MciPwmHandler` is its
interrupt: the prologue with the error reaction, then one step per state, each
returning the record, the request to class B and what goes to the inverter.
`MotorControl` calls it last in class B's interrupt, with the access flag that
this same interrupt has just decided, as the code does.

`SharedWords` and `ClassAWords` look into what `SafetyMgr` and `MotorControl` do
in one step. The main loop there is a list of loads, tests and stores, taken from
the source and, where the source leaves it open, from the compiler's listings
(`src/listings`); an interrupt may fall between any two. What the manager's tests
and timers say is open in `SharedWords`, and what class B does is open in
`ClassAWords`, so they ask what the accesses themselves can spoil.

`RevealQueue`: `queue` holds both rings with the debounce state of each slot and
the two indexes, `outgoing` the outgoing state machine, `acks` the acknowledgement
buffer. `NewChecks`, `NewReserves` and `NewAdvances` are the three accesses of
`Reveal__NewFeedback`, between which `HeartbeatInterrupt` may come; `ScanHead` and
`ScanCompares` are those of the search for the next message. `PriorityLineOf` maps the
priority ring to the line of `PriorityLine`: the entries from the read index to the
write index, a debounce counter that still runs being the patience left with an
incomplete one. What moves a message in the ring is a slot set free or filled and an
index advanced; in the line it is `Enter`, `Look` and `Leave`. `RefusedByWin` is the end
of `Send` for a message to the board itself (`Reveal.c:2066`): a command is dropped
from its ring, but a report has been dropped before it was handed over, and with the
state IDLE by then the second drop is one of the priority ring, whichever ring the
report was in. `PriorityLine` allows this and no more: with a report to the board
itself (`strays`) the first in line may leave too, and in an empty line the order
is lost (`inLine`) until the ring is found in order again. `WinBus`: `tx` and `rx`
are the two buffers of each board, `next` and `prev` the message counters; a frame
ends in one step, `WinFrame`, which chooses what every board made of it and what
became of the acknowledgement. `SafetyChannel`: `sender` and `receiver` are the
rows of `Api020`, `wire` the bus between them, `Lose`, `Repeat` and the resets its
faults, until `CalmsDown`. `Recorder`: `rec` is the flag word and counters,
`Sample` one PWM interrupt's work, `StopTests` to `StopCounts` the accesses of
`MC_TriggerRec`. `SerialRx`: `link` is the receiver's state, `Received` one call of
`MC_Rx`, `AnswerSent` the end of an answer (`MC_Listen`). `SurgeRelay`: `RelayHandler` is the eighth call of the 25 ms handler.

The host tool has two places. In `MotorControl` it writes the variables of the self
commissioning handler, as `self_commissioning.py` does from one reset of the board to
the next: `ToolInjects` sets the injection flag to 1 (resistance), then to 2
(inductance), each many times, and once to 0; `ToolDrives` is `drive_motor`, a speed
and then the order to take it (`Sc_Master_Cmd_Force`), again and again. A write is
repeated when it fails (`write_sym_tuple`), and none waits for the handler. Master
Commander's poll, which carries the writes out, runs in the 250 us interrupt, so a
write may fall inside the handler: `ToolRuns`, `ToolLooks` and `ToolGives` are the
handler up to and from the second load of the flag. In `SerialRx` the tool sends:
`HostSends` begins a message, `Due` and `Doubled` are its framing (`_build_repl_sob`,
which doubles every start of block but the first). It waits for the answer
(`_parser`), but gives up after two empty reads or an answer it does not
understand, and so does not know of one that noise has caused: the next message may
begin at any time, and `BackInStep` says what can be relied on.

Data is abstracted to what the code branches on: bus voltage low, ok or high;
temperature above, between or below its hysteresis; phase currents with one
lost, balanced or unclear. The measuring chain is the environment: it may give
any such reading, or only right ones for the parts of the hardware that are not
in `Failing`. What `Mcl` asks for, the surge relay and the functional test
answer in `MotorControl` as the sets `MclOutputs`, `RelayAnswers`, `FvtAnswers`
allow.

## 3. The runs

| Run | Question | Result |
|---|---|---|
| `pwm_self_test` | what a SAFE answer rests on, what lost updates of the shared words can do, what a stopped recording holds | `SafeMeansTested`; the words implement `MotorPermit`, and with it `DoorShutWhileDriven`; `NoFaultForgotten`, `StopTaken`, `PrerunEnds`; `StopTakesHold`, `StartOnlyAsked`; `OldestFirst`, `PostTriggerKept`, `RecorderStops` hold |
| `safety` | failing hardware with a main loop on time or late, or all requests, reloads, voltages and currents | `DriveOnlyTested`, `UnlockOnlyStopped`, `UnlockExcludesDrive`, `ProtectionArmed`, `TestStartsClean` hold; the manager implements `MotorPermit` |
| `safety_repair` | hardware that fails and is repaired in any state, fair scheduling | every test phase ends, every error is retried, the door opens for good unless the comparator stays tripped |
| `safety_lock_out` | the comment at `SRMotorSafetyMgr.c:794` | violated, see below |
| `safety_error_reaction` | the comment at `SRMotorSafetyMgr.c:1127` | violated, see below |
| `safety_hw_wait` | the comment at `SRMotorSafetyMgr.c:2922` | violated, see below |
| `control` | class A, class B, loader and all commanders together | `IdleMeansReleased`, `RunOnlyWanted` hold; the composition implements `SafetyMgr` |
| `control_ends` | the tool's injections and drives, fair scheduling | starts and stops end, the pending run is served |
| `control_stop` | the comment on `Mci__Stop` | violated, see below |
| `class_a_manual` | the diagram at `Mci.c:480` | violated, see below |
| `services` | the queues, the link, the safety channel, the receiver and the relay, each under its own disturbances | `WaitingEnds`; `ParsedOnce`, `NewIsParsed`, `TxBufferFreed`; `TrustedInSequence`, `LinkRecovers`; `BackInStep`; `BusReadyComes` hold |
| `reveal_queue` | messages that stay incomplete, are refused, repeated and given up, and reports to the board itself | `OnlyHeartbeatsLost`, `PriorityKeepsLine` hold; the priority ring implements `PriorityLine` |

`pwm_self_test` and `services` put parts that share no variable into one instance:
the variable `part` says which one a behaviour follows, so their state spaces add
up and do not multiply. The variable `bench` does the same for the two instances of
`safety`.

`DriveOnlyTested` is conditional on `MainLoopOnTime`: the flags that carry test
results are cleared only when all are set, and what keeps an old one away from
the next start is that a PWM test (435 interrupts) is longer than the two slots
(80 interrupts each) the loop needs to look. The code's slot-violation check is
an empty macro in this build, so the condition is an assumption here. The part of
`ProtectionArmed` that is about a running motor has the same condition. It was first
stated without one, and TLC found the counterexample while the proof was being
prepared: with up to four interrupts per slot a pre-run test that failed, or is still
going on, can be passed over by the result of the one before, and the motor then runs
with the comparator at the threshold of the test.

### Bounds, and why they are enough

No state constraint is used. All counters of the code have a limit of their own;
the bounds are the values given to those limits.

* *Samples and delays of the self tests.* `pwm_self_test` uses 5 samples, 3 to
  decide, which allow every kind of majority, and delays of 1 and 2. The runs of
  `SafetyMgr` use one sample per phase, the third phase delayed so that one test
  is longer than two slots, as in the code (`MainLoopOnTime`). The composition
  uses no delay: only the outcome matters there.
* *Interrupts per slot*, 80 in the code, are 1 or 1 to 2. At least one is in
  every slot, because a slot that is caught up begins a whole slot's work after
  the last; a late loop is a slot with more interrupts.
* *Debouncing* 2 and `FailTimer` 4 to 9: the debouncer completes before the
  time-out when currents are quiet, with room for the shut-down test, and the
  time-out wins when they are not; both orders occur.
* *Retry times* 0 to 3. All are 1 where only "some time" matters; `safety_hw_wait`
  makes the hardware fault's longer than the voltage fault's.
* *Phase-lost threshold, waits in IDLE and power-up* 0 or 1: reached, and
  passed, with the branch before and after.
* *Repair*: the third phase of the shut-down test takes 3 interrupts and
  `FailTimer` is 8, so that the tests of one pass end before the time-out; two of the
  retry times are 1 and the others 0, so that a retry comes at once or a slot later. The motor gets too hot only while it runs.
* *Words*: an error lasts one slot at least (`ErrorSlots`), the fewest in which an
  interrupt can still fall into it. A command of class A is at most one at a time,
  as in the main loop.
* *Queues*: rings of 2 slots, so that full, empty and a wrapped index are a step
  apart; debounce count 1, 2 tries, time-out 1, 2 acknowledgements. One peer, and
  every kind of request that the branches tell apart.
  In `services` the urgent messages are reports to the board itself and the others
  commands; in `reveal_queue` it is the other way round and more: the urgent ones are commands,
  reports to all and reports to the board itself, the others reports to the board itself.
  Its debounce count is 2, so that an incomplete message is aged more than once before
  it is given up, in front of a complete one or behind it; 2 tries tell a repetition
  from the end of them. Longer rings are left to the proofs.
* *Commands*: in `control` the Reveal API asks for the functional test, for a manual
  injection and for stops, the tool for runs and stops: the same `Mci__Run` serves both.
  The test ends one interrupt after it began, with the main loop anywhere in
  between. The tool makes every write of its two scripts, any number of times where they repeat
  it. Class A finds an over current or does not, at any time.
* *Link*: three boards, one of them with messages to send to the two others, to all
  and to an address that does not answer; counters up to 2, which go round in three
  messages; 1 retry, 1 collision, 2 messages per turn. Two talkers share nothing
  but the wire and the receive buffers, and the proofs are for any number.
* *Safety channel*: numbers up to 5, two messages on the wire; a message every 2
  calls, late after 3, given up after 4. So one message may be lost without the
  period telling, two may not, and the numbers go round while a receiver counts, as
  6 messages per period and 253 numbers do in the code. `ChannelConstants` is what
  this rests on.
* *Recorder*: 3 places, set-ups that fit exactly, wrap, skip samples, ask for no
  post-trigger sample, or are refused because they are too large.
* *Receiver*: the smallest codes that give each branch of `MC_Rx` a message, one of
  them with a start of block in its length, one with it in its data and checksum;
  a buffer of 4, which a true length fills and a false one overruns. The largest byte
  is 5, so that the two largest lengths wrap to nothing and to one byte, as 254 and
  255 do in the code. Any byte may come between messages, and an answer end at any
  time.
* *Relay*: voltages 0 to 7 with the thresholds in the code's order, MinWait and
  CloseVoltage equal as they are there, and a tolerance of 1.
* *Class A's time-outs*: the threshold of 4, or 3 in `control`, is longer than class B's shortest
  pre-run and shorter than a class B that refuses.

What the small values lose is timing in absolute numbers: nothing here says that
27 ms are enough for a test, only what follows from the order of the times.

### Fairness

Weak fairness of the PWM interrupt: the timer is started in the initialisation
and never stopped. Weak fairness of the main loop's next class B step and of
class A's 5 ms handler: the watchdog resets a controller whose loop stands, so
every execution of interest goes round. Strong fairness of the two 25 ms tasks in
`MotorControl`: each has one slot in five, so it is enabled again and again
rather than for ever; and for the same reason of class B's check, which the second
half of the tool's handler keeps waiting. That half follows the first (weak
fairness). Nothing is assumed of commands, readings or the tool.
`DoorUnlocks` assumes the quiet environment in its own premise, and its runs the
repair. In `SharedWords` a self test gives its results (`TestsGiveResults`), which
is what `TestsEnd` shows.

The services: weak fairness of the heartbeat's timer, of an operation of the main
loop that has begun, and of both halves of `Reveal__Handler`; `WaitingEnds` says in
its premise that the handler gets to the normal ring again and again, because
acknowledgements and priority messages go first for as long as there are any. On
the wire, weak fairness of the grant and the timers of the 1 ms interrupt, and
strong fairness of a frame that is not cut short: without it `TxBufferFreed` would
ask the code to do without a bus. Weak fairness of the two interrupts of the
recorder, of the slow handler and the delivery by a bus that is calm, and of the
relay's handler. The receiver needs none, `BackInStep` being a safety property.

### The five disagreements

* `ErrorReactionApplied`. The comment says the error state applies the error
  reaction to the outputs. `OverVoltageProtection` overwrites the variable it
  tests next, and does nothing when the fault is an under voltage and the bus is
  in range again. A dip seen by the check at the start of a slot and gone by the
  dispatch takes a running motor to the error state with its last duties on the
  gates for the whole retry time.
* `HwFaultWaitKept`. The comment asks for 60 s after a hardware fault in the
  post-run tests. All faults share one time, and a voltage fault loads 10 s over it.
* `StopForgetsStarts`. The comment says a stop is always accepted. In
  CLASS_B_STARTING it clears a pending run only: a functional test that was being
  started stays requested and starts by itself when the stop is over.
* `ManualOnlyAsked`. The diagram lets class A into MANUAL_CONTROL on the user's
  request. `Mci__Stop` (`Mci.c:1299`) loads `Mci_Flow_Control`, clears a bit and
  stores it; when the PWM interrupt falls in between, takes class A from FAILED to
  IDLE and drops the request for an injection, the store brings it back. The last
  command was a stop, and class A starts the injection. The 20 steps of the trace
  need a failure while the request is pending and the stop in the very interrupt in
  which the failure is over.
* `DoorUnlocksRepaired`. The shut-down test trips the comparator on purpose. When it
  finds that this has no effect (`SRMCPwm.c:1165`) it gives its result and leaves the
  threshold low; the passing end sets it back. If the cause goes away, a comparator
  at that threshold trips without any current: the latch reports a hardware fault
  as soon as no test is silent about it, every retry ends in POST-RUN with an over
  current before a new shut-down test, the only thing that would set the threshold
  back, is started. The door stays locked until the controller is reset. That a low
  threshold trips at rest is what the test itself takes for granted.

One more thing is modelled as written without a property, since no document
says what is meant: `MCI_FVT_MODE` is the first value of the enumeration, so the
error reaction, which compares states by order, passes it by.

Seen while modelling, and not the subject of a run, because the text at the place
is no claim that a run could refute, or is about something the models leave out:

* A report to the board itself (`Reveal.c:2066` to 2084). The comment there says that the
  code prevents sending such a message. It does, but the drop at 2078 is the second of
  the same message, and always one of the priority ring: the urgent message at its head
  is lost unsent, or, if the ring is empty, its read index passes the write index and
  the ring is misaligned, which `Reveal.c:1894` says "should never happen". Urgent
  messages queued then may wait behind the read index. `NewFeedback` takes any
  node, and an answer goes to the source of what it answers, which Win accepts to be the
  board's own address. `PriorityKeepsLine` and `UrgentLine` say how far this goes:
  no other step takes a message out of its turn or the ring out of line.
* A message that begins in the batch of bytes with the end of the one before it is
  cut off when the answer ends (`mc_serial.c:709`). It is also received into the buffer that
  the answer is sent from. The tool waits for the answer, and repeats what fails;
  `BackInStep` has this as its condition.
* A flag that the tool writes between the comparison and the second load of
  `SelfCommissioning__25msHandler` (lines 281 and 295) is remembered without having been
  looked at. A 0 lost in this way leaves the motor running until the reset that the
  tool asks for right after it.
* `Reveal.c:1941` calls a misaligned read index something that "should never
  happen". The race of the heartbeat with `Reveal__NewFeedback` makes it happen; the
  code that copes with it is what `WaitingEnds` rests on. The overflow counter counts
  a heartbeat that is lost in this way although the ring is not full.
* `Reveal__Handler1ms` runs twice per millisecond in this build (`Main_prv.h`), so
  the heartbeat comes twice as often as its name says.
* When a message is given up, the node status of the destination of the normal
  ring's head is cleared, whichever ring the message was in (`Reveal.c:2171`).
* A message with counter 0, the first after a reset, is parsed again when it is
  repeated (`ParsedOnce` makes the exception).
* `FeedbackParser` takes safety messages from the service tool's address, too
  (`SRAPI020Safety.c:241` to 246). `SafetyChannel` has one sender per receiver: a tool
  that sends as well, with numbers of its own, would mix two sequences, and what is
  shown of the channel is for a bus without one.
* `SRAPI020Safety.c:220` says that data is valid only if "no lost message" lies
  between the last two. A sender that begins anew, after a reset or a late message,
  may have lost that one and still be believed with the next: `TrustedInSequence`
  says what does hold.
* The reaction of `SRMCUSpeedMonitor`, STOP_MOTOR, is empty in this build, and
  nothing calls `SRMCUSpeedMonitor__High_Speed_Detected`, so the high-speed flag that
  goes out stays at its initial TRUE.
* `SurgeRelay.c:226` renews the sample before only in WAITING: the first comparison
  after OPEN is with the bus of another time, and may close the relay one sample
  early or late.
* `MC_StopRec` sets the stop flag before the countdown: a recording stopped by hand
  may hold no samples after it (`PostTriggerKept` is about edges only).

## 4. The proofs

Assumptions are those on the constants only: `DiagConstants`, `SafetyConstants`,
`MciConstants`, `ControlConstants`, `WinConstants`, `RevealConstants`,
`RecorderConstants`, `ChannelConstants`, `SerialConstants`, `RelayConstants`. They ask
for naturals, at least one interrupt per slot, at least one sample, inputs out of the
sets the code branches on, a message counter with at least two values, rings of at
least two slots, messages of the host that fit the receiver's buffer and are as long
as their command says, and numbers of safety messages that do not come round within
the time a receiver waits. TLC
evaluates them in every run of their module. Every inductive invariant below was
checked by TLC on the instance of its run before it was proved.

### The safety manager

* `TypeCorrect` : `Spec => []TypeOK`, by one lemma per part of the state (self
  tests, timers, handlers).
* `DoorSafe` : `Spec => []DoorInv`, the inductive invariant behind the two properties of the
  door. That the door is not announced while class A
  has access is not inductive: the access flag outlives RUNNING until the next
  interrupt, and the announcement outlives IDLE until the tests end. `DoorInv`
  says in which states, and at which point of the main loop, each of the two
  flags and the pending check may still be set, and what has been shown by then.
  The argument needs that an interrupt falls in every slot (`MinPwmPerSlot`): it
  takes access back before the next dispatch can leave the post-run tests or the
  error state.
* `NeverBoth` and `UnlockProved`: `UnlockExcludesDrive` and `UnlockOnlyStopped`
  follow from it.
* `PhasesFit` : `Spec => []PhaseInv`, what holds of the shut-down test however late
  the main loop is. A test under way has taken as many samples as its phase is long
  at most, and has the threshold of its phase (`WellUnderWay`); wherever a test may be
  started no samples are left over (`CleanStart`); the comparator is at its working
  threshold wherever the motor may be started (`ArmedPlaces`). The one way into IDLE
  without a new shut-down test is a pending check of the door, so `CheckPending`
  carries the threshold through the slots of a retry.
* `StartsClean` : `Spec => TestStartsClean`, from `CleanStart`.
* `StartsOnTime` : `Spec => []OnTimeInv`. With a main loop on time a start is in one of
  three situations: its tests have passed, all three of them (`Passed`); the fault of
  a failed one will be seen before the shut-down test can end (`FailedInTime`); or
  they go on, and the converter test ends long before the other (`GoingOn`). What
  makes the three exclusive is a count: `Left`, the interrupts the test still needs,
  against `Slack`, those that may come before the main loop looks.
* `TestedDrive` and `AlwaysArmed`: `DriveOnlyTested` and `ProtectionArmed` follow from
  `OnTimeInv`, the part of the latter about a waiting motor from `PhaseInv` alone.
* `ImplementsPermit` : `Spec => PermitSpec`, each step of the manager being a step
  of `MotorPermit` or none, from `DoorInv`; `DoorSafety` is the abstract
  statement on `MotorPermit` itself.

### Class A and the composition

* `ImplementsSafetyMgr` : `ControlSpec => SafetySpec`. What class A and its
  callers ask of class B is among what `SafetyMgr` allows, so every theorem of
  `SafetyMgr` holds in the composition; `ControlledDoor` and `ControlledSafety` draw
  these conclusions.
* `ControlTyped` : `ControlSpec => []ControlTypeOK`, over the lemmas of `MciProofs`, one
  for each state of class A's machine.
* `IdleReleased` and `RunsWanted`, from `ControlInv`: a requested run was accepted
  unless class A has failed (`RunKnown`), in which case FAILED clears it before class A
  is idle again. `IdleMeansReleased` is inductive together with the types: class A
  leaves a stop for IDLE only on what class B shows in that interrupt.

### The words at the grain of loads and stores

* `EvidenceCounts` and `SafeTested`, for any number of samples, any delays and any
  caller. In each phase the driver's counter is the number of samples seen
  (`PhaseEvidence`), and a phase hands on what it has shown.
* `WordsFit` : `SharedSpec => []WordsInv`. The door and the faults are not safe by what
  the words hold but by what the main loop may still store: `FlagsAround` and
  `FaultsAround` join the word with the copy in the main loop's hand. `OpsFit` says
  which writes are left at each point of the slot, `KnownParams` that a start needs
  parameters, `DoorWords` where in the slot each flag may still be in word or copy,
  `FaultWords` that only the error state takes faults away. `DoorStaysShut` and
  `FaultsRemembered` follow.
* `WordsImplementPermit` : `SharedSpec => WordsPermitSpec`, the same abstract permit
  that `SafetyMgr` implements with whole steps. A store of the flags word and the store
  of the state that belongs to it are two steps here, so the phase changes with the one
  that opens or locks the door. What a late store could give back is an access that the
  interrupt has taken away: `PermitWords` says that the copy holds one only while the
  motor runs. In an error the argument needs time: the access of the run that ended is
  still there in the first slot, and it is gone at the retry because every fault but the
  overload has loaded at least one slot to wait (`ErrorTimed`).
* `StopsTakeHold` and `StartsAsked`, from `ClassAInv`. `StopForgets` follows
  `Mci__Stop` through its accesses; `LateRequests` says where a request that the
  interrupt has served may be brought back by `MclFvt__Entry`'s store of the whole
  word: into a state that does not look at it, and FAILED clears it first.
* `SharedTyped` and `ClassATyped` are their types; `InterruptSafe` states all of it,
  with the recorder's, of the instance that `pwm_self_test` runs.

### The services

* `RepetitionsParsedOnce` and `NewMessagesParsed`, for any boards, talkers, counter
  limit and number of retries. Neither property follows from the counters a board
  holds now: `WinInv` adds that one frame is on the wire at a time and its sender
  has a share left (`OneSender`), that a board that took note of a message holds its
  counter (`NotedCounted`), and that one that did not, and missed none before it,
  holds another (`NewCounted`). The last is the step over the reset and the counter
  that goes round: two neighbouring counters differ, and neither is `Reset`.
* `RaceCostsHeartbeats`, for rings of any length. `RaceInv` says what an interrupted
  `Reveal__NewFeedback` may find in the slot it has tested: still nothing, or the
  heartbeat that came in between, and never a task's message.
* `PriorityStaysInLine` : `PriorityKeepsLine`, for priority rings of any length and any
  requests, those of the board itself among them. `Aligned` restates the alignment by
  how far a slot lies ahead of the read index (`Ahead`). It is no invariant any more, but
  `QueueInv` (`QueueInvariant`), which every step keeps in line and out of it, says enough
  about the message under way: it is the head of its ring and still queued
  (`HeadSafe`), for the normal ring because a task that has found a slot free has
  not found that one (`CheckedApart`), and none is under way while the normal ring is
  searched (`ScanIdle`). Without it an acknowledgement could drop a slot that is free,
  and move the read index past the write index. The second drop of a refused report
  does just that when it finds the ring empty, and otherwise takes the head. The
  search frees what it passes; that it stops at the write index at the latest, and
  that all it passes is in use, is `StopFound`: in a full ring, where the indexes meet
  at once, it stops after one round. Two slots at least are needed, as the
  configuration has.
* `PriorityIsLine` : `UrgentLine`, the refinement of `PriorityLine`, for priority rings of
  any length and any debounce count. `Line` reads the ring as a sequence, the entry i
  places after the first being the slot i places after the read index, up to the
  last slot in use (`CountIs`). Two lemmas carry the operations over: a slot set free
  at the read index is the head leaving (`LineFreed`), a slot taken at the write index is
  an entry at the end (`LineFilled`). `SearchLine` says what the loop of the handler
  amounts to: it stops right at the first message not given up. The loop also ends where
  the indexes meet, and steps over free slots of a misaligned ring; `StopFound`
  shows that neither passes over a message or ends before one in a ring that is in line,
  which is what `Reveal.c:1894` ("This condition should never happen") takes for
  granted. A refused report is a stray that goes (`OwnReports`), and what its second drop does
  to the ring is what `Leaves` allows: the head is one entry more, and an empty ring goes
  out of line. The
  search of the normal ring takes several steps, with the interrupt between them, and is
  the line's `turned`: it begins only when no complete message is first in line, and
  nothing is under way while it lasts (`ScanIdle`).
* `TrustInOrder` : `TrustedInSequence`, for any length of the count, any periods and
  any wire. The receiver sees numbers and times only, and `ReceiverInv` says what they
  tell: if the messages lost since the last accepted one are k, the numbers on the
  wire and the sender's next one are k ahead of what is expected, and the receiver has
  waited at least k - `WireSize` periods. So a number that fits means that none was
  lost or that the numbers have come round, and for that the wait would have been
  longer than a receiver waits. `WireInv` says that what is on the wire is numbered one after
  the other from the last reset on, and that a copy of the message last taken can only
  come first.
* `NextMessageHeard` : `BackInStep`, for any messages, any size of the receiver's
  buffer that a byte can count, any garbling, any bytes between messages and answers that
  end at any time. `InStep` says what the one bit of framing tells: once the
  command byte of a message has come the receiver takes pairs for pairs, whatever it
  was in the middle of, and so it stands right at the end of that message; the start
  of the next is then seen, and after n bytes of it the receiver has kept just these
  and counts the rest (`KeptOf`). No answer begins before its last byte, so if none
  was under way at its first, `MC_Listen` does not come in between.
* `ServicesTyped` : `ServicesTypeOK`, from the invariants of the five parts.
* `RecordsWithin`, `EdgeSamplesKept` and `RecordingInOrder`, for any set-ups. `RecInv`
  relates the age of every place of the buffer to the write pointer (`Filled`,
  `FullWhenUsed`), also for the copy of the flags that `MC_StopRec` is about to
  write back, and the countdown to the samples since the edge (`EdgeCounts`).

### Only model-checked

Everything about liveness (`TestsEnd`, `RetryComes`,
`DoorUnlocksUnlessTripped`, `StartEnds`, `StopEnds`, `RunServed`, `StopTaken`,
`PrerunEnds`, `WaitingEnds`, `TxBufferFreed`, `LinkRecovers`, `RecorderStops`,
`BusReadyComes`), which is out of the prover's reach together with ENABLED. Every
invariant and every action property of the passing runs is proved; that every run
still shows them on its instance is a check of the definitions the proofs expand.
## 5. What is left out

* `SafetyMgr` and `MotorControl` change a word in one step, and each half of the
  5 ms handler is one. `SharedWords` and `ClassAWords` take these steps apart, word by
  word, with the rest of the manager left open. Both grains implement `MotorPermit`;
  with each other they are not joined.
* Corruption of class B's redundant copies, exceptions and the resets they cause.
  A reset starts the models again from `Init`; nothing the modelled parts need is
  kept across it.
* In the interface: `Mci__ClearError`, a run command with speed zero, the analog
  read-outs. In the Reveal API: packing, publication and the op-codes that do not
  start or stop the motor. In the drivers: register set-up, triggering, delayed
  duties.
* In the Reveal bus: the routing of messages inside the board, the blocking of
  messages, the APIs that parse them. In the WIN bus: bytes, arbitration by times,
  node status, break signal. In the Master Commander: the command decoder, the
  oscilloscope, the transmitter. In the safety channel: what the messages say, the
  32-bit clock's wrap. In the functional test: its sequence; its end and its answers
  are inputs of `MotorControl`.
* What this build switches off: low-power states (`LOW_POWER_FEATURE`), the class B
  feature of the main loop, the mode handler and with it the setting file's updater,
  which no task calls.
* Numerics: `Mcl`, the thermal models, the measuring chain.
* The components marked not modelled in `PROJECT.json`, each with its reason.

## 6. Plan

1. *Done*: self tests, safety manager with failing and repaired hardware, abstract
   permit, class A, their composition; the shared words at the grain of loads and
   stores; Reveal queues, WIN link, safety channel, recorder, receiver, surge relay;
   the proofs of section 4.
2. Speed reference generator (ramp within limits, reaches the target; folds
   instead of recursion) and functional test: then they replace the answer sets in
   `MotorControl`, and `SurgeRelay` replaces `RelayAnswers`.
3. Slot scheduler with catch-up (`SRMain`, `SystemTimers`) and the flow and interrupt
   monitors against it: each task at its rate, 8-bit wrap-around.
4. Loader with its programming mode and setting file; Master Commander's decoder and
   transmitter; Reveal's routing.
5. Proofs: the normal ring, which loses heartbeats to the race, as a line with losses;
   `SafetyMgr` and `SharedWords` joined (section 5).
