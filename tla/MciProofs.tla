------------------------------- MODULE MciProofs -------------------------------
(***************************************************************************)
(* What class A's routines do to its record, whoever calls them: the       *)
(* types, and where one call of the interrupt handler may lead.            *)
(***************************************************************************)
EXTENDS Mci, TLAPS

\* A change of the state, of the flow word and of the timer alone.
SameBut(m, n) == n.errors = m.errors /\ n.loaded = m.loaded /\ n.params = m.params

LEMMA GoesFields ==
    ASSUME NEW m \in MciType, NEW st \in MciStates
    PROVE  /\ Goes(m, st) \in MciType /\ SameBut(m, Goes(m, st))
           /\ Goes(m, st).st = st /\ Goes(m, st).flow = m.flow /\ Goes(m, st).timer = m.timer
BY DEF Goes, SameBut, MciType

LEMMA DropsFields ==
    ASSUME NEW m \in MciType, NEW flows
    PROVE  /\ Drops(m, flows) \in MciType /\ SameBut(m, Drops(m, flows))
           /\ Drops(m, flows).st = m.st /\ Drops(m, flows).flow = m.flow \ flows
           /\ Drops(m, flows).timer = m.timer
BY DEF Drops, SameBut, MciType

LEMMA RaisesFields ==
    ASSUME NEW m \in MciType, NEW flows \in SUBSET MciFlows
    PROVE  /\ Raises(m, flows) \in MciType /\ SameBut(m, Raises(m, flows))
           /\ Raises(m, flows).st = m.st /\ Raises(m, flows).flow = m.flow \cup flows
           /\ Raises(m, flows).timer = m.timer
BY DEF Raises, SameBut, MciType

LEMMA TimerFields ==
    ASSUME NEW m \in MciType
    PROVE  LET n == [m EXCEPT !.timer = 0]
           IN  n \in MciType /\ SameBut(m, n) /\ n.st = m.st /\ n.flow = m.flow /\ n.timer = 0
BY DEF SameBut, MciType

\* The first thing a call does: class A's own over current check, and the
\* reaction to any error.
PrologueMoves(m, p) ==
    /\ p.timer = m.timer /\ p.loaded = m.loaded /\ p.params = m.params
    /\ p.errors \in {m.errors \cup {"SW_OVER_CURRENT"}, m.errors \ {"SW_OVER_CURRENT"}}
    /\ m.st \notin FromStarting => p.errors = m.errors \ {"SW_OVER_CURRENT"}
    /\ \/ p.st = m.st /\ p.flow = m.flow
       \/ p.st = "FAILED" /\ p.errors # {} /\ p.flow = m.flow \cup {"FORCE_LOWERS_ON"}

LEMMA PrologueOutcome ==
    ASSUME NEW m \in MciType, NEW over \in BOOLEAN
    PROVE  Prologue(m, over) \in MciType /\ PrologueMoves(m, Prologue(m, over))
<1> DEFINE o == [m EXCEPT !.odd = 1 - @]
           e == PwmErrors(o, over)
           p == Reaction(e)
<1>1. /\ o \in MciType /\ o.timer = m.timer /\ o.loaded = m.loaded /\ o.params = m.params /\ o.errors = m.errors
      /\ o.st = m.st /\ o.flow = m.flow
  BY DEF MciType
<1> HIDE DEF o
<1>2. /\ e \in MciType /\ e.timer = m.timer /\ e.loaded = m.loaded /\ e.params = m.params
      /\ e.errors \in {m.errors \cup {"SW_OVER_CURRENT"}, m.errors \ {"SW_OVER_CURRENT"}}
      /\ m.st \notin FromStarting => e.errors = m.errors \ {"SW_OVER_CURRENT"}
      /\ e.st = m.st /\ e.flow = m.flow
  BY <1>1 DEF PwmErrors, MciType, MciErrors
<1> HIDE DEF e
<1>3. /\ p \in MciType /\ p.timer = e.timer /\ p.loaded = e.loaded /\ p.params = e.params
      /\ p.errors = e.errors
      /\ \/ p.st = e.st /\ p.flow = e.flow
         \/ p.st = "FAILED" /\ p.errors # {} /\ p.flow = e.flow \cup {"FORCE_LOWERS_ON"}
  <2>1. CASE \/ e.errors # {} /\ e.st \notin {"INITIALIZING", "FVT_MODE"}
             \/ "INITIALIZATION_FAILED" \in e.errors /\ e.st = "INITIALIZING"
    <3>1. p = Raises(Goes(e, "FAILED"), {"FORCE_LOWERS_ON"}) /\ e.errors # {}
      BY <2>1 DEF Reaction
    <3> QED
      <4> DEFINE g == Goes(e, "FAILED")
      <4>1. g \in MciType /\ SameBut(e, g) /\ g.st = "FAILED" /\ g.flow = e.flow /\ g.timer = e.timer
        BY <1>2, GoesFields DEF MciStates
      <4> HIDE DEF g
      <4>2. {"FORCE_LOWERS_ON"} \subseteq MciFlows
        BY DEF MciFlows
      <4> QED
        BY <3>1, <4>1, <4>2, RaisesFields DEF SameBut, g
  <2>2. CASE ~(\/ e.errors # {} /\ e.st \notin {"INITIALIZING", "FVT_MODE"}
               \/ "INITIALIZATION_FAILED" \in e.errors /\ e.st = "INITIALIZING")
    BY <1>2, <2>2 DEF Reaction
  <2> QED
    BY <2>1, <2>2
<1>4. p = Prologue(m, over)
  BY DEF Prologue, e, o
<1> QED
  BY <1>2, <1>3, <1>4 DEF PrologueMoves

\* The rest of the call, by the state it finds.
StepMoves(p, n, idle, access) ==
    /\ SameBut(p, n)
    /\ n.timer = p.timer \/ n.timer = 0
    /\ \/ n.st = p.st /\ n.flow = p.flow /\ p.st # "IDLE"
       \/ p.st = "RUNNING" /\ "REQUESTED_STOP" \in p.flow /\ n.st = "STOPPING" /\ n.flow = p.flow
       \/ /\ p.st = "STARTING" /\ n.flow = p.flow
          /\ n.st = IF "REQUESTED_STOP" \in p.flow THEN "CLASS_B_STOPPING" ELSE "RUNNING"
       \/ /\ p.st = "CLASS_B_STARTING" /\ "REQUESTED_STOP" \in p.flow
          /\ n.st = "CLASS_B_STOPPING" /\ n.flow = p.flow
       \/ /\ p.st = "CLASS_B_STARTING" /\ "REQUESTED_STOP" \notin p.flow /\ access
          /\ n.flow = p.flow \ {"REQUESTED_START"}
          /\ \/ n.st = "MANUAL_CONTROL" /\ "REQUESTED_MANUAL" \in p.flow
             \/ n.st = "STARTING" /\ "REQUESTED_MANUAL" \notin p.flow /\ "REQUESTED_START" \in p.flow
             \/ /\ n.st = "FVT_MODE" /\ "REQUESTED_FVT_MODE" \in p.flow
                /\ p.flow \cap {"REQUESTED_MANUAL", "REQUESTED_START"} = {}
             \/ n.st = p.st /\ p.flow \cap {"REQUESTED_MANUAL", "REQUESTED_START", "REQUESTED_FVT_MODE"} = {}
       \/ p.st = "STOPPING" /\ n.st = "CLASS_B_STOPPING" /\ n.flow = p.flow
       \/ p.st = "CLASS_B_STOPPING" /\ idle /\ n.st = "IDLE" /\ n.flow = p.flow
       \/ p.st = "INITIALIZING" /\ idle /\ p.errors = {} /\ n.st = "IDLE" /\ n.flow = p.flow
       \/ /\ p.st = "IDLE" /\ n.flow = p.flow \ {"REQUESTED_STOP", "FORCE_LOWERS_ON"}
          /\ n.st = IF n.flow # {} THEN "CLASS_B_STARTING" ELSE "IDLE"
       \/ /\ p.st = "MANUAL_CONTROL" /\ "REQUESTED_STOP" \in p.flow
          /\ n.st = "CLASS_B_STOPPING" /\ n.flow = p.flow \ {"REQUESTED_MANUAL"}
       \/ /\ p.st = "FVT_MODE" /\ p.errors = {}
          /\ n.st = "CLASS_B_STOPPING" /\ n.flow = p.flow \ {"REQUESTED_FVT_MODE"}
       \/ /\ p.st = "FAILED" /\ idle /\ p.errors = {} /\ n.st = "IDLE"
          /\ n.flow = p.flow \ {"REQUESTED_START", "REQUESTED_FVT_MODE", "REQUESTED_MANUAL"}

\* One call of the handler.
LEMMA HandlerOutcome ==
    ASSUME NEW m \in MciType, NEW idle, NEW access, NEW over \in BOOLEAN, NEW done, NEW output
    PROVE  LET p == Prologue(m, over)
               n == MciPwmHandler(m, idle, access, over, done, output).mci
           IN  /\ p \in MciType /\ PrologueMoves(m, p)
               /\ n \in MciType /\ StepMoves(p, n, idle, access)
<1> DEFINE p == Prologue(m, over)
           a == MciPwmHandler(m, idle, access, over, done, output)
           n == a.mci
<1>1. p \in MciType /\ PrologueMoves(m, p)
  BY PrologueOutcome
<1>2. /\ p.st = "RUNNING" => a = RunningStep(p, output)
      /\ p.st = "STARTING" => a = StartingStep(p, output)
      /\ p.st = "CLASS_B_STARTING" => a = ClassBStartingStep(p, access)
      /\ p.st = "STOPPING" => a = StoppingStep(p, output)
      /\ p.st = "CLASS_B_STOPPING" => a = ClassBStoppingStep(p, idle)
      /\ p.st = "INITIALIZING" => a = InitializingStep(p, idle)
      /\ p.st = "IDLE" => a = IdleStep(p)
      /\ p.st = "MANUAL_CONTROL" => a = ManualStep(p, output)
      /\ p.st = "FVT_MODE" => a = FvtStep(p, done, output)
      /\ p.st = "FAILED" => a = FailedStep(p, idle)
  BY DEF MciPwmHandler
<1>3. p.st \in MciStates
  BY <1>1 DEF MciType
<1> HIDE DEF p, a
<1> SUFFICES n \in MciType /\ StepMoves(p, n, idle, access)
  BY <1>1 DEF p, a
<1> USE <1>1
<1>4. CASE p.st = "RUNNING"
  <2>1. n = IF "REQUESTED_STOP" \in p.flow THEN Goes(p, "STOPPING") ELSE p
    BY <1>2, <1>4 DEF RunningStep, Step
  <2> QED
    BY <1>4, <2>1, GoesFields DEF StepMoves, SameBut, MciStates
<1>5. CASE p.st = "STARTING"
  <2>1. n = Goes(p, IF "REQUESTED_STOP" \in p.flow THEN "CLASS_B_STOPPING" ELSE "RUNNING")
    BY <1>2, <1>5 DEF StartingStep, Step
  <2> QED
    BY <1>5, <2>1, GoesFields DEF StepMoves, SameBut, MciStates
<1>6. CASE p.st = "CLASS_B_STARTING"
  <2>1. n = IF "REQUESTED_STOP" \in p.flow THEN Goes(p, "CLASS_B_STOPPING")
            ELSE IF access THEN Granted(p) ELSE p
    BY <1>2, <1>6 DEF ClassBStartingStep, Step
  <2>2. CASE "REQUESTED_STOP" \notin p.flow /\ access
    <3> DEFINE st == IF "REQUESTED_MANUAL" \in p.flow THEN "MANUAL_CONTROL"
                     ELSE IF "REQUESTED_START" \in p.flow THEN "STARTING"
                     ELSE IF "REQUESTED_FVT_MODE" \in p.flow THEN "FVT_MODE"
                     ELSE p.st
    <3>1. n = Drops(Goes(p, st), {"REQUESTED_START"})
      BY <2>1, <2>2 DEF Granted
    <3>2. /\ n \in MciType /\ n.st = st /\ n.flow = p.flow \ {"REQUESTED_START"}
          /\ SameBut(p, n) /\ n.timer = p.timer
      <4>1. st \in MciStates
        BY <1>3 DEF MciStates
      <4> HIDE DEF st
      <4> QED
        BY <3>1, <4>1, GoesFields, DropsFields DEF SameBut
    <3> QED
      BY <1>6, <2>2, <3>2 DEF StepMoves, SameBut
  <2>3. CASE ~("REQUESTED_STOP" \notin p.flow /\ access)
    BY <1>6, <2>1, <2>3, GoesFields DEF StepMoves, SameBut, MciStates
  <2> QED
    BY <2>2, <2>3
<1>7. CASE p.st = "STOPPING"
  <2>1. n = IF p.odd = 1 THEN Goes(p, "CLASS_B_STOPPING") ELSE p
    BY <1>2, <1>7 DEF StoppingStep, Step
  <2> QED
    BY <1>7, <2>1, GoesFields DEF StepMoves, SameBut, MciStates
<1>8. CASE p.st = "CLASS_B_STOPPING"
  <2>1. n = IF idle THEN Goes(p, "IDLE") ELSE p
    BY <1>2, <1>8 DEF ClassBStoppingStep, Step
  <2> QED
    BY <1>8, <2>1, GoesFields DEF StepMoves, SameBut, MciStates
<1>9. CASE p.st = "INITIALIZING"
  <2>1. n = IF p.errors = {} /\ idle THEN Goes(p, "IDLE") ELSE p
    BY <1>2, <1>9 DEF InitializingStep, Step
  <2> QED
    BY <1>9, <2>1, GoesFields DEF StepMoves, SameBut, MciStates
<1>10. CASE p.st = "IDLE"
  <2> DEFINE c == Drops(p, {"REQUESTED_STOP", "FORCE_LOWERS_ON"})
             g == Goes(c, "CLASS_B_STARTING")
  <2>1. n = IF c.flow # {} THEN [g EXCEPT !.timer = 0] ELSE c
    BY <1>2, <1>10 DEF IdleStep, Step
  <2>2. /\ c \in MciType /\ c.st = "IDLE" /\ c.flow = p.flow \ {"REQUESTED_STOP", "FORCE_LOWERS_ON"}
        /\ SameBut(p, c) /\ c.timer = p.timer
    BY <1>10, DropsFields
  <2> HIDE DEF c
  <2>3. /\ g \in MciType /\ g.st = "CLASS_B_STARTING" /\ g.flow = c.flow
        /\ SameBut(c, g)
    BY <2>2, GoesFields DEF MciStates
  <2> HIDE DEF g
  <2>4. c.flow # {} => /\ n \in MciType /\ n.st = "CLASS_B_STARTING" /\ n.flow = c.flow
                       /\ SameBut(c, n) /\ n.timer = 0
    BY <2>1, <2>3, TimerFields DEF SameBut
  <2> QED
    BY <1>10, <2>1, <2>2, <2>4 DEF StepMoves, SameBut
<1>11. CASE p.st = "MANUAL_CONTROL"
  <2> DEFINE d == Drops(p, {"REQUESTED_MANUAL"})
  <2>1. n = IF "REQUESTED_STOP" \in p.flow THEN Goes(d, "CLASS_B_STOPPING") ELSE p
    BY <1>2, <1>11 DEF ManualStep, Step
  <2>2. /\ d \in MciType /\ d.flow = p.flow \ {"REQUESTED_MANUAL"}
        /\ SameBut(p, d) /\ d.timer = p.timer
    BY DropsFields
  <2> HIDE DEF d
  <2> QED
    BY <1>11, <2>1, <2>2, GoesFields DEF StepMoves, SameBut, MciStates
<1>12. CASE p.st = "FVT_MODE"
  <2> DEFINE d == Drops(p, {"REQUESTED_FVT_MODE"})
  <2>1. n = IF (done \/ "REQUESTED_STOP" \in p.flow) /\ p.errors = {}
            THEN Goes(d, "CLASS_B_STOPPING") ELSE p
    BY <1>2, <1>12 DEF FvtStep, Step
  <2>2. /\ d \in MciType /\ d.flow = p.flow \ {"REQUESTED_FVT_MODE"}
        /\ SameBut(p, d) /\ d.timer = p.timer
    BY DropsFields
  <2> HIDE DEF d
  <2> QED
    BY <1>12, <2>1, <2>2, GoesFields DEF StepMoves, SameBut, MciStates
<1>13. CASE p.st = "FAILED"
  <2> DEFINE c == [p EXCEPT !.timer = 0]
             d == Drops(c, {"REQUESTED_START", "REQUESTED_FVT_MODE", "REQUESTED_MANUAL"})
  <2>1. n = IF ~idle THEN p ELSE IF p.errors # {} THEN c ELSE Goes(d, "IDLE")
    BY <1>2, <1>13 DEF FailedStep, Step
  <2>2. /\ c \in MciType /\ c.flow = p.flow /\ c.st = p.st
        /\ SameBut(p, c) /\ c.timer = 0
    BY <1>13, TimerFields
  <2> HIDE DEF c
  <2>3. /\ d \in MciType
        /\ d.flow = p.flow \ {"REQUESTED_START", "REQUESTED_FVT_MODE", "REQUESTED_MANUAL"}
        /\ SameBut(p, d) /\ d.timer = 0
    BY <2>2, DropsFields DEF SameBut
  <2> HIDE DEF d
  <2> QED
    BY <1>13, <2>1, <2>2, <2>3, GoesFields DEF StepMoves, SameBut, MciStates
<1> QED
  BY <1>3, <1>4, <1>5, <1>6, <1>7, <1>8, <1>9, <1>10, <1>11, <1>12, <1>13 DEF MciStates

\* A start is asked of class B in one state only.
LEMMA HandlerAsks ==
    ASSUME NEW m, NEW idle, NEW access, NEW over, NEW done, NEW output,
           MciPwmHandler(m, idle, access, over, done, output).req = "start"
    PROVE  Prologue(m, over).st = "CLASS_B_STARTING"
<1> DEFINE p == Prologue(m, over)
<1> SUFFICES ASSUME p.st # "CLASS_B_STARTING" PROVE FALSE
  OBVIOUS
<1> HIDE DEF p
<1>1. MciPwmHandler(m, idle, access, over, done, output).req # "start"
  BY DEF p, MciPwmHandler, RunningStep, StartingStep, StoppingStep, ClassBStoppingStep,
         InitializingStep, IdleStep, ManualStep, FvtStep, FailedStep, Step
<1> QED
  BY <1>1

\* The 5 ms handler changes the errors, the times and the copy of the flag.
LEMMA SlowOutcome ==
    ASSUME NEW m \in MciType, NEW faults, NEW access, NEW mclError
    PROVE  LET n == SlowErrors(m, faults, access, mclError)
           IN  /\ n \in MciType
               /\ n.st = m.st /\ n.flow = m.flow /\ n.params = m.params
<1> DEFINE c == [m EXCEPT !.errors = CopiedErrors(m.errors, faults)]
           e == (StateErrors(c, faults, access) \ {"MCL"}) \cup (IF mclError THEN {"MCL"} ELSE {})
           n == SlowErrors(m, faults, access, mclError)
<1>1. m.errors \subseteq MciErrors /\ m.timer \in Nat
  BY DEF MciType
<1>2. CopiedErrors(m.errors, faults) \subseteq MciErrors
  BY <1>1 DEF CopiedErrors, MciErrors
<1>3. c \in MciType /\ c.errors \subseteq MciErrors /\ c.timer = m.timer
      /\ c.st = m.st /\ c.flow = m.flow /\ c.params = m.params
  BY <1>2 DEF MciType
<1>4. n = [c EXCEPT !.errors = e, !.timer = StateTimer(c)]
  BY DEF SlowErrors
<1> HIDE DEF c
<1>5. e \subseteq MciErrors
  BY <1>3 DEF StateErrors, MciErrors
<1>6. StateTimer(c) \in Nat
  BY <1>1, <1>3 DEF StateTimer
<1> HIDE DEF e, n
<1> QED
  BY <1>3, <1>4, <1>5, <1>6 DEF MciType, n

LEMMA FiveMsOutcome ==
    ASSUME NEW m \in MciType, NEW faults, NEW access, NEW crc, NEW ready, NEW mclError
    PROVE  LET n == Mci5msHandler(m, faults, access, crc, ready, mclError)
           IN  /\ n \in MciType
               /\ n.st = m.st /\ n.flow = m.flow /\ n.params = m.params
<1> DEFINE c == [m EXCEPT !.errors = FastErrors(m.errors, faults, ready), !.scaler = Postscaled(m.scaler)]
           e == CheckErrors5ms(m, faults, access, ready, mclError)
           n == Mci5msHandler(m, faults, access, crc, ready, mclError)
<1>1. m.errors \subseteq MciErrors /\ m.scaler \in Nat /\ m.params \in BOOLEAN
  BY DEF MciType
<1>2. FastErrors(m.errors, faults, ready) \subseteq MciErrors
  BY <1>1 DEF FastErrors, MciErrors
<1>3. Postscaled(m.scaler) \in Nat
  BY <1>1, MciConstants DEF Postscaled
<1>4. c \in MciType /\ c.st = m.st /\ c.flow = m.flow /\ c.params = m.params
  BY <1>2, <1>3 DEF MciType
<1>5. e = c \/ e = SlowErrors(c, faults, access, mclError)
  BY DEF CheckErrors5ms
<1> HIDE DEF c
<1>6. e \in MciType /\ e.st = m.st /\ e.flow = m.flow /\ e.params = m.params
  BY <1>4, <1>5, SlowOutcome
<1>7. n = [e EXCEPT !.loaded = crc /\ m.params]
  BY DEF Mci5msHandler
<1> HIDE DEF e, n
<1>8. (crc /\ m.params) \in BOOLEAN
  OBVIOUS
<1>9. \A l \in BOOLEAN : [e EXCEPT !.loaded = l] \in MciType
                         /\ [e EXCEPT !.loaded = l].st = e.st /\ [e EXCEPT !.loaded = l].flow = e.flow
                         /\ [e EXCEPT !.loaded = l].params = e.params
  BY <1>6 DEF MciType
<1> QED
  BY <1>6, <1>7, <1>8, <1>9 DEF n

\* The commands, and what they may ask for.
LEMMA CommandOutcome ==
    ASSUME NEW m \in MciType
    PROVE  /\ MciRun(m) \in MciType /\ MciRun(m).st = m.st
           /\ MciRun(m) = m \/ RunAccepted(m)
           /\ MciFvtStart(m) \in MciType /\ MciFvtStart(m).st = m.st
           /\ MciFvtStart(m).flow \subseteq m.flow \cup {"REQUESTED_FVT_MODE"}
           /\ MciManualInjection(m) \in MciType /\ MciManualInjection(m).st = m.st
           /\ MciManualInjection(m).flow \subseteq m.flow \cup {"REQUESTED_MANUAL"}
           /\ MciStop(m) \in MciType /\ MciStop(m).st = m.st /\ "REQUESTED_START" \notin MciStop(m).flow
           /\ MciFvtStop(m) \in MciType /\ MciFvtStop(m).st = m.st
           /\ MciFvtStop(m).flow \subseteq m.flow \cup {"REQUESTED_STOP"}
           /\ MciSetParams(m) \in MciType /\ MciSetParams(m).st = m.st /\ MciSetParams(m).flow = m.flow
<1>1. \A f \in SUBSET MciFlows : /\ Raises(m, f) \in MciType /\ Raises(m, f).st = m.st
                                 /\ Raises(m, f).flow = m.flow \cup f
  BY RaisesFields
<1>2. /\ {"REQUESTED_START"} \in SUBSET MciFlows /\ {"REQUESTED_FVT_MODE"} \in SUBSET MciFlows
      /\ {"REQUESTED_MANUAL"} \in SUBSET MciFlows /\ {"REQUESTED_STOP"} \in SUBSET MciFlows
  BY DEF MciFlows
<1>3. /\ MciRun(m) \in MciType /\ MciRun(m).st = m.st
      /\ MciRun(m) = m \/ RunAccepted(m)
  BY <1>1, <1>2 DEF MciRun
<1>4. /\ MciFvtStart(m) \in MciType /\ MciFvtStart(m).st = m.st
      /\ MciFvtStart(m).flow \subseteq m.flow \cup {"REQUESTED_FVT_MODE"}
  BY <1>1, <1>2 DEF MciFvtStart
<1>5. /\ MciManualInjection(m) \in MciType /\ MciManualInjection(m).st = m.st
      /\ MciManualInjection(m).flow \subseteq m.flow \cup {"REQUESTED_MANUAL"}
  BY <1>1, <1>2 DEF MciManualInjection
<1>6. MciStop(m) \in MciType /\ MciStop(m).st = m.st /\ "REQUESTED_START" \notin MciStop(m).flow
  <2> DEFINE c == Drops(m, {"REQUESTED_START"})
             r == Raises(c, {"REQUESTED_STOP"})
  <2>1. c \in MciType /\ c.st = m.st /\ c.flow = m.flow \ {"REQUESTED_START"}
    BY DropsFields
  <2>2. MciStop(m) = c \/ MciStop(m) = r
    BY DEF MciStop
  <2> HIDE DEF c
  <2>3. r \in MciType /\ r.st = c.st /\ r.flow = c.flow \cup {"REQUESTED_STOP"}
    BY <1>2, <2>1, RaisesFields
  <2> QED
    BY <2>1, <2>2, <2>3
<1>7. /\ MciFvtStop(m) \in MciType /\ MciFvtStop(m).st = m.st
      /\ MciFvtStop(m).flow \subseteq m.flow \cup {"REQUESTED_STOP"}
  <2> DEFINE c == Drops(m, {"REQUESTED_START", "REQUESTED_FVT_MODE"})
             r == Raises(c, {"REQUESTED_STOP"})
  <2>1. c \in MciType /\ c.st = m.st /\ c.flow = m.flow \ {"REQUESTED_START", "REQUESTED_FVT_MODE"}
    BY DropsFields
  <2>2. MciFvtStop(m) = m \/ MciFvtStop(m) = r
    BY DEF MciFvtStop
  <2> HIDE DEF c
  <2>3. r \in MciType /\ r.st = c.st /\ r.flow = c.flow \cup {"REQUESTED_STOP"}
    BY <1>2, <2>1, RaisesFields
  <2> QED
    BY <2>1, <2>2, <2>3
<1>8. MciSetParams(m) \in MciType /\ MciSetParams(m).st = m.st /\ MciSetParams(m).flow = m.flow
  BY DEF MciSetParams, MciType
<1> QED
  BY <1>3, <1>4, <1>5, <1>6, <1>7, <1>8
================================================================================
