--------------------------- MODULE PwmInterruptProofs ---------------------------
(***************************************************************************)
(* What holds of the parts of the PWM interrupt for every value of their   *)
(* constants: the result of the shut-down test, the words of class B and   *)
(* the commands of class A.                                                *)
(***************************************************************************)
EXTENDS MCPwmInterrupt, SRMCPwmDiagProofs, MciProofs, RecorderProofs

(* The shut-down self test.  What each phase has shown so far: its own     *)
(* samples agree with the driver's counters, those of the phases before it *)
(* were enough.                                                            *)
RestShown == seen.rest > TotalSamples - DecisionSamples
TripShown == seen.tripped >= DecisionSamples
ReleaseShown == seen.released >= DecisionSamples

PhaseEvidence ==
    /\ diag.st = "WAITING_TO_CHECK" => seen = NoSamples
    /\ diag.st \in Phases => Samples(diag) < TotalSamples
    /\ diag.st = "CHECK_SIGNAL_POL" =>
          seen.rest = diag.default /\ seen.tripped = 0 /\ seen.released = 0
    /\ diag.st = "CHECK_STUCK_AT_1" =>
          /\ RestShown
          /\ seen.tripped = diag.active /\ seen.released = 0 /\ diag.thr = "TEST"
    /\ diag.st = "CHECK_STUCK_AT_0" =>
          /\ RestShown /\ TripShown
          /\ seen.released = diag.default /\ diag.thr = "NORMAL"
    /\ diag.st = "FEEDBACK_UPDATED" /\ diag.errors = {} => RestShown /\ TripShown /\ ReleaseShown

SelfTestInv == TypeOK /\ PhaseEvidence

\* The typed fields that the proofs below calculate with.
LEMMA SelfTestTypes ==
    ASSUME TypeOK, NEW pin \in BOOLEAN
    PROVE  /\ TotalSamples \in Nat /\ DecisionSamples \in 1..TotalSamples
           /\ diag \in DiagType /\ Latch(diag, pin) \in DiagType
           /\ diag.active \in Nat /\ diag.default \in Nat
           /\ seen.rest \in 0..TotalSamples /\ seen.tripped \in 0..TotalSamples
           /\ seen.released \in 0..TotalSamples
           /\ DiagnosticHandler(Latch(diag, pin), pin) \in DiagType
BY DiagConstants, DiagLatchType, DiagHandlerType DEF TypeOK, DiagType

\* A sample, on the latched record.
LEMMA SampleSplit ==
    ASSUME NEW d \in DiagType, NEW pin \in BOOLEAN
    PROVE  LET s == Sampled(d, pin)
           IN  /\ s \in DiagType
               /\ s.st = d.st /\ s.thr = d.thr /\ s.zero = d.zero /\ s.one = d.one
               /\ s.errors = d.errors
               /\ s.active = d.active + (IF pin THEN 1 ELSE 0)
               /\ s.default = d.default + (IF pin THEN 0 ELSE 1)
<1>1. CASE pin
  BY <1>1 DEF Sampled, DiagType
<1>2. CASE ~pin
  BY <1>2 DEF Sampled, DiagType
<1> QED
  BY <1>1, <1>2

\* The ways a phase ends, field by field.
LEMMA FailsFields ==
    ASSUME NEW s \in DiagType, NEW e \in DiagErrors
    PROVE  LET f == Fails(s, e)
           IN  /\ f \in DiagType /\ f.st = "FEEDBACK_UPDATED" /\ f.errors # {}
               /\ f.active = s.active /\ f.default = s.default
               /\ f.zero = s.zero /\ f.one = s.one
<1>1. Fails(s, e) \in DiagType
  BY DEF Fails, DiagType, DiagStates
<1>2. /\ Fails(s, e).st = "FEEDBACK_UPDATED" /\ e \in Fails(s, e).errors
      /\ Fails(s, e).active = s.active /\ Fails(s, e).default = s.default
      /\ Fails(s, e).zero = s.zero /\ Fails(s, e).one = s.one
  BY DEF Fails, DiagType
<1> QED
  BY <1>1, <1>2

LEMMA AdvancesFields ==
    ASSUME NEW s \in DiagType, NEW e, NEW n \in DiagStates, NEW t \in {"NORMAL", "TEST"}
    PROVE  LET a == Advances(s, e, n, t)
           IN  /\ a \in DiagType /\ a.st = n /\ a.thr = t
               /\ a.active = 0 /\ a.default = 0
               /\ a.zero = s.zero /\ a.one = s.one
<1>1. Advances(s, e, n, t) \in DiagType
  BY DEF Advances, DiagType
<1>2. /\ Advances(s, e, n, t).st = n /\ Advances(s, e, n, t).thr = t
      /\ Advances(s, e, n, t).active = 0 /\ Advances(s, e, n, t).default = 0
      /\ Advances(s, e, n, t).zero = s.zero /\ Advances(s, e, n, t).one = s.one
  BY DEF Advances, DiagType
<1> QED
  BY <1>1, <1>2

\* The handler's call in the phase with the fault input at rest.
LEMMA PolEvident ==
    ASSUME SelfTestInv, NEW pin \in BOOLEAN, Handler(pin), diag.st = "CHECK_SIGNAL_POL"
    PROVE  SelfTestInv'
<1> DEFINE n == [Latch(diag, pin) EXCEPT !.thr = "NORMAL"]
           s == Sampled(n, pin)
<1> USE SelfTestTypes DEF SelfTestInv
<1>1. /\ diag' = CheckSignalPol(Latch(diag, pin), pin)
      /\ seen' = IF pin THEN seen ELSE [seen EXCEPT !.rest = @ + 1]
  BY DEF Handler, DiagnosticHandler, Latch, Evidence, DiagType
<1>2. /\ n \in DiagType /\ n.st = diag.st /\ n.thr = "NORMAL" /\ n.zero = diag.zero
      /\ n.one = diag.one /\ n.active = diag.active /\ n.default = diag.default
  BY DEF Latch, DiagType
<1> HIDE DEF n
<1>3. /\ s \in DiagType /\ s.st = diag.st /\ s.zero = diag.zero /\ s.one = diag.one
      /\ s.active = diag.active + (IF pin THEN 1 ELSE 0)
      /\ s.default = diag.default + (IF pin THEN 0 ELSE 1)
  BY <1>2, SampleSplit
<1>4. diag' = IF ~Complete(s) THEN s
              ELSE IF s.active >= DecisionSamples THEN Fails(s, "SHUTDOWN_ALREADY_ON")
              ELSE Advances(s, "SHUTDOWN_ALREADY_ON", "CHECK_STUCK_AT_1", "TEST")
  BY <1>1 DEF CheckSignalPol, s, n
<1> HIDE DEF s
<1>5. /\ diag.active + diag.default < TotalSamples /\ seen.rest = diag.default
      /\ seen.tripped = 0 /\ seen.released = 0
      /\ diag.zero <= ZeroTime /\ diag.one <= OneTime
  BY DEF PhaseEvidence, Phases, Samples, TypeOK
<1>6. /\ seen' \in [rest : 0..TotalSamples, tripped : 0..TotalSamples, released : 0..TotalSamples]
      /\ seen'.rest = s.default /\ seen'.tripped = 0 /\ seen'.released = 0
  BY <1>1, <1>3, <1>5 DEF TypeOK
<1>7. s.active + s.default <= TotalSamples /\ (Complete(s) => s.active + s.default = TotalSamples)
  BY <1>3, <1>5 DEF Complete
<1>8. CASE ~Complete(s)
  BY <1>3, <1>4, <1>5, <1>6, <1>7, <1>8 DEF PhaseEvidence, TypeOK, Samples, Phases, Complete
<1>9. CASE Complete(s) /\ s.active >= DecisionSamples
  <2>1. /\ diag' \in DiagType /\ diag'.st = "FEEDBACK_UPDATED" /\ diag'.errors # {}
        /\ diag'.active = s.active /\ diag'.default = s.default
        /\ diag'.zero = s.zero /\ diag'.one = s.one
    <3>1. diag' = Fails(s, "SHUTDOWN_ALREADY_ON") /\ "SHUTDOWN_ALREADY_ON" \in DiagErrors
      BY <1>4, <1>9 DEF DiagErrors
    <3> QED
      BY <1>3, <3>1, FailsFields
  <2> QED
    BY <1>3, <1>5, <1>6, <1>7, <2>1 DEF PhaseEvidence, TypeOK, Phases
<1>10. CASE Complete(s) /\ ~(s.active >= DecisionSamples)
  <2>1. /\ diag' \in DiagType /\ diag'.st = "CHECK_STUCK_AT_1" /\ diag'.thr = "TEST"
        /\ diag'.active = 0 /\ diag'.default = 0
        /\ diag'.zero = s.zero /\ diag'.one = s.one
    <3>1. /\ diag' = Advances(s, "SHUTDOWN_ALREADY_ON", "CHECK_STUCK_AT_1", "TEST")
          /\ "CHECK_STUCK_AT_1" \in DiagStates
      BY <1>4, <1>10 DEF DiagStates
    <3> QED
      BY <1>3, <3>1, AdvancesFields
  <2>2. seen'.rest > TotalSamples - DecisionSamples
    BY <1>3, <1>6, <1>7, <1>10
  <2> QED
    BY <1>3, <1>5, <1>6, <2>1, <2>2 DEF PhaseEvidence, TypeOK, Phases, Samples, RestShown
<1> QED
  BY <1>8, <1>9, <1>10

\* The phase with the comparator tripped.
LEMMA At1Evident ==
    ASSUME SelfTestInv, NEW pin \in BOOLEAN, Handler(pin), diag.st = "CHECK_STUCK_AT_1"
    PROVE  SelfTestInv'
<1> DEFINE n == Latch(diag, pin)
           s == Sampled(n, pin)
<1> USE SelfTestTypes DEF SelfTestInv
<1>1. /\ diag' = CheckStuckAt1(n, pin)
      /\ seen' = IF pin /\ diag.zero = 0 /\ diag.thr = "TEST"
                 THEN [seen EXCEPT !.tripped = @ + 1] ELSE seen
  BY DEF Handler, DiagnosticHandler, Latch, Evidence, DiagType
<1>2. /\ n \in DiagType /\ n.st = diag.st /\ n.thr = diag.thr /\ n.zero = diag.zero
      /\ n.one = diag.one /\ n.active = diag.active /\ n.default = diag.default
  BY DEF Latch, DiagType
<1> HIDE DEF n
<1>3. /\ s \in DiagType /\ s.st = diag.st /\ s.zero = diag.zero /\ s.one = diag.one
      /\ s.thr = diag.thr
      /\ s.active = diag.active + (IF pin THEN 1 ELSE 0)
      /\ s.default = diag.default + (IF pin THEN 0 ELSE 1)
  BY <1>2, SampleSplit
<1>4. diag' = IF diag.zero > 0 THEN Settling(n)
              ELSE IF ~Complete(s) THEN s
              ELSE IF s.active >= DecisionSamples
              THEN Advances(s, "REGISTER_STUCK_AT_1", "CHECK_STUCK_AT_0", "NORMAL")
              ELSE Fails(s, "REGISTER_STUCK_AT_1")
  BY <1>1, <1>2 DEF CheckStuckAt1, s
<1> HIDE DEF s
<1>5. /\ diag.active + diag.default < TotalSamples /\ seen.tripped = diag.active
      /\ seen.released = 0 /\ RestShown /\ diag.thr = "TEST"
      /\ diag.zero \in Nat /\ diag.zero <= ZeroTime /\ diag.one <= OneTime
  BY DEF PhaseEvidence, Phases, Samples, TypeOK, DiagType
<1>6. CASE diag.zero > 0
  <2>1. /\ diag' \in DiagType /\ diag'.st = diag.st /\ diag'.thr = "TEST"
        /\ diag'.zero = diag.zero - 1 /\ diag'.one = diag.one
        /\ diag'.active = diag.active /\ diag'.default = diag.default
    BY <1>2, <1>4, <1>5, <1>6 DEF Settling, DiagType
  <2>2. seen' = seen
    BY <1>1, <1>6
  <2> QED
    BY <1>5, <2>1, <2>2, DiagConstants
       DEF PhaseEvidence, TypeOK, Phases, Samples, RestShown
<1>7. CASE diag.zero = 0
  <2>0. /\ ~Complete(s) => diag' = s
        /\ Complete(s) /\ s.active >= DecisionSamples =>
              diag' = Advances(s, "REGISTER_STUCK_AT_1", "CHECK_STUCK_AT_0", "NORMAL")
        /\ Complete(s) /\ ~(s.active >= DecisionSamples) => diag' = Fails(s, "REGISTER_STUCK_AT_1")
    BY <1>4, <1>7
  <2>1. /\ seen' \in [rest : 0..TotalSamples, tripped : 0..TotalSamples, released : 0..TotalSamples]
        /\ seen'.tripped = s.active /\ seen'.released = 0 /\ seen'.rest = seen.rest
    BY <1>1, <1>3, <1>5, <1>7 DEF TypeOK
  <2>2. /\ s.active + s.default <= TotalSamples
        /\ Complete(s) => s.active + s.default = TotalSamples
        /\ ~Complete(s) => s.active + s.default < TotalSamples
    BY <1>3, <1>5 DEF Complete
  <2>3. CASE ~Complete(s)
    BY <1>3, <1>5, <1>7, <2>0, <2>1, <2>2, <2>3
       DEF PhaseEvidence, TypeOK, Samples, Phases, RestShown
  <2>4. CASE Complete(s) /\ s.active >= DecisionSamples
    <3>1. /\ diag' \in DiagType /\ diag'.st = "CHECK_STUCK_AT_0" /\ diag'.thr = "NORMAL"
          /\ diag'.active = 0 /\ diag'.default = 0
          /\ diag'.zero = s.zero /\ diag'.one = s.one
      <4>1. /\ diag' = Advances(s, "REGISTER_STUCK_AT_1", "CHECK_STUCK_AT_0", "NORMAL")
            /\ "CHECK_STUCK_AT_0" \in DiagStates
        BY <2>0, <2>4 DEF DiagStates
      <4> QED
        BY <1>3, <4>1, AdvancesFields
    <3> QED
      BY <1>3, <1>5, <2>1, <2>4, <3>1
         DEF PhaseEvidence, TypeOK, Phases, Samples, RestShown, TripShown
  <2>5. CASE Complete(s) /\ ~(s.active >= DecisionSamples)
    <3>1. /\ diag' \in DiagType /\ diag'.st = "FEEDBACK_UPDATED" /\ diag'.errors # {}
          /\ diag'.active = s.active /\ diag'.default = s.default
          /\ diag'.zero = s.zero /\ diag'.one = s.one
      <4>1. "REGISTER_STUCK_AT_1" \in DiagErrors /\ diag' = Fails(s, "REGISTER_STUCK_AT_1")
        BY <2>0, <2>5 DEF DiagErrors
      <4> HIDE DEF s
      <4> QED
        BY <1>3, <4>1, FailsFields
    <3> QED
      BY <1>3, <1>5, <2>1, <2>2, <3>1 DEF PhaseEvidence, TypeOK, Phases
  <2> QED
    BY <2>3, <2>4, <2>5
<1> QED
  BY <1>5, <1>6, <1>7

\* The phase after the release.
LEMMA At0Evident ==
    ASSUME SelfTestInv, NEW pin \in BOOLEAN, Handler(pin), diag.st = "CHECK_STUCK_AT_0"
    PROVE  SelfTestInv'
<1> DEFINE n == Latch(diag, pin)
           s == Sampled(n, pin)
<1> USE SelfTestTypes DEF SelfTestInv
<1>1. /\ diag' = CheckStuckAt0(n, pin)
      /\ seen' = IF ~pin /\ diag.one = 0 /\ diag.thr = "NORMAL"
                 THEN [seen EXCEPT !.released = @ + 1] ELSE seen
  BY DEF Handler, DiagnosticHandler, Latch, Evidence, DiagType
<1>2. /\ n \in DiagType /\ n.st = diag.st /\ n.thr = diag.thr /\ n.zero = diag.zero
      /\ n.one = diag.one /\ n.active = diag.active /\ n.default = diag.default
  BY DEF Latch, DiagType
<1> HIDE DEF n
<1>3. /\ s \in DiagType /\ s.st = diag.st /\ s.zero = diag.zero /\ s.one = diag.one
      /\ s.thr = diag.thr
      /\ s.active = diag.active + (IF pin THEN 1 ELSE 0)
      /\ s.default = diag.default + (IF pin THEN 0 ELSE 1)
  BY <1>2, SampleSplit
<1>4. diag' = IF diag.one > 0 THEN [n EXCEPT !.one = @ - 1]
              ELSE IF ~Complete(s) THEN s
              ELSE IF s.default >= DecisionSamples
              THEN ClearFaultFlag([s EXCEPT !.errors = @ \ {"REGISTER_STUCK_AT_0"},
                                            !.st = "FEEDBACK_UPDATED"], pin)
              ELSE Fails(s, "REGISTER_STUCK_AT_0")
  BY <1>1, <1>2 DEF CheckStuckAt0, s
<1> HIDE DEF s
<1>5. /\ diag.active + diag.default < TotalSamples /\ seen.released = diag.default
      /\ RestShown /\ TripShown /\ diag.thr = "NORMAL"
      /\ diag.one \in Nat /\ diag.zero <= ZeroTime /\ diag.one <= OneTime
  BY DEF PhaseEvidence, Phases, Samples, TypeOK, DiagType
<1>6. CASE diag.one > 0
  <2>1. /\ diag' \in DiagType /\ diag'.st = diag.st /\ diag'.thr = "NORMAL"
        /\ diag'.one = diag.one - 1 /\ diag'.zero = diag.zero
        /\ diag'.active = diag.active /\ diag'.default = diag.default
    BY <1>2, <1>4, <1>5, <1>6 DEF DiagType
  <2>2. seen' = seen
    BY <1>1, <1>6
  <2> QED
    BY <1>5, <2>1, <2>2, DiagConstants
       DEF PhaseEvidence, TypeOK, Phases, Samples, RestShown, TripShown
<1>7. CASE diag.one = 0
  <2> DEFINE r == [s EXCEPT !.errors = @ \ {"REGISTER_STUCK_AT_0"}, !.st = "FEEDBACK_UPDATED"]
  <2>0. /\ ~Complete(s) => diag' = s
        /\ Complete(s) /\ s.default >= DecisionSamples => diag' = ClearFaultFlag(r, pin)
        /\ Complete(s) /\ ~(s.default >= DecisionSamples) => diag' = Fails(s, "REGISTER_STUCK_AT_0")
    BY <1>4, <1>7
  <2>1. /\ seen' \in [rest : 0..TotalSamples, tripped : 0..TotalSamples, released : 0..TotalSamples]
        /\ seen'.released = s.default /\ seen'.tripped = seen.tripped /\ seen'.rest = seen.rest
    BY <1>1, <1>3, <1>5, <1>7 DEF TypeOK
  <2>2. /\ s.active + s.default <= TotalSamples
        /\ Complete(s) => s.active + s.default = TotalSamples
        /\ ~Complete(s) => s.active + s.default < TotalSamples
    BY <1>3, <1>5 DEF Complete
  <2>3. CASE ~Complete(s)
    BY <1>3, <1>5, <1>7, <2>0, <2>1, <2>2, <2>3
       DEF PhaseEvidence, TypeOK, Samples, Phases, RestShown, TripShown
  <2>4. CASE Complete(s) /\ s.default >= DecisionSamples
    <3>1. /\ diag' \in DiagType /\ diag'.st = "FEEDBACK_UPDATED"
          /\ diag'.active = s.active /\ diag'.default = s.default
          /\ diag'.zero = s.zero /\ diag'.one = s.one
      <4>1. /\ r \in DiagType /\ r.st = "FEEDBACK_UPDATED"
            /\ r.active = s.active /\ r.default = s.default
            /\ r.zero = s.zero /\ r.one = s.one
        BY <1>3 DEF DiagType, DiagStates, DiagErrors
      <4> HIDE DEF r
      <4>2. /\ ClearFaultFlag(r, pin) \in DiagType /\ ClearFaultFlag(r, pin).st = r.st
            /\ ClearFaultFlag(r, pin).active = r.active /\ ClearFaultFlag(r, pin).default = r.default
            /\ ClearFaultFlag(r, pin).zero = r.zero /\ ClearFaultFlag(r, pin).one = r.one
        BY <4>1, DiagLatchType DEF ClearFaultFlag, DiagType
      <4> QED
        BY <2>0, <2>4, <4>1, <4>2
    <3> QED
      BY <1>3, <1>5, <2>1, <2>2, <2>4, <3>1
         DEF PhaseEvidence, TypeOK, Phases, RestShown, TripShown, ReleaseShown
  <2>5. CASE Complete(s) /\ ~(s.default >= DecisionSamples)
    <3>1. /\ diag' \in DiagType /\ diag'.st = "FEEDBACK_UPDATED" /\ diag'.errors # {}
          /\ diag'.active = s.active /\ diag'.default = s.default
          /\ diag'.zero = s.zero /\ diag'.one = s.one
      <4>1. "REGISTER_STUCK_AT_0" \in DiagErrors /\ diag' = Fails(s, "REGISTER_STUCK_AT_0")
        BY <2>0, <2>5 DEF DiagErrors
      <4> HIDE DEF s
      <4> QED
        BY <1>3, <4>1, FailsFields
    <3> QED
      BY <1>3, <1>5, <2>1, <2>2, <3>1 DEF PhaseEvidence, TypeOK, Phases
  <2> QED
    BY <2>3, <2>4, <2>5
<1> QED
  BY <1>5, <1>6, <1>7

\* Every step of the self test and of its clients.
LEMMA SelfTestStep == SelfTestInv /\ [Next]_vars => SelfTestInv'
<1> SUFFICES ASSUME SelfTestInv, [Next]_vars PROVE SelfTestInv'
  OBVIOUS
<1> USE DEF SelfTestInv
<1>1. ASSUME NEW pin \in BOOLEAN, Handler(pin) PROVE SelfTestInv'
  <2>1. CASE diag.st \in {"WAITING_TO_CHECK", "FEEDBACK_UPDATED"}
    <3>1. /\ diag' \in DiagType /\ seen' = seen
          /\ diag'.st = diag.st /\ diag'.errors = diag.errors
          /\ diag'.zero = diag.zero /\ diag'.one = diag.one
          /\ \/ diag'.active = 0 /\ diag'.default = 0
             \/ diag'.active = diag.active /\ diag'.default = diag.default
      <4> DEFINE n == Latch(diag, pin)
      <4>1. /\ n \in DiagType /\ n.st = diag.st /\ n.errors = diag.errors
            /\ n.zero = diag.zero /\ n.one = diag.one
            /\ n.active = diag.active /\ n.default = diag.default
        BY SelfTestTypes DEF Latch, DiagType
      <4>2. diag' = DiagnosticHandler(n, pin) /\ seen' = seen
        BY <1>1, <2>1 DEF Handler, Evidence
      <4> HIDE DEF n
      <4> QED
        BY <2>1, <4>1, <4>2 DEF DiagnosticHandler, NoTest, DiagType
    <3> QED
      BY <2>1, <3>1, SelfTestTypes
         DEF PhaseEvidence, TypeOK, Phases, RestShown, TripShown, ReleaseShown
  <2> QED
    BY <1>1, <2>1, PolEvident, At1Evident, At0Evident DEF TypeOK, DiagType, DiagStates
<1>2. CASE Enable
  <2>1. CASE diag.st = "WAITING_TO_CHECK"
    <3>1. /\ diag' \in DiagType /\ seen' = NoSamples /\ diag'.st = "CHECK_SIGNAL_POL"
          /\ diag'.zero = ZeroTime /\ diag'.one = OneTime
          /\ diag'.active = 0 /\ diag'.default = 0
      <4>1. diag' \in DiagType
        BY <1>2, DiagCallType DEF Enable, TypeOK
      <4> QED
        BY <1>2, <2>1, <4>1, DiagConstants
           DEF Enable, EnableDiagnostic, PhaseEvidence, TypeOK, DiagType
    <3> QED
      BY <3>1, DiagConstants DEF PhaseEvidence, TypeOK, Phases, Samples, NoSamples
  <2>2. CASE diag.st # "WAITING_TO_CHECK"
    <3>1. UNCHANGED vars
      BY <1>2, <2>2 DEF Enable, EnableDiagnostic, vars
    <3> QED
      BY <3>1 DEF vars, PhaseEvidence, TypeOK, Samples, RestShown, TripShown, ReleaseShown
  <2> QED
    BY <2>1, <2>2
<1>3. CASE GetFeedback
  <2>1. CASE diag.st = "FEEDBACK_UPDATED"
    <3>1. /\ diag' \in DiagType /\ seen' = NoSamples /\ diag'.st = "WAITING_TO_CHECK"
          /\ diag'.zero = diag.zero /\ diag'.one = diag.one
          /\ diag'.active = diag.active /\ diag'.default = diag.default
      BY <1>3, <2>1, DiagCallType DEF GetFeedback, FeedbackRead, TypeOK, DiagType, DiagStates
    <3> QED
      BY <3>1, DiagConstants DEF PhaseEvidence, TypeOK, Phases, NoSamples
  <2>2. CASE diag.st # "FEEDBACK_UPDATED"
    BY <1>3, <2>2 DEF GetFeedback, FeedbackRead, PhaseEvidence, TypeOK, Samples, RestShown,
                      TripShown, ReleaseShown
  <2> QED
    BY <2>1, <2>2
<1>4. ASSUME NEW pin \in BOOLEAN, TurnOffAllGates(pin) PROVE SelfTestInv'
  <2>1. /\ diag' \in DiagType /\ seen' = seen
        /\ diag'.st = diag.st /\ diag'.errors = diag.errors /\ diag'.thr = diag.thr
        /\ diag'.zero = diag.zero /\ diag'.one = diag.one
        /\ diag'.active = diag.active /\ diag'.default = diag.default
    BY <1>4, DiagLatchType DEF TurnOffAllGates, ClearFaultFlag, TypeOK, DiagType
  <2> QED
    BY <2>1 DEF PhaseEvidence, TypeOK, Samples, RestShown, TripShown, ReleaseShown
<1>5. CASE UNCHANGED vars
  BY <1>5 DEF vars, PhaseEvidence, TypeOK, Samples, RestShown, TripShown, ReleaseShown
<1> QED
  BY <1>1, <1>2, <1>3, <1>4, <1>5 DEF Next

LEMMA SelfTestInit == Init => SelfTestInv
BY DiagConstants
   DEF Init, SelfTestInv, TypeOK, PhaseEvidence, DiagInit, DiagType, DiagStates, DiagErrors,
       NoSamples, Samples, Phases

(* The evidence of a test that is going on is in the driver's counters.    *)
THEOREM EvidenceCounts == Spec => []SelfTestInv
BY SelfTestInit, SelfTestStep, PTL DEF Spec

(* SafeMeansTested for every number of samples, majority and settling      *)
(* time: a SAFE result rests on one whole test of its own.                 *)
THEOREM SafeTested == Spec => []SafeMeansTested
<1>1. SelfTestInv => SafeMeansTested
  BY DEF SelfTestInv, PhaseEvidence, SafeMeansTested, RestShown, TripShown, ReleaseShown
<1> QED
  BY <1>1, EvidenceCounts, PTL

--------------------------------------------------------------------------------
(* The words that the main loop and the interrupts of class B share.  What *)
(* the main loop may still have to do where it is, ...                     *)
NewFault == SetFault("BY_MAIN_LOOP")

OpsFit ==
    /\ main.pc \in {"waiting", "dispatch", "finish", "slow"} => main.ops = <<>>
    /\ main.pc \in {"judge", "end"} => main.ops \in {<<>>, <<NewFault>>}
    /\ main.pc = "shutdown" =>
          /\ mgr = "RUNNING"
          /\ main.ops \in {<<>>, <<OtherFlag>>, <<OtherFlag, NewFault>>, <<NewFault>>}
    /\ main.pc = "settle" =>
          /\ mgr = "POSTRUN_TESTS"
          /\ main.ops \in {<<>>, <<NewFault>>, <<SetFlag("UNLOCK_DOOR_SPEED_CHECK_REQUESTED")>>,
                           <<NewFault, SetFlag("UNLOCK_DOOR_SPEED_CHECK_REQUESTED")>>}
    /\ main.pc \in {"enable", "finish", "decide"} => mgr = "PRERUN_TESTS"
    /\ main.pc = "enable" =>
          main.ops \in {<<>>, <<ClearFlag("PRERUN_TESTS_FINISHED")>>,
                        <<ClearFlag("REQUESTED_TO_START"), ClearFlag("PRERUN_TESTS_FINISHED")>>}
    /\ main.pc = "decide" => main.ops \in {<<>>, MovingOps}
    /\ main.pc = "force" => main.ops \in {<<>>, <<OtherFlag>>}
    /\ main.pc = "back" =>
          \/ main.ops \in {<<>>, <<SetFault("OVER_LOAD")>>, <<ClearFault("OVER_LOAD")>>}
          \/ main.ops \in {<<SetFlag("MC_PARAMETERS_LOADED")>>, <<ClearFlag("MC_PARAMETERS_LOADED")>>}

\* ... and where it stores a state.
GoalFits ==
    main.pc = "move" =>
        \/ mgr = "RUNNING" /\ main.goal = "POSTRUN_TESTS" /\ main.ops = <<>>
        \/ /\ mgr = "POSTRUN_TESTS" /\ main.goal = "IDLE"
           /\ main.ops \in {<<>>, <<ClearFlag("REQUESTED_TO_START")>>}
        \/ /\ mgr = "IDLE" /\ main.goal = "PRERUN_TESTS"
           /\ main.ops \in {<<>>, <<ClearFlag("UNLOCK_DOOR_SPEED_CHECK_REQUESTED")>>,
                            <<OtherFlag, ClearFlag("UNLOCK_DOOR_SPEED_CHECK_REQUESTED")>>}
        \/ /\ mgr = "IDLE" /\ main.goal = "UNLOCK_DOOR_CHECK"
           /\ main.ops \in {<<>>, <<ClearFlag("UNLOCK_DOOR_SPEED_CHECK_REQUESTED")>>}
        \/ /\ mgr = "UNLOCK_DOOR_CHECK" /\ main.goal = "IDLE"
           /\ main.ops \in {<<>>, <<SetFlag("UNLOCK_DOOR_SPEED")>>}
        \/ /\ mgr = "INITIALIZE" /\ main.goal = "POSTRUN_TESTS"
           /\ main.ops \in {<<>>, <<OtherFlag>>}
        \/ /\ mgr = "ERROR_FOUND" /\ main.goal = "POSTRUN_TESTS"
           /\ main.ops \in {<<>>, MovingOps}

\* A word that is loaded and not yet stored counts like the word itself: the
\* store brings it back.
Holds(word) == main.busy /\ Head(main.ops).word = word
FlagsAround == words.flags \cup (IF Holds("flags") THEN main.held ELSE {})
FaultsAround == words.fault \cup (IF Holds("fault") THEN main.held ELSE {})

WordTypes ==
    /\ words \in [flags : SUBSET MgrFlags, fault : SUBSET MgrFaults]
    /\ main = [pc |-> main.pc, ops |-> main.ops, goal |-> main.goal,
               busy |-> main.busy, held |-> main.held]
    /\ main.pc \in {"waiting", "judge", "dispatch", "enable", "finish", "decide", "shutdown",
                    "settle", "force", "move", "end", "slow", "back"}
    /\ main.goal \in MgrStates /\ main.busy \in BOOLEAN
    /\ main.busy => main.ops # <<>>
    /\ FlagsAround \subseteq MgrFlags /\ FaultsAround \subseteq MgrFaults

\* Between two slots the main loop writes to the flags only as long as class A
\* has no parameters, and so before it ever asks for a start.
OutsideSlot == {"slow", "back", "waiting"}

KnownParams ==
    /\ loaded => /\ "MC_PARAMETERS_LOADED" \in words.flags
                 /\ Holds("flags") => "MC_PARAMETERS_LOADED" \in main.held
                 /\ main.pc # "force"
                 /\ main.ops \notin {<<SetFlag("MC_PARAMETERS_LOADED")>>,
                                     <<ClearFlag("MC_PARAMETERS_LOADED")>>}
    /\ asks # "idle" => loaded
    /\ FlagsAround \cap {"REQUESTED_TO_START", "CLASS_A_PWM_ACCESS"} # {} => loaded
    /\ mgr \in {"PRERUN_TESTS", "RUNNING"} => loaded
    /\ main.pc = "move" /\ main.goal = "PRERUN_TESTS" => loaded

\* The door's release is gone before the motor runs, and the access when the
\* first slot after the run begins.
DoorWords ==
    /\ mgr = "RUNNING" \/ (main.pc = "decide" /\ main.ops = <<>>) =>
          "UNLOCK_DOOR_SPEED" \notin FlagsAround
    /\ "CLASS_A_PWM_ACCESS" \in FlagsAround =>
          /\ "UNLOCK_DOOR_SPEED" \notin FlagsAround
          /\ \/ mgr = "RUNNING"
             \/ mgr = "ERROR_FOUND" /\ main.pc \notin OutsideSlot
             \/ mgr \in {"ERROR_FOUND", "POSTRUN_TESTS"} /\ main.pc \in OutsideSlot /\ ~pwm

\* Only the error state takes faults away, and there none is pending.
FaultWords ==
    /\ pending => words.fault # {} /\ mgr # "ERROR_FOUND"
    /\ main.ops = <<ClearFault("OVER_LOAD")>> => mgr = "ERROR_FOUND"
    /\ main.ops = <<SetFault("OVER_LOAD")>> => mgr # "INITIALIZE"
    /\ "OVER_LOAD" \in FaultsAround =>
          \/ mgr = "ERROR_FOUND" /\ main.pc # "move"
          \/ mgr # "INITIALIZE" /\ main.pc \in {"back", "waiting", "force", "judge"}

WordsInv == WordTypes /\ OpsFit /\ GoalFits /\ KnownParams /\ DoorWords /\ FaultWords

\* Lists of one and of two operations.
LEMMA ShortLists ==
    ASSUME NEW a, NEW b
    PROVE  /\ <<a>> # <<>> /\ <<a, b>> # <<>> /\ <<a>> # <<a, b>>
           /\ Head(<<a>>) = a /\ Tail(<<a>>) = <<>> /\ Len(<<a>>) = 1
           /\ Head(<<a, b>>) = a /\ Tail(<<a, b>>) = <<b>> /\ Len(<<a, b>>) = 2
<1>1. /\ <<a>> # <<>> /\ <<a, b>> # <<>> /\ <<a>> # <<a, b>>
  OBVIOUS
<1>2. /\ Head(<<a>>) = a /\ Tail(<<a>>) = <<>> /\ Len(<<a>>) = 1
  OBVIOUS
<1>3. /\ Head(<<a, b>>) = a /\ Len(<<a, b>>) = 2
  OBVIOUS
<1>4. Tail(<<a, b>>) = <<b>>
  OBVIOUS
<1> QED
  BY <1>1, <1>2, <1>3, <1>4

\* The operations there are.
MainOps ==
    {NewFault, SetFault("OVER_LOAD"), ClearFault("OVER_LOAD"), OtherFlag,
     SetFlag("UNLOCK_DOOR_SPEED_CHECK_REQUESTED"), ClearFlag("UNLOCK_DOOR_SPEED_CHECK_REQUESTED"),
     SetFlag("UNLOCK_DOOR_SPEED"), ClearFlag("UNLOCK_DOOR_SPEED"),
     SetFlag("MC_PARAMETERS_LOADED"), ClearFlag("MC_PARAMETERS_LOADED"),
     ClearFlag("REQUESTED_TO_START"), ClearFlag("PRERUN_TESTS_FINISHED")}

\* What the proofs need to know of the one that is next, and of the rest.
NextFits(op, rest) ==
    /\ op \in MainOps
    /\ op = SetFlag("UNLOCK_DOOR_SPEED") => mgr = "UNLOCK_DOOR_CHECK" /\ main.pc = "move"
    /\ main.pc = "decide" => op = ClearFlag("UNLOCK_DOOR_SPEED")
    /\ op \in {SetFault("OVER_LOAD"), ClearFault("OVER_LOAD"),
               SetFlag("MC_PARAMETERS_LOADED"), ClearFlag("MC_PARAMETERS_LOADED")} =>
          main.ops = <<op>> /\ main.pc = "back"
    /\ op.word = "flags" /\ main.pc \in OutsideSlot =>
          op \in {SetFlag("MC_PARAMETERS_LOADED"), ClearFlag("MC_PARAMETERS_LOADED")}
    /\ rest \notin {<<SetFault("OVER_LOAD")>>, <<ClearFault("OVER_LOAD")>>,
                    <<SetFlag("MC_PARAMETERS_LOADED")>>, <<ClearFlag("MC_PARAMETERS_LOADED")>>}

LEMMA NextOp ==
    ASSUME WordTypes, OpsFit, GoalFits, main.ops # <<>>
    PROVE  NextFits(Head(main.ops), Tail(main.ops))
<1>1. \/ main.pc \in {"judge", "end", "settle", "shutdown"} /\ main.ops = <<NewFault>>
      \/ main.pc = "shutdown" /\ main.ops \in {<<OtherFlag>>, <<OtherFlag, NewFault>>}
      \/ main.pc = "settle" /\ main.ops \in {<<SetFlag("UNLOCK_DOOR_SPEED_CHECK_REQUESTED")>>,
                           <<NewFault, SetFlag("UNLOCK_DOOR_SPEED_CHECK_REQUESTED")>>}
      \/ main.pc = "enable" /\ main.ops \in {<<ClearFlag("PRERUN_TESTS_FINISHED")>>,
                        <<ClearFlag("REQUESTED_TO_START"), ClearFlag("PRERUN_TESTS_FINISHED")>>}
      \/ main.pc = "decide" /\ main.ops = MovingOps
      \/ main.pc = "force" /\ main.ops = <<OtherFlag>>
      \/ main.pc = "back" /\ main.ops \in {<<SetFault("OVER_LOAD")>>, <<ClearFault("OVER_LOAD")>>,
            <<SetFlag("MC_PARAMETERS_LOADED")>>, <<ClearFlag("MC_PARAMETERS_LOADED")>>}
      \/ main.pc = "move" /\ main.ops \in {<<ClearFlag("REQUESTED_TO_START")>>, <<OtherFlag>>, MovingOps,
            <<ClearFlag("UNLOCK_DOOR_SPEED_CHECK_REQUESTED")>>,
            <<OtherFlag, ClearFlag("UNLOCK_DOOR_SPEED_CHECK_REQUESTED")>>}
      \/ main.pc = "move" /\ main.ops = <<SetFlag("UNLOCK_DOOR_SPEED")>> /\ mgr = "UNLOCK_DOOR_CHECK"
  BY DEF WordTypes, OpsFit, GoalFits
<1> DEFINE op == Head(main.ops)
           rest == Tail(main.ops)
           check == ClearFlag("UNLOCK_DOOR_SPEED_CHECK_REQUESTED")
           checked == SetFlag("UNLOCK_DOOR_SPEED_CHECK_REQUESTED")
           untested == ClearFlag("PRERUN_TESTS_FINISHED")
<1>9. /\ \A a : main.ops = <<a>> => op = a /\ rest = <<>>
      /\ \A a, b : main.ops = <<a, b>> => op = a /\ rest = <<b>>
  <2>1. ASSUME NEW a, main.ops = <<a>> PROVE op = a /\ rest = <<>>
    BY <2>1, ShortLists
  <2>2. ASSUME NEW a, NEW b, main.ops = <<a, b>> PROVE op = a /\ rest = <<b>>
    BY <2>2, ShortLists
  <2> QED
    BY <2>1, <2>2
<1> HIDE DEF op, rest
<1>2. \/ /\ main.pc \in {"judge", "end", "settle", "shutdown"} /\ op = NewFault
         /\ rest \in {<<>>, <<checked>>}
      \/ main.pc = "shutdown" /\ op = OtherFlag /\ rest \in {<<>>, <<NewFault>>}
      \/ main.pc = "settle" /\ op = checked /\ rest = <<>>
      \/ main.pc = "enable" /\ op = untested /\ rest = <<>>
      \/ main.pc = "enable" /\ op = ClearFlag("REQUESTED_TO_START") /\ rest = <<untested>>
      \/ main.pc = "decide" /\ op = ClearFlag("UNLOCK_DOOR_SPEED") /\ rest = <<>>
      \/ main.pc \in {"force", "move"} /\ op = OtherFlag /\ rest \in {<<>>, <<check>>}
      \/ /\ main.pc = "back" /\ main.ops = <<op>> /\ rest = <<>>
         /\ op \in {SetFault("OVER_LOAD"), ClearFault("OVER_LOAD"),
                    SetFlag("MC_PARAMETERS_LOADED"), ClearFlag("MC_PARAMETERS_LOADED")}
      \/ /\ main.pc = "move" /\ rest = <<>>
         /\ op \in {ClearFlag("REQUESTED_TO_START"), ClearFlag("UNLOCK_DOOR_SPEED"), check}
      \/ /\ main.pc = "move" /\ rest = <<>> /\ mgr = "UNLOCK_DOOR_CHECK"
         /\ op = SetFlag("UNLOCK_DOOR_SPEED")
  BY <1>1, <1>9 DEF MovingOps
<1>3. op \in MainOps
  BY <1>2 DEF MainOps
<1>4. /\ op = SetFlag("UNLOCK_DOOR_SPEED") => mgr = "UNLOCK_DOOR_CHECK" /\ main.pc = "move"
      /\ main.pc = "decide" => op = ClearFlag("UNLOCK_DOOR_SPEED")
  BY <1>2 DEF NewFault, SetFault, ClearFault, SetFlag, ClearFlag, OtherFlag, Op
<1>5. op \in {SetFault("OVER_LOAD"), ClearFault("OVER_LOAD"),
              SetFlag("MC_PARAMETERS_LOADED"), ClearFlag("MC_PARAMETERS_LOADED")} =>
         main.ops = <<op>> /\ main.pc = "back"
  <2> SUFFICES ASSUME op \in {SetFault("OVER_LOAD"), ClearFault("OVER_LOAD"),
                              SetFlag("MC_PARAMETERS_LOADED"), ClearFlag("MC_PARAMETERS_LOADED")}
               PROVE  main.ops = <<op>> /\ main.pc = "back"
    OBVIOUS
  <2>1. op.set \cup op.clr \in {{"OVER_LOAD"}, {"MC_PARAMETERS_LOADED"}}
    BY DEF SetFault, ClearFault, SetFlag, ClearFlag, Op
  <2>2. \/ main.ops = <<op>> /\ main.pc = "back"
        \/ op \in {NewFault, OtherFlag, checked, untested, check, ClearFlag("REQUESTED_TO_START"),
                   ClearFlag("UNLOCK_DOOR_SPEED"), SetFlag("UNLOCK_DOOR_SPEED")}
    BY <1>2
  <2>3. \A a \in {NewFault, OtherFlag, checked, untested, check, ClearFlag("REQUESTED_TO_START"),
                  ClearFlag("UNLOCK_DOOR_SPEED"), SetFlag("UNLOCK_DOOR_SPEED")} :
           "OVER_LOAD" \notin a.set \cup a.clr /\ "MC_PARAMETERS_LOADED" \notin a.set \cup a.clr
    BY DEF NewFault, SetFault, SetFlag, ClearFlag, OtherFlag, Op
  <2> QED
    BY <2>1, <2>2, <2>3
<1>6. op.word = "flags" /\ main.pc \in OutsideSlot =>
         op \in {SetFlag("MC_PARAMETERS_LOADED"), ClearFlag("MC_PARAMETERS_LOADED")}
  BY <1>2 DEF SetFault, ClearFault, Op, OutsideSlot
<1>7. \A a : rest = <<a>> => a \in {checked, untested, check, NewFault}
  BY <1>2
<1>8. rest \notin {<<SetFault("OVER_LOAD")>>, <<ClearFault("OVER_LOAD")>>,
                   <<SetFlag("MC_PARAMETERS_LOADED")>>, <<ClearFlag("MC_PARAMETERS_LOADED")>>}
  <2> SUFFICES ASSUME NEW a \in {SetFault("OVER_LOAD"), ClearFault("OVER_LOAD"),
                                 SetFlag("MC_PARAMETERS_LOADED"), ClearFlag("MC_PARAMETERS_LOADED")},
                      rest = <<a>>
               PROVE  FALSE
    OBVIOUS
  <2>1. a \in {checked, untested, check, NewFault}
    BY <1>7
  <2>2. a.set \cup a.clr \in {{"OVER_LOAD"}, {"MC_PARAMETERS_LOADED"}}
    BY DEF SetFault, ClearFault, SetFlag, ClearFlag, Op
  <2>3. a.set \cup a.clr \in {{"UNLOCK_DOOR_SPEED_CHECK_REQUESTED"}, {"PRERUN_TESTS_FINISHED"},
                               {"BY_MAIN_LOOP"}}
    BY <2>1 DEF NewFault, SetFault, SetFlag, ClearFlag, Op
  <2> QED
    BY <2>2, <2>3
<1> QED
  BY <1>3, <1>4, <1>5, <1>6, <1>8 DEF NextFits, op, rest

\* A load: the word counts as it is.
LEMMA WordsLoad == WordsInv /\ Load => WordsInv'
<1> SUFFICES ASSUME WordsInv, Load PROVE WordsInv'
  OBVIOUS
<1> DEFINE op == Head(main.ops)
<1>1. NextFits(op, Tail(main.ops))
  BY NextOp DEF WordsInv, Load
<1>2. op.word \in {"flags", "fault"}
  BY <1>1 DEF NextFits, MainOps, NewFault, SetFault, ClearFault, SetFlag, ClearFlag, OtherFlag, Op
<1>3. /\ main' = [main EXCEPT !.busy = TRUE, !.held = words[op.word]]
      /\ main.ops # <<>> /\ ~main.busy
      /\ UNCHANGED <<mgr, words, wait, due, asks, loaded, pwm, pending>>
  BY DEF Load
<1>4. /\ main' = [pc |-> main.pc, ops |-> main.ops, goal |-> main.goal, busy |-> TRUE,
                  held |-> words[op.word]]
  BY <1>3 DEF WordsInv, WordTypes
<1>5. /\ main'.pc = main.pc /\ main'.ops = main.ops /\ main'.goal = main.goal /\ main'.busy
      /\ main'.held = words[op.word]
  BY <1>4
<1>6. /\ op.word = "flags" => main'.held = words.flags
      /\ op.word = "fault" => main'.held = words.fault
  BY <1>5
<1>7. FlagsAround' = FlagsAround /\ FaultsAround' = FaultsAround
  BY <1>2, <1>3, <1>5, <1>6 DEF FlagsAround, FaultsAround, Holds
<1>8. WordTypes'
  BY <1>3, <1>4, <1>5, <1>7 DEF WordsInv, WordTypes
<1>9. OpsFit' /\ GoalFits'
  BY <1>3, <1>5 DEF WordsInv, OpsFit, GoalFits
<1>10. KnownParams'
  BY <1>3, <1>5, <1>6, <1>7 DEF WordsInv, KnownParams, Holds
<1>11. DoorWords' /\ FaultWords'
  BY <1>3, <1>5, <1>7 DEF WordsInv, DoorWords, FaultWords
<1> QED
  BY <1>8, <1>9, <1>10, <1>11 DEF WordsInv

\* A store: only what an operation adds comes on top of what was there.
LEMMA WordsStore == WordsInv /\ Store => WordsInv'
<1> SUFFICES ASSUME WordsInv, Store PROVE WordsInv'
  OBVIOUS
<1> DEFINE op == Head(main.ops)
           rest == Tail(main.ops)
           new == (main.held \cup op.set) \ op.clr
<1>1. main.ops # <<>> /\ main.busy
  BY DEF WordsInv, WordTypes, Store
<1>2. NextFits(op, rest)
  BY <1>1, NextOp DEF WordsInv
<1>3. /\ words' = [words EXCEPT ![op.word] = new]
      /\ main' = [main EXCEPT !.busy = FALSE, !.held = {}, !.ops = rest]
      /\ UNCHANGED <<mgr, due, asks, loaded, pwm, pending>>
  BY DEF Store
<1>4. /\ op.word \in {"flags", "fault"}
      /\ op.word = "flags" => op.set \cup op.clr \subseteq MgrFlags
      /\ op.word = "fault" => op.set \cup op.clr \subseteq MgrFaults
  BY <1>2 DEF NextFits, MainOps, NewFault, SetFault, ClearFault, SetFlag, ClearFlag, OtherFlag, Op,
              MgrFlags, MgrFaults
<1>5. /\ main' = [pc |-> main.pc, ops |-> rest, goal |-> main.goal, busy |-> FALSE, held |-> {}]
  BY <1>3 DEF WordsInv, WordTypes
<1>6. /\ main'.pc = main.pc /\ main'.ops = rest /\ main'.goal = main.goal /\ ~main'.busy
  BY <1>5
<1>7. /\ op.word = "flags" => FlagsAround = words.flags \cup main.held /\ FaultsAround = words.fault
      /\ op.word = "fault" => FlagsAround = words.flags /\ FaultsAround = words.fault \cup main.held
  BY <1>1 DEF FlagsAround, FaultsAround, Holds
<1>8. /\ words' \in [flags : SUBSET MgrFlags, fault : SUBSET MgrFaults]
      /\ op.word = "flags" => words'.flags = new /\ words'.fault = words.fault
      /\ op.word = "fault" => words'.flags = words.flags /\ words'.fault = new
  <2>1. CASE op.word = "flags"
    <3>1. words' = [words EXCEPT !.flags = new]
      BY <1>3, <2>1
    <3> QED
      BY <1>4, <1>7, <2>1, <3>1 DEF WordsInv, WordTypes
  <2>2. CASE op.word = "fault"
    <3>1. words' = [words EXCEPT !.fault = new]
      BY <1>3, <2>2
    <3> QED
      BY <1>4, <1>7, <2>2, <3>1 DEF WordsInv, WordTypes
  <2> QED
    BY <1>4, <2>1, <2>2
<1>9. FlagsAround' = words'.flags /\ FaultsAround' = words'.fault
  BY <1>6 DEF FlagsAround, FaultsAround, Holds
<1>10. /\ op.word = "flags" => /\ words'.flags \subseteq FlagsAround \cup op.set
                               /\ words'.flags \cap op.clr = {}
                               /\ words'.fault = FaultsAround
       /\ op.word = "fault" => /\ words'.fault \subseteq FaultsAround \cup op.set
                               /\ words'.flags = FlagsAround
  BY <1>7, <1>8
<1>11. WordTypes'
  BY <1>5, <1>6, <1>8, <1>9 DEF WordsInv, WordTypes
<1>12. /\ \A a : main.ops = <<a>> => rest = <<>>
       /\ \A a, b : main.ops = <<a, b>> => rest = <<b>>
  <2>1. ASSUME NEW a, main.ops = <<a>> PROVE rest = <<>>
    BY <2>1, ShortLists
  <2>2. ASSUME NEW a, NEW b, main.ops = <<a, b>> PROVE rest = <<b>>
    BY <2>2, ShortLists
  <2> QED
    BY <2>1, <2>2
<1>19. op.word = "flags" <=> Holds("flags")
  BY <1>1, <1>4 DEF Holds
<1> HIDE DEF op, rest
<1>13. OpsFit' /\ GoalFits'
  BY <1>1, <1>3, <1>6, <1>12 DEF WordsInv, OpsFit, GoalFits, MovingOps
<1>14. "UNLOCK_DOOR_SPEED" \in op.set => mgr = "UNLOCK_DOOR_CHECK" /\ main.pc = "move"
  BY <1>2 DEF NextFits, MainOps, NewFault, SetFault, ClearFault, SetFlag, ClearFlag, OtherFlag, Op
<1>15. /\ op.set \cap {"REQUESTED_TO_START", "CLASS_A_PWM_ACCESS"} = {}
       /\ "MC_PARAMETERS_LOADED" \in op.set \cup op.clr =>
             op \in {SetFlag("MC_PARAMETERS_LOADED"), ClearFlag("MC_PARAMETERS_LOADED")}
       /\ "OVER_LOAD" \in op.set => op = SetFault("OVER_LOAD")
       /\ op.word = "fault" => (op.set # {} /\ op.clr = {}) \/ op = ClearFault("OVER_LOAD")
  BY <1>2 DEF NextFits, MainOps, NewFault, SetFault, ClearFault, SetFlag, ClearFlag, OtherFlag, Op
<1>16. KnownParams'
  <2>1. loaded => "MC_PARAMETERS_LOADED" \notin op.set \cup op.clr
    BY <1>2, <1>15 DEF WordsInv, KnownParams, NextFits
  <2>2. loaded => "MC_PARAMETERS_LOADED" \in words'.flags
    BY <1>4, <1>7, <1>8, <1>19, <2>1 DEF WordsInv, KnownParams
  <2>3. FlagsAround' \cap {"REQUESTED_TO_START", "CLASS_A_PWM_ACCESS"} # {} => loaded
    BY <1>4, <1>9, <1>10, <1>15 DEF WordsInv, KnownParams
  <2> QED
    BY <1>2, <1>3, <1>6, <2>2, <2>3 DEF WordsInv, KnownParams, NextFits, Holds
<1>17. DoorWords'
  BY <1>2, <1>3, <1>4, <1>6, <1>9, <1>10, <1>14, <1>15
     DEF WordsInv, DoorWords, NextFits, ClearFlag, Op
<1>18. FaultWords'
  BY <1>2, <1>3, <1>4, <1>6, <1>8, <1>9, <1>10, <1>15 DEF WordsInv, FaultWords, NextFits
<1> QED
  BY <1>11, <1>13, <1>16, <1>17, <1>18 DEF WordsInv

\* The main loop goes on to what it does next.
LEMMA TurnFields ==
    ASSUME WordTypes, NEW q, NEW ops, NEW g, main.ops = <<>>, UNCHANGED words,
           main' = [main EXCEPT !.pc = q, !.ops = ops, !.goal = g]
    PROVE  /\ main'.pc = q /\ main'.ops = ops /\ main'.goal = g
           /\ main.busy = FALSE /\ main'.busy = FALSE
           /\ FlagsAround = words.flags /\ FaultsAround = words.fault
           /\ FlagsAround' = words.flags /\ FaultsAround' = words.fault
           /\ q \in {"waiting", "judge", "dispatch", "enable", "finish", "decide", "shutdown",
                     "settle", "force", "move", "end", "slow", "back"} /\ g \in MgrStates
                 => WordTypes'
<1>1. main.busy = FALSE
  BY DEF WordTypes
<1>2. main' = [pc |-> q, ops |-> ops, goal |-> g, busy |-> main.busy, held |-> main.held]
  BY DEF WordTypes
<1>3. main'.pc = q /\ main'.ops = ops /\ main'.goal = g /\ main'.busy = FALSE
  BY <1>1, <1>2
<1>4. /\ FlagsAround = words.flags /\ FaultsAround = words.fault
      /\ FlagsAround' = words.flags /\ FaultsAround' = words.fault
  BY <1>1, <1>3 DEF FlagsAround, FaultsAround, Holds
<1> QED
  BY <1>1, <1>2, <1>3, <1>4 DEF WordTypes

LEMMA ThenTurns ==
    ASSUME WordTypes, NEW q, NEW ops, NEW g
    PROVE  /\ Then(q, ops) <=> main' = [main EXCEPT !.pc = q, !.ops = ops, !.goal = main.goal]
           /\ ThenState(ops, g) <=> main' = [main EXCEPT !.pc = "move", !.ops = ops, !.goal = g]
<1>1. /\ [main EXCEPT !.pc = q, !.ops = ops] = [main EXCEPT !.pc = q, !.ops = ops, !.goal = main.goal]
  BY DEF WordTypes
<1> QED
  BY <1>1 DEF Then, ThenState

\* Where a slot that changes no word goes on, with what to write, and to which
\* state.
TurnFits(q, ops, g) ==
    \/ q = "shutdown" /\ mgr = "RUNNING" /\ ops \in {<<>>, <<OtherFlag>>, <<OtherFlag, NewFault>>}
    \/ /\ q = "settle" /\ mgr = "POSTRUN_TESTS"
       /\ ops \in {<<>>, <<NewFault>>, <<SetFlag("UNLOCK_DOOR_SPEED_CHECK_REQUESTED")>>,
                   <<NewFault, SetFlag("UNLOCK_DOOR_SPEED_CHECK_REQUESTED")>>}
    \/ /\ q = "enable" /\ mgr = "PRERUN_TESTS"
       /\ ops = <<ClearFlag("REQUESTED_TO_START"), ClearFlag("PRERUN_TESTS_FINISHED")>>
    \/ q = "finish" /\ mgr = "PRERUN_TESTS" /\ ops = <<>>
    \/ q = "decide" /\ mgr = "PRERUN_TESTS" /\ ops = MovingOps
    \/ q = "end" /\ ops \in {<<>>, <<NewFault>>}
    \/ /\ q = "move"
       /\ \/ mgr = "RUNNING" /\ g = "POSTRUN_TESTS" /\ ops = <<>>
          \/ mgr = "POSTRUN_TESTS" /\ g = "IDLE" /\ ops = <<ClearFlag("REQUESTED_TO_START")>>
          \/ /\ mgr = "IDLE" /\ g = "PRERUN_TESTS" /\ Has("REQUESTED_TO_START")
             /\ ops = <<OtherFlag, ClearFlag("UNLOCK_DOOR_SPEED_CHECK_REQUESTED")>>
          \/ /\ mgr = "IDLE" /\ g = "UNLOCK_DOOR_CHECK"
             /\ ops = <<ClearFlag("UNLOCK_DOOR_SPEED_CHECK_REQUESTED")>>
          \/ mgr = "UNLOCK_DOOR_CHECK" /\ g = "IDLE" /\ ops = <<SetFlag("UNLOCK_DOOR_SPEED")>>
          \/ mgr = "INITIALIZE" /\ g = "POSTRUN_TESTS" /\ ops = <<OtherFlag>>

\* None of these lists is one of those that are written between two slots.
LEMMA TurnOps ==
    ASSUME NEW q, NEW ops, NEW g, TurnFits(q, ops, g)
    PROVE  ops \notin {<<SetFlag("MC_PARAMETERS_LOADED")>>, <<ClearFlag("MC_PARAMETERS_LOADED")>>,
                       <<SetFault("OVER_LOAD")>>, <<ClearFault("OVER_LOAD")>>}
<1>1. \A a : ops = <<a>> =>
         a \in {NewFault, OtherFlag, SetFlag("UNLOCK_DOOR_SPEED_CHECK_REQUESTED"),
                ClearFlag("REQUESTED_TO_START"), SetFlag("UNLOCK_DOOR_SPEED"),
                ClearFlag("UNLOCK_DOOR_SPEED"), ClearFlag("UNLOCK_DOOR_SPEED_CHECK_REQUESTED")}
  BY DEF TurnFits, MovingOps
<1> QED
  BY <1>1 DEF NewFault, OtherFlag, SetFlag, ClearFlag, SetFault, ClearFault, Op

\* Steps inside a slot that only add to what is to be done.
LEMMA WordsTurn ==
    ASSUME WordsInv, NEW q, NEW ops, NEW g \in MgrStates, TurnFits(q, ops, g),
           main.ops = <<>>, main' = [main EXCEPT !.pc = q, !.ops = ops, !.goal = g],
           UNCHANGED <<mgr, words, due, asks, loaded, pwm, pending>>,
           main.pc \notin OutsideSlot \cup {"force", "judge"}
    PROVE  WordsInv'
<1>1. /\ main'.pc = q /\ main'.ops = ops /\ main'.goal = g
      /\ main.busy = FALSE /\ main'.busy = FALSE
      /\ FlagsAround = words.flags /\ FaultsAround = words.fault
      /\ FlagsAround' = words.flags /\ FaultsAround' = words.fault
      /\ WordTypes'
  BY TurnFields DEF WordsInv, TurnFits
<1>2. ops \notin {<<SetFlag("MC_PARAMETERS_LOADED")>>, <<ClearFlag("MC_PARAMETERS_LOADED")>>,
                  <<SetFault("OVER_LOAD")>>, <<ClearFault("OVER_LOAD")>>}
  BY TurnOps
<1>3. /\ q \in {"enable", "finish", "decide", "shutdown", "settle", "move", "end"}
      /\ mgr = "ERROR_FOUND" => q = "end"
      /\ q = "decide" => ops # <<>>
      /\ q = "move" /\ g = "PRERUN_TESTS" => "REQUESTED_TO_START" \in words.flags
  BY ShortLists DEF TurnFits, Has, MovingOps
<1>4. OpsFit' /\ GoalFits'
  BY <1>1 DEF OpsFit, GoalFits, TurnFits
<1>5. KnownParams'
  BY <1>1, <1>2, <1>3 DEF WordsInv, KnownParams, Holds
<1>6. DoorWords'
  BY <1>1, <1>3 DEF WordsInv, DoorWords, OutsideSlot
<1>7. FaultWords'
  BY <1>1, <1>2, <1>3 DEF WordsInv, FaultWords, OutsideSlot
<1> QED
  BY <1>1, <1>4, <1>5, <1>6, <1>7 DEF WordsInv

LEMMA WordsSlot ==
    WordsInv /\ (RunningSlot \/ ShutdownChecked \/ PostrunSlot \/ Settles \/ PrerunSlot \/ Finishes
                   \/ IdleSlot \/ DoorSlot \/ InitializeSlot) => WordsInv'
<1> SUFFICES ASSUME WordsInv,
                    RunningSlot \/ ShutdownChecked \/ PostrunSlot \/ Settles \/ PrerunSlot \/ Finishes
                      \/ IdleSlot \/ DoorSlot \/ InitializeSlot
             PROVE  WordsInv'
  OBVIOUS
<1> DEFINE Turns(q, ops, g) ==
              main' = [main EXCEPT !.pc = q, !.ops = ops, !.goal = g]
<1>1. /\ main.ops = <<>>
      /\ UNCHANGED <<mgr, words, due, asks, loaded, pwm, pending>>
      /\ main.pc \in {"dispatch", "shutdown", "settle", "finish"}
      /\ main.goal \in MgrStates
  BY DEF RunningSlot, ShutdownChecked, PostrunSlot, Settles, PrerunSlot, Finishes, IdleSlot,
         DoorSlot, InitializeSlot, AtPc, WordsInv, WordTypes
<1>2. /\ \A q, ops : Then(q, ops) => Turns(q, ops, main.goal)
      /\ \A ops, g : ThenState(ops, g) => Turns("move", ops, g)
  BY ThenTurns DEF WordsInv
<1>3. \E q, ops : \E g \in MgrStates : TurnFits(q, ops, g) /\ Turns(q, ops, g)
  <2> HIDE DEF Turns
  <2> USE <1>1, <1>2 DEF AtPc, NewFault, MgrStates
  <2>1. CASE RunningSlot
    BY <2>1 DEF RunningSlot, TurnFits
  <2>2. CASE ShutdownChecked
    BY <2>2 DEF ShutdownChecked, TurnFits, WordsInv, OpsFit
  <2>3. CASE PostrunSlot
    BY <2>3 DEF PostrunSlot, TurnFits
  <2>4. CASE Settles
    BY <2>4 DEF Settles, TurnFits, WordsInv, OpsFit
  <2>5. CASE PrerunSlot
    BY <2>5 DEF PrerunSlot, TurnFits
  <2>6. CASE Finishes
    BY <2>6 DEF Finishes, TurnFits, WordsInv, OpsFit
  <2>7. CASE IdleSlot
    BY <2>7 DEF IdleSlot, TurnFits
  <2>8. CASE DoorSlot
    <3>1. \/ Turns("end", <<>>, main.goal) \/ Turns("end", <<NewFault>>, main.goal)
          \/ Turns("move", <<SetFlag("UNLOCK_DOOR_SPEED")>>, "IDLE")
      BY <2>8 DEF DoorSlot
    <3>2. /\ TurnFits("end", <<>>, main.goal) /\ TurnFits("end", <<NewFault>>, main.goal)
          /\ TurnFits("move", <<SetFlag("UNLOCK_DOOR_SPEED")>>, "IDLE")
      BY <2>8 DEF DoorSlot, TurnFits
    <3> QED
      BY <3>1, <3>2
  <2>9. CASE InitializeSlot
    <3>1. Turns("end", <<>>, main.goal) \/ Turns("move", <<OtherFlag>>, "POSTRUN_TESTS")
      BY <2>9 DEF InitializeSlot
    <3>2. TurnFits("end", <<>>, main.goal) /\ TurnFits("move", <<OtherFlag>>, "POSTRUN_TESTS")
      BY <2>9 DEF InitializeSlot, TurnFits
    <3> QED
      BY <3>1, <3>2
  <2> QED
    BY <2>1, <2>2, <2>3, <2>4, <2>5, <2>6, <2>7, <2>8, <2>9
<1> QED
  BY <1>1, <1>3, WordsTurn DEF OutsideSlot

\* The check of the bus voltage before the slot.
LEMMA WordsCheck == WordsInv /\ Check => WordsInv'
<1> SUFFICES ASSUME WordsInv, Check PROVE WordsInv'
  OBVIOUS
<1>1. /\ main.ops = <<>> /\ main.pc = "waiting" /\ pwm
      /\ UNCHANGED <<mgr, words, wait, due, asks, loaded, pwm, pending>>
  BY DEF Check, AtPc
<1>2. PICK ops \in {<<>>, <<NewFault>>} :
         main' = [main EXCEPT !.pc = "judge", !.ops = ops, !.goal = main.goal]
  BY ThenTurns DEF Check, NewFault, WordsInv
<1>3. /\ main'.pc = "judge" /\ main'.ops = ops /\ main'.goal = main.goal
      /\ main.busy = FALSE /\ main'.busy = FALSE
      /\ FlagsAround = words.flags /\ FaultsAround = words.fault
      /\ FlagsAround' = words.flags /\ FaultsAround' = words.fault
      /\ WordTypes'
  BY <1>1, <1>2, TurnFields DEF WordsInv, WordTypes
<1>4. OpsFit' /\ GoalFits'
  BY <1>3 DEF OpsFit, GoalFits
<1>5. ops \notin {<<SetFlag("MC_PARAMETERS_LOADED")>>, <<ClearFlag("MC_PARAMETERS_LOADED")>>,
                  <<SetFault("OVER_LOAD")>>, <<ClearFault("OVER_LOAD")>>}
  BY TurnOps DEF TurnFits
<1>6. KnownParams'
  BY <1>1, <1>3, <1>5 DEF WordsInv, KnownParams, Holds
<1>7. DoorWords'
  BY <1>1, <1>3 DEF WordsInv, DoorWords, OutsideSlot
<1>8. FaultWords'
  BY <1>1, <1>3, <1>5 DEF WordsInv, FaultWords, OutsideSlot
<1> QED
  BY <1>3, <1>4, <1>6, <1>7, <1>8 DEF WordsInv

\* The slot looks for faults: what is pending becomes an error, and only that
\* ends the state of the motor's run without a store to the words.
LEMMA WordsJudge == WordsInv /\ Judge => WordsInv'
<1> SUFFICES ASSUME WordsInv, Judge PROVE WordsInv'
  OBVIOUS
<1>1. /\ main.ops = <<>> /\ main.pc = "judge"
      /\ mgr' = IF words.fault # {} /\ mgr # "INITIALIZE" THEN "ERROR_FOUND" ELSE mgr
      /\ pending' = (pending /\ mgr' # "ERROR_FOUND")
      /\ UNCHANGED <<words, wait, due, asks, loaded, pwm>>
  BY DEF Judge, AtPc
<1>2. main' = [main EXCEPT !.pc = "dispatch", !.ops = <<>>, !.goal = main.goal]
  BY ThenTurns DEF Judge, WordsInv
<1>3. /\ main'.pc = "dispatch" /\ main'.ops = <<>>
      /\ main.busy = FALSE /\ main'.busy = FALSE
      /\ FlagsAround = words.flags /\ FaultsAround = words.fault
      /\ FlagsAround' = words.flags /\ FaultsAround' = words.fault
      /\ WordTypes'
  BY <1>1, <1>2, TurnFields DEF WordsInv, WordTypes
<1>4. OpsFit' /\ GoalFits'
  BY <1>3 DEF OpsFit, GoalFits
<1>5. KnownParams'
  BY <1>1, <1>3 DEF WordsInv, KnownParams, Holds
<1>6. DoorWords'
  BY <1>1, <1>3 DEF WordsInv, DoorWords, OutsideSlot
<1>7. FaultWords'
  BY <1>1, <1>3 DEF WordsInv, FaultWords
<1> QED
  BY <1>3, <1>4, <1>5, <1>6, <1>7 DEF WordsInv

\* The self tests start, and the motor may run.
LEMMA WordsPrerun == WordsInv /\ (Enables \/ Decides) => WordsInv'
<1> SUFFICES ASSUME WordsInv, Enables \/ Decides PROVE WordsInv'
  OBVIOUS
<1>1. CASE Enables
  <2>1. /\ main.ops = <<>> /\ main.pc = "enable"
        /\ UNCHANGED <<mgr, words, wait, asks, loaded, pwm, pending>>
    BY <1>1 DEF Enables, AtPc
  <2>2. main' = [main EXCEPT !.pc = "finish", !.ops = <<>>, !.goal = main.goal]
    BY <1>1, ThenTurns DEF Enables, WordsInv
  <2>3. /\ main'.pc = "finish" /\ main'.ops = <<>>
        /\ main.busy = FALSE /\ main'.busy = FALSE
        /\ FlagsAround = words.flags /\ FaultsAround = words.fault
        /\ FlagsAround' = words.flags /\ FaultsAround' = words.fault
        /\ WordTypes'
    BY <2>1, <2>2, TurnFields DEF WordsInv, WordTypes
  <2>4. OpsFit' /\ GoalFits'
    BY <2>1, <2>3 DEF WordsInv, OpsFit, GoalFits
  <2>5. KnownParams'
    BY <2>1, <2>3 DEF WordsInv, KnownParams, Holds
  <2>6. DoorWords'
    BY <2>1, <2>3 DEF WordsInv, DoorWords, OutsideSlot
  <2>7. FaultWords'
    BY <2>1, <2>3 DEF WordsInv, FaultWords
  <2> QED
    BY <2>3, <2>4, <2>5, <2>6, <2>7 DEF WordsInv
<1>2. CASE Decides
  <2>1. /\ main.ops = <<>> /\ main.pc = "decide" /\ mgr = "PRERUN_TESTS"
        /\ mgr' \in {"POSTRUN_TESTS", "RUNNING"}
        /\ UNCHANGED <<words, wait, due, asks, loaded, pwm, pending>>
    BY <1>2 DEF Decides, AtPc, WordsInv, OpsFit
  <2>2. PICK ops \in {<<>>, <<NewFault>>} :
           main' = [main EXCEPT !.pc = "end", !.ops = ops, !.goal = main.goal]
    <3>1. PICK ops \in {<<>>, <<NewFault>>} : Then("end", ops)
      BY <1>2 DEF Decides, NewFault
    <3>2. WordTypes
      BY DEF WordsInv
    <3>3. main' = [main EXCEPT !.pc = "end", !.ops = ops, !.goal = main.goal]
      BY <3>1, <3>2, ThenTurns
    <3> QED
      BY <3>3
  <2>3. /\ main'.pc = "end" /\ main'.ops = ops
        /\ main.busy = FALSE /\ main'.busy = FALSE
        /\ FlagsAround = words.flags /\ FaultsAround = words.fault
        /\ FlagsAround' = words.flags /\ FaultsAround' = words.fault
        /\ WordTypes'
    BY <2>1, <2>2, TurnFields DEF WordsInv, WordTypes
  <2>4. OpsFit' /\ GoalFits'
    BY <2>1, <2>3 DEF WordsInv, OpsFit, GoalFits
  <2>5. ops \notin {<<SetFlag("MC_PARAMETERS_LOADED")>>, <<ClearFlag("MC_PARAMETERS_LOADED")>>,
                    <<SetFault("OVER_LOAD")>>, <<ClearFault("OVER_LOAD")>>}
    BY TurnOps DEF TurnFits
  <2>6. KnownParams'
    BY <2>1, <2>3, <2>5 DEF WordsInv, KnownParams, Holds
  <2>7. DoorWords'
    BY <2>1, <2>3 DEF WordsInv, DoorWords, OutsideSlot
  <2>8. FaultWords'
    BY <2>1, <2>3, <2>5 DEF WordsInv, FaultWords
  <2> QED
    BY <2>3, <2>4, <2>6, <2>7, <2>8 DEF WordsInv
<1> QED
  BY <1>1, <1>2

\* The slot of an error: nothing is pending when it clears the faults.
LEMMA WordsError == WordsInv /\ ErrorSlot => WordsInv'
<1> SUFFICES ASSUME WordsInv, ErrorSlot PROVE WordsInv'
  OBVIOUS
<1>1. /\ main.ops = <<>> /\ main.pc = "dispatch" /\ mgr = "ERROR_FOUND"
      /\ UNCHANGED <<mgr, due, asks, loaded, pwm, pending>>
  BY DEF ErrorSlot, AtPc
<1>2. CASE Then("end", <<>>) /\ UNCHANGED words
  <2>1. /\ main' = [main EXCEPT !.pc = "end", !.ops = <<>>, !.goal = main.goal]
        /\ main.goal \in MgrStates
    BY <1>2, ThenTurns DEF WordsInv, WordTypes
  <2> QED
    BY <1>1, <1>2, <2>1, WordsTurn DEF TurnFits, OutsideSlot
<1>3. CASE /\ "OVER_LOAD" \notin words.fault
           /\ words' = [words EXCEPT !.fault = {}]
           /\ ThenState(MovingOps, "POSTRUN_TESTS")
  <2>1. /\ main' = [pc |-> "move", ops |-> MovingOps, goal |-> "POSTRUN_TESTS",
                    busy |-> main.busy, held |-> main.held]
        /\ main.busy = FALSE
    BY <1>1, <1>3 DEF ThenState, WordsInv, WordTypes
  <2>2. /\ main'.pc = "move" /\ main'.ops = MovingOps /\ main'.goal = "POSTRUN_TESTS"
        /\ main'.busy = FALSE
    BY <2>1
  <2>3. /\ words' \in [flags : SUBSET MgrFlags, fault : SUBSET MgrFaults]
        /\ words'.flags = words.flags /\ words'.fault = {}
    BY <1>3 DEF WordsInv, WordTypes
  <2>4. /\ FlagsAround = words.flags
        /\ FlagsAround' = words.flags /\ FaultsAround' = {}
    BY <2>1, <2>2, <2>3 DEF FlagsAround, FaultsAround, Holds
  <2>5. WordTypes'
    BY <2>1, <2>2, <2>3, <2>4 DEF WordTypes, MgrStates
  <2>6. OpsFit' /\ GoalFits'
    BY <1>1, <2>2 DEF OpsFit, GoalFits
  <2>7. MovingOps \notin {<<SetFlag("MC_PARAMETERS_LOADED")>>, <<ClearFlag("MC_PARAMETERS_LOADED")>>,
                          <<SetFault("OVER_LOAD")>>, <<ClearFault("OVER_LOAD")>>}
    <3>1. \A a : MovingOps = <<a>> => a = ClearFlag("UNLOCK_DOOR_SPEED")
      BY DEF MovingOps
    <3> QED
      BY <3>1 DEF SetFlag, ClearFlag, SetFault, ClearFault, Op
  <2>8. KnownParams'
    BY <1>1, <2>2, <2>3, <2>4, <2>7 DEF WordsInv, KnownParams, Holds
  <2>9. DoorWords'
    BY <1>1, <2>2, <2>4 DEF WordsInv, DoorWords, OutsideSlot
  <2>10. FaultWords'
    BY <1>1, <2>2, <2>3, <2>4, <2>7 DEF WordsInv, FaultWords
  <2> QED
    BY <2>5, <2>6, <2>8, <2>9, <2>10 DEF WordsInv
<1> QED
  BY <1>2, <1>3 DEF ErrorSlot

\* The slot stores the state, or it leaves it.
LEMMA WordsEnd == WordsInv /\ (Moves \/ Ends) => WordsInv'
<1> SUFFICES ASSUME WordsInv, Moves \/ Ends PROVE WordsInv'
  OBVIOUS
<1>1. /\ main.ops = <<>> /\ main.pc \in {"move", "end"}
      /\ mgr' = IF main.pc = "move" THEN main.goal ELSE mgr
      /\ main' = [Waiting EXCEPT !.pc = "slow"] /\ pwm' = FALSE
      /\ UNCHANGED <<words, wait, due, asks, loaded, pending>>
  BY DEF Moves, Ends, AtPc
<1>2. /\ main' = [pc |-> "slow", ops |-> <<>>, goal |-> "INITIALIZE", busy |-> main.busy, held |-> {}]
      /\ main.busy = FALSE
  BY <1>1 DEF Waiting, WordsInv, WordTypes
<1>3. main'.pc = "slow" /\ main'.ops = <<>> /\ main'.busy = FALSE
  BY <1>2
<1>4. /\ FlagsAround = words.flags /\ FaultsAround = words.fault
      /\ FlagsAround' = words.flags /\ FaultsAround' = words.fault
  BY <1>1, <1>3 DEF FlagsAround, FaultsAround, Holds, WordsInv, WordTypes
<1>5. WordTypes'
  <2>1. main' = [pc |-> main'.pc, ops |-> main'.ops, goal |-> main'.goal,
                 busy |-> main'.busy, held |-> main'.held]
    BY <1>2
  <2> QED
    BY <1>1, <1>2, <1>3, <1>4, <2>1 DEF WordsInv, WordTypes, MgrStates
<1>6. OpsFit' /\ GoalFits'
  BY <1>3 DEF OpsFit, GoalFits
<1>7. main.pc = "move" =>
         /\ mgr' = "IDLE" => mgr \in {"POSTRUN_TESTS", "UNLOCK_DOOR_CHECK"}
         /\ mgr' = "POSTRUN_TESTS" => mgr \in {"RUNNING", "INITIALIZE", "ERROR_FOUND"}
         /\ mgr' \in {"PRERUN_TESTS", "UNLOCK_DOOR_CHECK"} => mgr = "IDLE"
         /\ mgr' \in {"IDLE", "POSTRUN_TESTS", "PRERUN_TESTS", "UNLOCK_DOOR_CHECK"}
         /\ mgr' = "PRERUN_TESTS" => main.goal = "PRERUN_TESTS"
  BY <1>1 DEF WordsInv, GoalFits
<1>8. KnownParams'
  BY <1>1, <1>3, <1>4, <1>7 DEF WordsInv, KnownParams, Holds
<1>9. DoorWords'
  BY <1>1, <1>3, <1>4, <1>7 DEF WordsInv, DoorWords, OutsideSlot
<1>10. FaultWords'
  BY <1>1, <1>3, <1>4, <1>7 DEF WordsInv, FaultWords
<1> QED
  BY <1>5, <1>6, <1>8, <1>9, <1>10 DEF WordsInv

\* The main loop between two slots: the overload protection and the loader of
\* the parameters take up a write, ...
LEMMA WordsBetween == WordsInv /\ (Overload \/ LoadsParams \/ Forces \/ GoesBack) => WordsInv'
<1> SUFFICES ASSUME WordsInv, Overload \/ LoadsParams \/ Forces \/ GoesBack PROVE WordsInv'
  OBVIOUS
<1> DEFINE overload == {<<SetFault("OVER_LOAD")>>, <<ClearFault("OVER_LOAD")>>}
           params == {<<SetFlag("MC_PARAMETERS_LOADED")>>, <<ClearFlag("MC_PARAMETERS_LOADED")>>}
<1>1. /\ main.ops = <<>> /\ main.pc \in {"slow", "waiting", "back"}
      /\ UNCHANGED <<mgr, words, wait, due, asks, loaded, pwm, pending>>
  BY DEF Overload, LoadsParams, Forces, GoesBack, AtPc
<1>2. PICK q, ops :
         /\ main' = [main EXCEPT !.pc = q, !.ops = ops, !.goal = main.goal]
         /\ \/ q = "back" /\ ops = <<>>
            \/ q = "back" /\ ops = <<SetFault("OVER_LOAD")>> /\ mgr # "INITIALIZE"
            \/ /\ q = "back" /\ ops = <<ClearFault("OVER_LOAD")>>
               /\ "OVER_LOAD" \in words.fault /\ main.pc = "slow"
            \/ q = "back" /\ ops \in params /\ ~loaded
            \/ q = "force" /\ ops = <<OtherFlag>> /\ ~loaded
            \/ q = "waiting" /\ ops = <<>> /\ main.pc = "back"
  <2>1. WordTypes
    BY DEF WordsInv
  <2>2. CASE Overload
    <3>1. PICK ops : /\ Then("back", ops)
                     /\ \/ ops = <<>>
                        \/ mgr # "INITIALIZE" /\ ops \in OverloadOps
      BY <2>2 DEF Overload
    <3>2. \/ ops = <<>>
          \/ ops = <<SetFault("OVER_LOAD")>> /\ mgr # "INITIALIZE"
          \/ ops = <<ClearFault("OVER_LOAD")>> /\ "OVER_LOAD" \in words.fault
      BY <3>1 DEF OverloadOps
    <3>3. main.pc = "slow"
      BY <2>2 DEF Overload, AtPc
    <3>4. main' = [main EXCEPT !.pc = "back", !.ops = ops, !.goal = main.goal]
      BY <2>1, <3>1, ThenTurns
    <3> QED
      BY <3>2, <3>3, <3>4
  <2>3. CASE LoadsParams
    <3>1. PICK ops \in params : Then("back", ops)
      BY <2>3 DEF LoadsParams
    <3>2. main' = [main EXCEPT !.pc = "back", !.ops = ops, !.goal = main.goal] /\ ~loaded
      BY <2>1, <2>3, <3>1, ThenTurns DEF LoadsParams
    <3> QED
      BY <3>1, <3>2
  <2>4. CASE Forces
    <3>1. Then("force", <<OtherFlag>>) /\ ~loaded
      BY <2>4 DEF Forces, MayForce
    <3>2. main' = [main EXCEPT !.pc = "force", !.ops = <<OtherFlag>>, !.goal = main.goal]
      BY <2>1, <3>1, ThenTurns
    <3> QED
      BY <3>1, <3>2
  <2>5. CASE GoesBack
    <3>1. Then("waiting", <<>>) /\ main.pc = "back"
      BY <2>5 DEF GoesBack, AtPc
    <3>2. main' = [main EXCEPT !.pc = "waiting", !.ops = <<>>, !.goal = main.goal]
      BY <2>1, <3>1, ThenTurns
    <3> QED
      BY <3>1, <3>2
  <2> QED
    BY <2>2, <2>3, <2>4, <2>5
<1>3. /\ main'.pc = q /\ main'.ops = ops
      /\ main.busy = FALSE /\ main'.busy = FALSE
      /\ FlagsAround = words.flags /\ FaultsAround = words.fault
      /\ FlagsAround' = words.flags /\ FaultsAround' = words.fault
      /\ WordTypes'
  BY <1>1, <1>2, TurnFields DEF WordsInv, WordTypes
<1>4. OpsFit' /\ GoalFits'
  BY <1>2, <1>3 DEF OpsFit, GoalFits
<1>5. /\ ops \in params => ~loaded
      /\ ops = <<SetFault("OVER_LOAD")>> => mgr # "INITIALIZE"
      /\ ops = <<ClearFault("OVER_LOAD")>> => "OVER_LOAD" \in words.fault /\ main.pc = "slow"
  <2>1. /\ <<>> \notin params /\ <<OtherFlag>> \notin params
        /\ <<SetFault("OVER_LOAD")>> \notin params /\ <<ClearFault("OVER_LOAD")>> \notin params
    BY DEF SetFault, ClearFault, SetFlag, ClearFlag, OtherFlag, Op
  <2>2. /\ <<SetFault("OVER_LOAD")>> \notin {<<>>, <<OtherFlag>>, <<ClearFault("OVER_LOAD")>>}
        /\ <<ClearFault("OVER_LOAD")>> \notin {<<>>, <<OtherFlag>>}
    BY DEF SetFault, ClearFault, OtherFlag, Op
  <2> HIDE DEF params
  <2> QED
    BY <1>2, <2>1, <2>2
<1> HIDE DEF params
<1>6. KnownParams'
  <2>1. q # "move" /\ (loaded => q # "force")
    BY <1>2
  <2>2. loaded => main'.ops \notin params
    BY <1>3, <1>5
  <2>3. loaded => main'.pc # "force"
    BY <1>3, <2>1
  <2> QED
    BY <1>1, <1>3, <2>1, <2>2, <2>3 DEF WordsInv, KnownParams, Holds, params
<1>7. DoorWords'
  <2>1. q # "decide" /\ (loaded => q \in OutsideSlot)
    BY <1>2 DEF OutsideSlot
  <2> QED
    BY <1>1, <1>3, <2>1 DEF WordsInv, DoorWords, KnownParams, OutsideSlot
<1>8. FaultWords'
  BY <1>1, <1>2, <1>3, <1>5 DEF WordsInv, FaultWords
<1> QED
  BY <1>3, <1>4, <1>6, <1>7, <1>8 DEF WordsInv

\* ... a stop is asked for in class B, and class A looks for the parameters.
LEMMA WordsAsides == WordsInv /\ (Forced \/ ClassALoaded) => WordsInv'
<1> SUFFICES ASSUME WordsInv, Forced \/ ClassALoaded PROVE WordsInv'
  OBVIOUS
<1>1. CASE Forced
  <2>1. /\ main.ops = <<>> /\ main.pc = "force"
        /\ UNCHANGED <<mgr, wait, due, asks, loaded, pwm, pending>>
        /\ ~loaded /\ mgr \notin {"PRERUN_TESTS", "RUNNING"}
    BY <1>1 DEF Forced, AtPc, WordsInv, KnownParams
  <2>2. words' = words
    BY <1>1, <2>1 DEF Forced
  <2>3. main' = [main EXCEPT !.pc = "waiting", !.ops = <<>>, !.goal = main.goal]
    BY <1>1, ThenTurns DEF Forced, WordsInv
  <2>4. /\ main'.pc = "waiting" /\ main'.ops = <<>>
        /\ main.busy = FALSE /\ main'.busy = FALSE
        /\ FlagsAround = words.flags /\ FaultsAround = words.fault
        /\ FlagsAround' = words.flags /\ FaultsAround' = words.fault
        /\ WordTypes'
    BY <2>1, <2>2, <2>3, TurnFields DEF WordsInv, WordTypes
  <2>5. OpsFit' /\ GoalFits'
    BY <2>4 DEF OpsFit, GoalFits
  <2>6. KnownParams'
    BY <2>1, <2>2, <2>4 DEF WordsInv, KnownParams, Holds
  <2>7. DoorWords'
    BY <2>1, <2>4 DEF WordsInv, DoorWords, KnownParams, OutsideSlot
  <2>8. FaultWords'
    BY <2>1, <2>2, <2>4 DEF WordsInv, FaultWords
  <2> QED
    BY <2>4, <2>5, <2>6, <2>7, <2>8 DEF WordsInv
<1>2. CASE ClassALoaded
  <2>1. /\ main.ops = <<>> /\ main.pc = "waiting" /\ main.busy = FALSE
        /\ loaded' = ("MC_PARAMETERS_LOADED" \in words.flags)
        /\ UNCHANGED <<mgr, words, wait, main, due, asks, pwm, pending>>
    BY <1>2 DEF ClassALoaded, AtPc, Has, WordsInv, WordTypes
  <2>2. loaded => loaded'
    BY <2>1 DEF WordsInv, KnownParams
  <2>3. FlagsAround' = FlagsAround /\ FaultsAround' = FaultsAround
    BY <2>1 DEF FlagsAround, FaultsAround, Holds
  <2>4. WordTypes' /\ OpsFit' /\ GoalFits'
    BY <2>1, <2>3 DEF WordsInv, WordTypes, OpsFit, GoalFits
  <2>5. KnownParams'
    <3>1. <<>> \notin {<<SetFlag("MC_PARAMETERS_LOADED")>>, <<ClearFlag("MC_PARAMETERS_LOADED")>>}
      BY ShortLists
    <3> QED
      BY <2>1, <2>2, <2>3, <3>1 DEF WordsInv, KnownParams, Holds
  <2>6. DoorWords' /\ FaultWords'
    BY <2>1, <2>3 DEF WordsInv, DoorWords, FaultWords
  <2> QED
    BY <2>4, <2>5, <2>6 DEF WordsInv
<1> QED
  BY <1>1, <1>2

\* What an interrupt does to the words, whatever the self tests say: faults are
\* only added, and of the flags the access and the requests follow the state.
LEMMA InterruptWrites ==
    ASSUME WordsInv, NEW got, NEW bad, NEW analog, PwmHandler(got, bad, analog)
    PROVE  /\ words' \in [flags : SUBSET MgrFlags, fault : SUBSET MgrFaults]
           /\ words.fault \subseteq words'.fault
           /\ words'.fault \subseteq words.fault \cup {"BY_INTERRUPT"}
           /\ words'.fault # words.fault => mgr = "PRERUN_TESTS" /\ wait' = ErrorSlots
           /\ "MC_PARAMETERS_LOADED" \in words.flags => "MC_PARAMETERS_LOADED" \in words'.flags
           /\ "UNLOCK_DOOR_SPEED" \in words'.flags <=> "UNLOCK_DOOR_SPEED" \in words.flags
           /\ "CLASS_A_PWM_ACCESS" \in words'.flags => mgr = "RUNNING"
           /\ "REQUESTED_TO_START" \in words'.flags =>
                 "REQUESTED_TO_START" \in words.flags \/ asks = "start"
           /\ pending' = (pending \/ words'.fault # words.fault)
           /\ asks' # "idle" => asks # "idle" \/ loaded
           /\ asks' \in {"idle", "start", "runs", "stop"}
           /\ wait' \in {wait, ErrorSlots}
<1> DEFINE w == IF mgr = "PRERUN_TESTS" THEN Diagnosed(got, bad, analog) ELSE words
           fl == Asked(Access(w))
<1>1. /\ words' = [w EXCEPT !.flags = fl]
      /\ pending' = (pending \/ w.fault # words.fault)
      /\ wait' = IF w.fault # words.fault THEN ErrorSlots ELSE wait
      /\ asks' \in ClassAGoes(fl)
  BY DEF PwmHandler
<1>2. /\ w \in [flags : SUBSET MgrFlags, fault : SUBSET MgrFaults]
      /\ words.fault \subseteq w.fault /\ w.fault \subseteq words.fault \cup {"BY_INTERRUPT"}
      /\ w.fault # words.fault => mgr = "PRERUN_TESTS"
      /\ "MC_PARAMETERS_LOADED" \in words.flags => "MC_PARAMETERS_LOADED" \in w.flags
      /\ "UNLOCK_DOOR_SPEED" \in w.flags <=> "UNLOCK_DOOR_SPEED" \in words.flags
      /\ "REQUESTED_TO_START" \in w.flags => "REQUESTED_TO_START" \in words.flags
  <2>1. CASE mgr = "PRERUN_TESTS"
    <3> DEFINE right == got \ bad
               both == {"ADC_PLAUSIB_CHECK_OK", "SHUTDOWN_PLAUSIB_CHECK_OK"}
               ok == words.flags
                        \cup (IF "adc" \in right THEN {"ADC_PLAUSIB_CHECK_OK"} ELSE {})
                        \cup (IF "shutdown" \in right THEN {"SHUTDOWN_PLAUSIB_CHECK_OK"} ELSE {})
               all == both \subseteq ok
               flags == (IF all THEN ok \ both ELSE ok)
                           \cup (IF all /\ analog THEN {"PRERUN_TESTS_FINISHED"} ELSE {})
               fault == words.fault
                           \cup (IF bad # {} \/ (all /\ ~analog) THEN {"BY_INTERRUPT"} ELSE {})
    <3>1. w = [flags |-> flags, fault |-> fault]
      BY <2>1 DEF Diagnosed
    <3>2. words.flags \subseteq MgrFlags /\ words.fault \subseteq MgrFaults
      BY DEF WordsInv, WordTypes
    <3>3. ok \subseteq words.flags \cup both /\ words.flags \subseteq ok
      OBVIOUS
    <3>4. /\ flags \subseteq words.flags \cup both \cup {"PRERUN_TESTS_FINISHED"}
          /\ words.flags \ both \subseteq flags
      BY <3>3
    <3>5. words.fault \subseteq fault /\ fault \subseteq words.fault \cup {"BY_INTERRUPT"}
      OBVIOUS
    <3> HIDE DEF flags, fault
    <3>6. w.flags = flags /\ w.fault = fault
      BY <3>1
    <3>7. flags \subseteq MgrFlags /\ fault \subseteq MgrFaults
      BY <3>2, <3>4, <3>5 DEF MgrFlags, MgrFaults
    <3> QED
      BY <2>1, <3>1, <3>4, <3>5, <3>6, <3>7
  <2>2. CASE mgr # "PRERUN_TESTS"
    BY <2>2 DEF WordsInv, WordTypes
  <2> QED
    BY <2>1, <2>2
<1> HIDE DEF w
<1>3. /\ fl \subseteq w.flags \cup {"CLASS_A_PWM_ACCESS", "REQUESTED_TO_START", "REQUESTED_TO_STOP"}
      /\ w.flags \ {"CLASS_A_PWM_ACCESS", "REQUESTED_TO_STOP"} \subseteq fl
      /\ "CLASS_A_PWM_ACCESS" \in fl => mgr = "RUNNING"
      /\ "REQUESTED_TO_START" \in fl => "REQUESTED_TO_START" \in w.flags \/ asks = "start"
  BY DEF Asked, Access
<1> HIDE DEF fl
<1>4. /\ words' \in [flags : SUBSET MgrFlags, fault : SUBSET MgrFaults]
      /\ words'.flags = fl /\ words'.fault = w.fault
  <2>1. fl \subseteq MgrFlags
    BY <1>2, <1>3 DEF MgrFlags
  <2> QED
    BY <1>1, <1>2, <2>1
<1>5. /\ asks' # "idle" => asks # "idle" \/ loaded
      /\ asks' \in {"idle", "start", "runs", "stop"}
  BY <1>1 DEF ClassAGoes
<1> QED
  BY <1>1, <1>2, <1>3, <1>4, <1>5

\* The PWM interrupt.  A store to the flags that is still to come brings back an
\* access only inside a slot: the writes between two slots are those of the
\* parameters, before class A has any.
LEMMA WordsTick == WordsInv /\ PwmTick => WordsInv'
<1> SUFFICES ASSUME WordsInv, PwmTick PROVE WordsInv'
  OBVIOUS
<1>1. PICK got, bad, analog : PwmHandler(got, bad, analog)
  BY DEF PwmTick
<1>2. UNCHANGED <<mgr, main, loaded>> /\ pwm' = TRUE
  BY <1>1 DEF PwmHandler
<1> DEFINE kept == IF Holds("flags") THEN main.held ELSE {}
           owed == IF Holds("fault") THEN main.held ELSE {}
<1>3. /\ FlagsAround = words.flags \cup kept /\ FlagsAround' = words'.flags \cup kept
      /\ FaultsAround = words.fault \cup owed /\ FaultsAround' = words'.fault \cup owed
  BY <1>2 DEF FlagsAround, FaultsAround, Holds
<1>4. main.pc \in OutsideSlot /\ loaded => kept = {}
  <2>1. ASSUME main.pc \in OutsideSlot, Holds("flags") PROVE ~loaded
    <3>1. main.ops # <<>> /\ Head(main.ops).word = "flags"
      BY <2>1 DEF Holds, WordsInv, WordTypes
    <3>2. NextFits(Head(main.ops), Tail(main.ops))
      BY <3>1, NextOp DEF WordsInv
    <3> QED
      BY <2>1, <3>1, <3>2 DEF NextFits, WordsInv, KnownParams
  <2> QED
    BY <2>1
<1> HIDE DEF kept, owed
<1>5. WordTypes'
  <2>1. /\ words' \in [flags : SUBSET MgrFlags, fault : SUBSET MgrFaults]
    BY <1>1, InterruptWrites
  <2>2. FlagsAround' \subseteq MgrFlags /\ FaultsAround' \subseteq MgrFaults
    BY <1>3, <2>1 DEF WordsInv, WordTypes
  <2> QED
    BY <1>2, <2>1, <2>2 DEF WordsInv, WordTypes
<1>6. OpsFit' /\ GoalFits'
  BY <1>2 DEF WordsInv, OpsFit, GoalFits
<1>7. KnownParams'
  <2>1. asks' # "idle" => loaded
    BY <1>1, InterruptWrites DEF WordsInv, KnownParams
  <2>2. FlagsAround' \cap {"REQUESTED_TO_START", "CLASS_A_PWM_ACCESS"} # {} => loaded
    BY <1>1, <1>3, InterruptWrites DEF WordsInv, KnownParams
  <2> QED
    BY <1>1, <1>2, <2>1, <2>2, InterruptWrites DEF WordsInv, KnownParams, Holds
<1>8. DoorWords'
  <2>1. "UNLOCK_DOOR_SPEED" \in FlagsAround' => "UNLOCK_DOOR_SPEED" \in FlagsAround
    BY <1>1, <1>3, InterruptWrites
  <2>2. "CLASS_A_PWM_ACCESS" \in FlagsAround' =>
           mgr = "RUNNING" \/ ("CLASS_A_PWM_ACCESS" \in kept /\ "CLASS_A_PWM_ACCESS" \in FlagsAround)
    BY <1>1, <1>3, InterruptWrites
  <2>3. "CLASS_A_PWM_ACCESS" \in kept => main.pc \notin OutsideSlot
    BY <1>3, <1>4 DEF WordsInv, KnownParams
  <2> QED
    BY <1>2, <2>1, <2>2, <2>3 DEF WordsInv, DoorWords
<1>9. FaultWords'
  <2>1. "OVER_LOAD" \in FaultsAround' => "OVER_LOAD" \in FaultsAround
    BY <1>1, <1>3, InterruptWrites
  <2>2. pending' => words'.fault # {} /\ mgr # "ERROR_FOUND"
    BY <1>1, InterruptWrites DEF WordsInv, FaultWords
  <2> QED
    BY <1>2, <2>1, <2>2 DEF WordsInv, FaultWords
<1> QED
  BY <1>5, <1>6, <1>7, <1>8, <1>9 DEF WordsInv

\* The check of the phase currents.
LEMMA WordsCurrents == WordsInv /\ CurrentsWrong => WordsInv'
<1> SUFFICES ASSUME WordsInv, CurrentsWrong PROVE WordsInv'
  OBVIOUS
<1>1. /\ mgr = "RUNNING" /\ pending' = TRUE
      /\ words' = [words EXCEPT !.fault = @ \cup {"BY_INTERRUPT"}]
      /\ UNCHANGED <<mgr, main, due, asks, loaded, pwm>>
  BY DEF CurrentsWrong
<1>2. /\ words' \in [flags : SUBSET MgrFlags, fault : SUBSET MgrFaults]
      /\ words'.flags = words.flags /\ words'.fault = words.fault \cup {"BY_INTERRUPT"}
  BY <1>1 DEF WordsInv, WordTypes, MgrFaults
<1>3. FlagsAround' = FlagsAround /\ FaultsAround' = FaultsAround \cup {"BY_INTERRUPT"}
  BY <1>1, <1>2 DEF FlagsAround, FaultsAround, Holds
<1>4. WordTypes'
  BY <1>1, <1>2, <1>3 DEF WordsInv, WordTypes, MgrFaults
<1>5. OpsFit' /\ GoalFits'
  BY <1>1 DEF WordsInv, OpsFit, GoalFits
<1>6. KnownParams'
  BY <1>1, <1>2, <1>3 DEF WordsInv, KnownParams, Holds
<1>7. DoorWords' /\ FaultWords'
  BY <1>1, <1>2, <1>3 DEF WordsInv, DoorWords, FaultWords
<1> QED
  BY <1>4, <1>5, <1>6, <1>7 DEF WordsInv

LEMMA WordsStart == SharedInit => WordsInv
<1> SUFFICES ASSUME SharedInit PROVE WordsInv
  OBVIOUS
<1>1. /\ main.pc = "waiting" /\ main.ops = <<>> /\ main.goal = "INITIALIZE" /\ ~main.busy
      /\ main.held = {}
      /\ words.flags = {} /\ words.fault = {}
      /\ mgr = "INITIALIZE" /\ asks = "idle" /\ ~loaded /\ ~pending
  BY DEF SharedInit, Waiting
<1>2. FlagsAround = {} /\ FaultsAround = {}
  BY <1>1 DEF FlagsAround, FaultsAround, Holds
<1>3. WordTypes
  <2>1. main.busy \in BOOLEAN /\ main = [pc |-> main.pc, ops |-> main.ops, goal |-> main.goal,
                                         busy |-> main.busy, held |-> main.held]
    BY DEF SharedInit, Waiting
  <2>2. words \in [flags : SUBSET MgrFlags, fault : SUBSET MgrFaults]
    BY DEF SharedInit
  <2> QED
    BY <1>1, <1>2, <2>1, <2>2 DEF WordTypes, MgrStates
<1>4. <<>> \notin {<<SetFlag("MC_PARAMETERS_LOADED")>>, <<ClearFlag("MC_PARAMETERS_LOADED")>>,
                   <<SetFault("OVER_LOAD")>>, <<ClearFault("OVER_LOAD")>>}
  BY ShortLists
<1> QED
  BY <1>1, <1>2, <1>3, <1>4 DEF WordsInv, OpsFit, GoalFits, KnownParams, DoorWords, FaultWords

LEMMA WordsStep == WordsInv /\ [SharedNext]_sharedVars => WordsInv'
<1> SUFFICES ASSUME WordsInv, [SharedNext]_sharedVars PROVE WordsInv'
  OBVIOUS
<1>1. CASE SharedNext
  BY <1>1, WordsLoad, WordsStore, WordsCheck, WordsJudge, WordsSlot, WordsPrerun, WordsError,
     WordsEnd, WordsBetween, WordsAsides, WordsTick, WordsCurrents
     DEF SharedNext, Dispatch
<1>2. CASE UNCHANGED sharedVars
  BY <1>2
     DEF sharedVars, WordsInv, WordTypes, OpsFit, GoalFits, KnownParams, DoorWords, FaultWords,
         FlagsAround, FaultsAround, Holds
<1> QED
  BY <1>1, <1>2

(* What the main loop may still have to store to the two words never goes  *)
(* beyond its place in the slot, and fits what class A knows and has.      *)
THEOREM WordsFit == SharedSpec => []WordsInv
BY WordsStart, WordsStep, PTL DEF SharedSpec

(* DoorShutWhileDriven, whatever a late store brings back: the release of  *)
(* the door is gone, also from the main loop's copy, before the motor runs.*)
THEOREM DoorStaysShut == SharedSpec => []DoorShutWhileDriven
<1>1. WordsInv => DoorShutWhileDriven
  BY DEF WordsInv, DoorWords, DoorShutWhileDriven, FlagsAround
<1> QED
  BY <1>1, WordsFit, PTL

(* NoFaultForgotten: only the state of the error takes faults away, and    *)
(* there none is pending any more.                                         *)
THEOREM FaultsRemembered == SharedSpec => []NoFaultForgotten
<1>1. WordsInv => NoFaultForgotten
  BY DEF WordsInv, FaultWords, NoFaultForgotten
<1> QED
  BY <1>1, WordsFit, PTL

\* What else the model's variables hold.
RestTypes ==
    /\ mgr \in MgrStates
    /\ wait \in 0..ErrorSlots
    /\ due \subseteq {"adc", "shutdown"}
    /\ asks \in {"idle", "start", "runs", "stop"}
    /\ loaded \in BOOLEAN /\ pwm \in BOOLEAN /\ pending \in BOOLEAN

LEMMA RestTypesStep == WordsInv /\ RestTypes /\ [SharedNext]_sharedVars => RestTypes'
<1> SUFFICES ASSUME WordsInv, RestTypes, [SharedNext]_sharedVars PROVE RestTypes'
  OBVIOUS
<1> USE SharedConstants DEF RestTypes
<1>1. CASE Load \/ Store \/ Check
  BY <1>1 DEF Load, Store, Check
<1>2. CASE Judge
  BY <1>2 DEF Judge, MgrStates
<1>3. CASE RunningSlot \/ ShutdownChecked \/ PostrunSlot \/ Settles \/ PrerunSlot \/ Enables
             \/ Finishes \/ IdleSlot \/ DoorSlot \/ InitializeSlot
  BY <1>3 DEF RunningSlot, ShutdownChecked, PostrunSlot, Settles, PrerunSlot, Enables,
              Finishes, IdleSlot, DoorSlot, InitializeSlot
<1>4. CASE Decides
  BY <1>4 DEF Decides, MgrStates
<1>5. CASE ErrorSlot
  BY <1>5 DEF ErrorSlot, ErrorLasts
<1>6. CASE Moves \/ Ends
  BY <1>6 DEF Moves, Ends, WordsInv, WordTypes
<1>7. CASE Overload \/ LoadsParams \/ Forces \/ Forced \/ GoesBack
  BY <1>7 DEF Overload, LoadsParams, Forces, Forced, GoesBack
<1>11. CASE ClassALoaded
  <2>1. UNCHANGED <<mgr, wait, due, asks, pwm, pending>>
    BY <1>11 DEF ClassALoaded
  <2>2. loaded' \in BOOLEAN
    BY <1>11 DEF ClassALoaded, Has
  <2> QED
    BY <2>1, <2>2
<1>8. CASE PwmTick
  <2>1. PICK got, bad, analog : PwmHandler(got, bad, analog)
    BY <1>8 DEF PwmTick
  <2>2. /\ mgr' = mgr /\ loaded' = loaded /\ pwm' = TRUE /\ due' = due \ got
    BY <2>1 DEF PwmHandler
  <2>3. pending' = (pending \/ words'.fault # words.fault)
    BY <2>1, InterruptWrites
  <2>4. pending' \in BOOLEAN
    BY <2>3
  <2>5. asks' \in {"idle", "start", "runs", "stop"} /\ wait' \in {wait, ErrorSlots}
    BY <2>1, InterruptWrites
  <2>6. wait' \in 0..ErrorSlots
    BY <2>5
  <2>7. loaded' \in BOOLEAN /\ pwm' \in BOOLEAN
    BY <2>2
  <2>8. mgr' \in MgrStates /\ due' \subseteq {"adc", "shutdown"}
    BY <2>2
  <2> QED
    BY <2>4, <2>5, <2>6, <2>7, <2>8
<1>9. CASE CurrentsWrong
  BY <1>9 DEF CurrentsWrong
<1>10. CASE UNCHANGED sharedVars
  BY <1>10 DEF sharedVars
<1> QED
  BY <1>1, <1>2, <1>3, <1>4, <1>5, <1>6, <1>7, <1>8, <1>9, <1>10, <1>11 DEF SharedNext, Dispatch

(* The variables keep their types, and the list of the main loop is never  *)
(* longer than two writes.                                                 *)
THEOREM SharedTyped == SharedSpec => []SharedTypeOK
<1>1. SharedInit => RestTypes
  <2> SUFFICES ASSUME SharedInit PROVE RestTypes
    OBVIOUS
  <2>1. 0 \in 0..ErrorSlots
    BY SharedConstants
  <2>2. loaded \in BOOLEAN /\ pwm \in BOOLEAN /\ pending \in BOOLEAN
    BY DEF SharedInit
  <2> QED
    BY <2>1, <2>2 DEF SharedInit, RestTypes, MgrStates
<1>2. WordsInv /\ RestTypes => SharedTypeOK
  <2> SUFFICES ASSUME WordsInv, RestTypes PROVE SharedTypeOK
    OBVIOUS
  <2>1. Len(main.ops) <= 2
    <3>1. main.ops = <<>> \/ (\E a : main.ops = <<a>>) \/ (\E a, b : main.ops = <<a, b>>)
      BY DEF WordsInv, WordTypes, OpsFit, GoalFits, MovingOps
    <3>2. CASE main.ops = <<>>
      BY <3>2
    <3>3. ASSUME NEW a, main.ops = <<a>> PROVE Len(main.ops) <= 2
      BY <3>3
    <3>4. ASSUME NEW a, NEW b, main.ops = <<a, b>> PROVE Len(main.ops) <= 2
      BY <3>4
    <3> QED
      BY <3>1, <3>2, <3>3, <3>4
  <2> QED
    BY <2>1 DEF WordsInv, WordTypes, RestTypes, SharedTypeOK
<1> QED
  BY <1>1, <1>2, WordsFit, RestTypesStep, PTL DEF SharedSpec

(* The words and the permission to drive.  An access that the main loop's  *)
(* copy of the flags can bring back is one of the run that is going on; in *)
(* an error the access is gone when the door's release is written again,   *)
(* since the first slot of the error only counts; ...                      *)
AccessWords ==
    /\ wait \in Nat
    /\ Holds("flags") /\ "CLASS_A_PWM_ACCESS" \in main.held => mgr = "RUNNING"
    /\ mgr = "ERROR_FOUND" /\ "CLASS_A_PWM_ACCESS" \in words.flags =>
          /\ main.pc \in {"dispatch", "end"} \cup OutsideSlot
          /\ main.pc = "dispatch" => wait > 0 \/ "OVER_LOAD" \in words.fault

\* ... every fault but the overload has its time to wait, and a retry finds none, ...
ErrorTimed ==
    /\ mgr # "ERROR_FOUND" /\ FaultsAround \ {"OVER_LOAD"} # {} => wait > 0
    /\ mgr = "ERROR_FOUND" /\ main.pc = "move" => FaultsAround = {}

\* ... and no interrupt writes the door's release.
ReleaseKept ==
    /\ Holds("flags") =>
          ("UNLOCK_DOOR_SPEED" \in main.held <=> "UNLOCK_DOOR_SPEED" \in words.flags)
    /\ main.pc = "move" /\ main.goal = "UNLOCK_DOOR_CHECK" => "UNLOCK_DOOR_SPEED" \notin words.flags

PermitWords == AccessWords /\ ErrorTimed /\ ReleaseKept

\* What each step is shown to do.
PermitFollowed == PermitWords' /\ [WordsPermit!Next]_(WordsPermit!vars)

\* A step that leaves the phase, the release and the access as they are.
LEMMA PermitStays ==
    ASSUME WordsPhase' = WordsPhase,
           "UNLOCK_DOOR_SPEED" \in words'.flags <=> "UNLOCK_DOOR_SPEED" \in words.flags,
           "CLASS_A_PWM_ACCESS" \in words'.flags <=> "CLASS_A_PWM_ACCESS" \in words.flags
    PROVE  [WordsPermit!Next]_(WordsPermit!vars)
BY DEF WordsPermit!vars, Has

\* A step that gives or takes only the access: given in "driving" alone.
LEMMA PermitAccess ==
    ASSUME WordsPhase' = WordsPhase,
           "UNLOCK_DOOR_SPEED" \in words'.flags <=> "UNLOCK_DOOR_SPEED" \in words.flags,
           "CLASS_A_PWM_ACCESS" \in words'.flags => mgr = "RUNNING"
    PROVE  [WordsPermit!Next]_(WordsPermit!vars)
<1>1. CASE "CLASS_A_PWM_ACCESS" \in words'.flags
  <2>1. WordsPhase = "driving"
    BY <1>1 DEF WordsPhase
  <2> QED
    BY <1>1, <2>1 DEF WordsPermit!Next, WordsPermit!Grant, Has
<1>2. CASE "CLASS_A_PWM_ACCESS" \notin words'.flags
  BY <1>2 DEF WordsPermit!Next, WordsPermit!Revoke, Has
<1> QED
  BY <1>1, <1>2

LEMMA PermitLoad == WordsInv /\ PermitWords /\ Load => PermitFollowed
<1> SUFFICES ASSUME WordsInv, PermitWords, Load PROVE PermitFollowed
  OBVIOUS
<1> DEFINE op == Head(main.ops)
<1>1. NextFits(op, Tail(main.ops))
  BY NextOp DEF WordsInv, Load
<1>2. op.word \in {"flags", "fault"}
  BY <1>1 DEF NextFits, MainOps, NewFault, SetFault, ClearFault, SetFlag, ClearFlag, OtherFlag, Op
<1>3. /\ main' = [main EXCEPT !.busy = TRUE, !.held = words[op.word]]
      /\ main.ops # <<>> /\ ~main.busy
      /\ UNCHANGED <<mgr, words, wait, due, asks, loaded, pwm, pending>>
  BY DEF Load
<1>4. /\ main' = [pc |-> main.pc, ops |-> main.ops, goal |-> main.goal, busy |-> TRUE,
                  held |-> words[op.word]]
  BY <1>3 DEF WordsInv, WordTypes
<1>5. /\ main'.pc = main.pc /\ main'.ops = main.ops /\ main'.goal = main.goal /\ main'.busy
      /\ main'.held = words[op.word]
  BY <1>4
<1>6. /\ op.word = "flags" => main'.held = words.flags
      /\ op.word = "fault" => main'.held = words.fault
  BY <1>5
<1>7. FlagsAround = words.flags /\ FaultsAround = words.fault /\ FaultsAround' = FaultsAround
  BY <1>2, <1>3, <1>5, <1>6 DEF FlagsAround, FaultsAround, Holds
<1>8. Holds("flags")' => op.word = "flags" /\ main'.held = words.flags
  BY <1>5, <1>6 DEF Holds
<1>9. ASSUME op.word = "flags", "CLASS_A_PWM_ACCESS" \in words.flags PROVE mgr = "RUNNING"
  <2>1. loaded /\ main.pc \notin OutsideSlot \cup {"force"}
    BY <1>1, <1>3, <1>7, <1>9 DEF WordsInv, KnownParams, NextFits
  <2>2. mgr = "RUNNING" \/ mgr = "ERROR_FOUND"
    BY <1>7, <1>9, <2>1 DEF WordsInv, DoorWords
  <2>3. ASSUME mgr = "ERROR_FOUND" PROVE FALSE
    <3>1. main.pc = "end" /\ main.ops = <<NewFault>>
      BY <1>3, <1>9, <2>1, <2>3 DEF PermitWords, AccessWords, WordsInv, OpsFit
    <3>2. op = NewFault
      BY <3>1, ShortLists
    <3> QED
      BY <1>9, <3>2 DEF NewFault, SetFault, Op
  <2> QED
    BY <2>2, <2>3
<1> HIDE DEF op
<1>10. PermitWords'
  BY <1>3, <1>5, <1>7, <1>8, <1>9 DEF PermitWords, AccessWords, ErrorTimed, ReleaseKept
<1>11. WordsPhase' = WordsPhase
  BY <1>3, <1>5 DEF WordsPhase, AtPc
<1> QED
  BY <1>3, <1>10, <1>11, PermitStays DEF PermitFollowed

\* The operations on the door's release, and where they are.
LEMMA DoorOps ==
    ASSUME WordTypes, OpsFit, GoalFits, main.ops # <<>>
    PROVE  LET op == Head(main.ops)
               rest == Tail(main.ops)
           IN  /\ main.pc = "decide" =>
                     mgr = "PRERUN_TESTS" /\ op = ClearFlag("UNLOCK_DOOR_SPEED") /\ rest = <<>>
               /\ main.pc = "move" =>
                     \/ /\ mgr \in {"POSTRUN_TESTS", "IDLE", "INITIALIZE"}
                        /\ op \in {ClearFlag("REQUESTED_TO_START"), OtherFlag,
                                   ClearFlag("UNLOCK_DOOR_SPEED_CHECK_REQUESTED")}
                     \/ /\ mgr = "UNLOCK_DOOR_CHECK" /\ main.goal = "IDLE"
                        /\ op = SetFlag("UNLOCK_DOOR_SPEED") /\ rest = <<>>
                     \/ mgr = "ERROR_FOUND" /\ op = ClearFlag("UNLOCK_DOOR_SPEED")
               /\ main.pc \notin {"decide", "move"} =>
                     op \in MainOps \ {SetFlag("UNLOCK_DOOR_SPEED"), ClearFlag("UNLOCK_DOOR_SPEED")}
<1> DEFINE op == Head(main.ops)
           rest == Tail(main.ops)
<1>1. /\ \A a : main.ops = <<a>> => op = a /\ rest = <<>>
      /\ \A a, b : main.ops = <<a, b>> => op = a /\ rest = <<b>>
  <2>1. ASSUME NEW a, main.ops = <<a>> PROVE op = a /\ rest = <<>>
    BY <2>1, ShortLists
  <2>2. ASSUME NEW a, NEW b, main.ops = <<a, b>> PROVE op = a /\ rest = <<b>>
    BY <2>2, ShortLists
  <2> QED
    BY <2>1, <2>2
<1>2. op \in MainOps
  BY NextOp DEF NextFits
<1> HIDE DEF op, rest
<1>3. main.pc = "decide" =>
         mgr = "PRERUN_TESTS" /\ op = ClearFlag("UNLOCK_DOOR_SPEED") /\ rest = <<>>
  <2>1. main.pc = "decide" => mgr = "PRERUN_TESTS" /\ main.ops = <<ClearFlag("UNLOCK_DOOR_SPEED")>>
    BY DEF OpsFit, MovingOps
  <2> QED
    BY <1>1, <2>1
<1>4. main.pc = "move" =>
         \/ /\ mgr \in {"POSTRUN_TESTS", "IDLE", "INITIALIZE"}
            /\ op \in {ClearFlag("REQUESTED_TO_START"), OtherFlag,
                       ClearFlag("UNLOCK_DOOR_SPEED_CHECK_REQUESTED")}
         \/ /\ mgr = "UNLOCK_DOOR_CHECK" /\ main.goal = "IDLE"
            /\ op = SetFlag("UNLOCK_DOOR_SPEED") /\ rest = <<>>
         \/ mgr = "ERROR_FOUND" /\ op = ClearFlag("UNLOCK_DOOR_SPEED")
  <2>1. main.pc = "move" =>
           \/ /\ mgr \in {"POSTRUN_TESTS", "IDLE", "INITIALIZE"}
              /\ main.ops \in {<<ClearFlag("REQUESTED_TO_START")>>, <<OtherFlag>>,
                               <<ClearFlag("UNLOCK_DOOR_SPEED_CHECK_REQUESTED")>>,
                               <<OtherFlag, ClearFlag("UNLOCK_DOOR_SPEED_CHECK_REQUESTED")>>}
           \/ /\ mgr = "UNLOCK_DOOR_CHECK" /\ main.goal = "IDLE"
              /\ main.ops = <<SetFlag("UNLOCK_DOOR_SPEED")>>
           \/ mgr = "ERROR_FOUND" /\ main.ops = <<ClearFlag("UNLOCK_DOOR_SPEED")>>
    BY DEF GoalFits, MovingOps
  <2> QED
    BY <1>1, <2>1
<1>5. main.pc \notin {"decide", "move"} =>
         op \in MainOps \ {SetFlag("UNLOCK_DOOR_SPEED"), ClearFlag("UNLOCK_DOOR_SPEED")}
  <2>1. main.pc \notin {"decide", "move"} =>
           \E a : /\ main.ops = <<a>> \/ \E b : main.ops = <<a, b>>
                  /\ a \in {NewFault, OtherFlag, SetFlag("UNLOCK_DOOR_SPEED_CHECK_REQUESTED"),
                            ClearFlag("PRERUN_TESTS_FINISHED"), ClearFlag("REQUESTED_TO_START"),
                            SetFault("OVER_LOAD"), ClearFault("OVER_LOAD"),
                            SetFlag("MC_PARAMETERS_LOADED"), ClearFlag("MC_PARAMETERS_LOADED")}
    BY DEF WordTypes, OpsFit
  <2>2. ASSUME NEW a \in {NewFault, OtherFlag, SetFlag("UNLOCK_DOOR_SPEED_CHECK_REQUESTED"),
                          ClearFlag("PRERUN_TESTS_FINISHED"), ClearFlag("REQUESTED_TO_START"),
                          SetFault("OVER_LOAD"), ClearFault("OVER_LOAD"),
                          SetFlag("MC_PARAMETERS_LOADED"), ClearFlag("MC_PARAMETERS_LOADED")}
        PROVE  a \notin {SetFlag("UNLOCK_DOOR_SPEED"), ClearFlag("UNLOCK_DOOR_SPEED")}
    BY DEF NewFault, OtherFlag, SetFlag, ClearFlag, SetFault, ClearFault, Op
  <2> QED
    BY <1>1, <1>2, <2>1, <2>2
<1> QED
  BY <1>3, <1>4, <1>5 DEF op, rest

\* What each operation writes.
LEMMA OpWrites ==
    ASSUME NEW op \in MainOps
    PROVE  /\ op.word = "fault" => \/ op = NewFault /\ op.set = {"BY_MAIN_LOOP"}
                                   \/ op # NewFault /\ op.set \subseteq {"OVER_LOAD"}
           /\ op.word = "flags" => op # NewFault /\ "CLASS_A_PWM_ACCESS" \notin op.set \cup op.clr
           /\ "UNLOCK_DOOR_SPEED" \in op.set => op = SetFlag("UNLOCK_DOOR_SPEED")
           /\ "UNLOCK_DOOR_SPEED" \in op.clr => op = ClearFlag("UNLOCK_DOOR_SPEED")
<1>1. CASE op \in {NewFault, SetFault("OVER_LOAD"), ClearFault("OVER_LOAD")}
  BY <1>1 DEF NewFault, SetFault, ClearFault, Op
<1>2. ASSUME NEW b, op = SetFlag(b), b # "CLASS_A_PWM_ACCESS"
      PROVE  op.word = "flags" /\ op.set = {b} /\ op.clr = {}
  BY <1>2 DEF SetFlag, Op
<1>3. ASSUME NEW b, op = ClearFlag(b), b # "CLASS_A_PWM_ACCESS"
      PROVE  op.word = "flags" /\ op.set = {} /\ op.clr = {b}
  BY <1>3 DEF ClearFlag, Op
<1>4. op = OtherFlag => op.word = "flags" /\ op.set = {} /\ op.clr = {}
  BY DEF OtherFlag, Op
<1>5. op.word = "flags" => op # NewFault
  BY DEF NewFault, SetFault, Op
<1>6. CASE op \notin {NewFault, SetFault("OVER_LOAD"), ClearFault("OVER_LOAD")}
  BY <1>2, <1>3, <1>4, <1>5, <1>6 DEF MainOps
<1> QED
  BY <1>1, <1>6

\* A store brings back what was loaded: an access only while the motor runs, and
\* the release as it stands, unless the release is what it is about.
LEMMA PermitStore == WordsInv /\ PermitWords /\ Store => PermitFollowed
<1> SUFFICES ASSUME WordsInv, PermitWords, Store PROVE PermitFollowed
  OBVIOUS
<1> DEFINE op == Head(main.ops)
           rest == Tail(main.ops)
           new == (main.held \cup op.set) \ op.clr
<1>1. main.ops # <<>> /\ main.busy
  BY DEF WordsInv, WordTypes, Store
<1>2. NextFits(op, rest)
  BY <1>1, NextOp DEF WordsInv
<1>3. /\ words' = [words EXCEPT ![op.word] = new]
      /\ wait' = IF op = NewFault THEN ErrorSlots ELSE wait
      /\ main' = [main EXCEPT !.busy = FALSE, !.held = {}, !.ops = rest]
      /\ UNCHANGED <<mgr, due, asks, loaded, pwm, pending>>
  BY DEF Store, NewFault
<1>4. op.word \in {"flags", "fault"}
  BY <1>2 DEF NextFits, MainOps, NewFault, SetFault, ClearFault, SetFlag, ClearFlag, OtherFlag, Op
<1>5. main' = [pc |-> main.pc, ops |-> rest, goal |-> main.goal, busy |-> FALSE, held |-> {}]
  BY <1>3 DEF WordsInv, WordTypes
<1>6. main'.pc = main.pc /\ main'.ops = rest /\ main'.goal = main.goal /\ ~main'.busy
  BY <1>5
<1>7. /\ op.word = "flags" => /\ Holds("flags")
                              /\ FlagsAround = words.flags \cup main.held
                              /\ FaultsAround = words.fault
      /\ op.word = "fault" => /\ FlagsAround = words.flags
                              /\ FaultsAround = words.fault \cup main.held
  BY <1>1 DEF FlagsAround, FaultsAround, Holds
<1>8. /\ op.word = "flags" => words'.flags = new /\ words'.fault = words.fault
      /\ op.word = "fault" => words'.flags = words.flags /\ words'.fault = new
  <2>1. CASE op.word = "flags"
    <3>1. words' = [words EXCEPT !.flags = new]
      BY <1>3, <2>1
    <3> QED
      BY <2>1, <3>1 DEF WordsInv, WordTypes
  <2>2. CASE op.word = "fault"
    <3>1. words' = [words EXCEPT !.fault = new]
      BY <1>3, <2>2
    <3> QED
      BY <2>2, <3>1 DEF WordsInv, WordTypes
  <2> QED
    BY <1>4, <2>1, <2>2
<1>9. ~Holds("flags")' /\ FaultsAround' = words'.fault
  BY <1>6 DEF FaultsAround, Holds
<1>10. op \in MainOps /\ words.fault \subseteq MgrFaults
  BY <1>2 DEF NextFits, WordsInv, WordTypes
<1>11. /\ main.pc = "decide" =>
             mgr = "PRERUN_TESTS" /\ op = ClearFlag("UNLOCK_DOOR_SPEED") /\ rest = <<>>
       /\ main.pc = "move" =>
             \/ /\ mgr \in {"POSTRUN_TESTS", "IDLE", "INITIALIZE"}
                /\ op \in {ClearFlag("REQUESTED_TO_START"), OtherFlag,
                           ClearFlag("UNLOCK_DOOR_SPEED_CHECK_REQUESTED")}
             \/ /\ mgr = "UNLOCK_DOOR_CHECK" /\ main.goal = "IDLE"
                /\ op = SetFlag("UNLOCK_DOOR_SPEED") /\ rest = <<>>
             \/ mgr = "ERROR_FOUND" /\ op = ClearFlag("UNLOCK_DOOR_SPEED")
       /\ main.pc \notin {"decide", "move"} =>
             op \notin {SetFlag("UNLOCK_DOOR_SPEED"), ClearFlag("UNLOCK_DOOR_SPEED")}
  BY <1>1, DoorOps DEF WordsInv
<1>12. /\ ClearFlag("UNLOCK_DOOR_SPEED").word = "flags" /\ SetFlag("UNLOCK_DOOR_SPEED").word = "flags"
       /\ ClearFlag("UNLOCK_DOOR_SPEED").set = {} /\ SetFlag("UNLOCK_DOOR_SPEED").clr = {}
       /\ "UNLOCK_DOOR_SPEED" \in ClearFlag("UNLOCK_DOOR_SPEED").clr
       /\ "UNLOCK_DOOR_SPEED" \in SetFlag("UNLOCK_DOOR_SPEED").set
       /\ ClearFlag("REQUESTED_TO_START").word = "flags" /\ OtherFlag.word = "flags"
       /\ ClearFlag("UNLOCK_DOOR_SPEED_CHECK_REQUESTED").word = "flags"
       /\ ClearFlag("REQUESTED_TO_START").clr = {"REQUESTED_TO_START"} /\ OtherFlag.clr = {}
       /\ ClearFlag("UNLOCK_DOOR_SPEED_CHECK_REQUESTED").clr = {"UNLOCK_DOOR_SPEED_CHECK_REQUESTED"}
       /\ ClearFlag("REQUESTED_TO_START").set = {} /\ OtherFlag.set = {}
       /\ ClearFlag("UNLOCK_DOOR_SPEED_CHECK_REQUESTED").set = {}
  BY DEF SetFlag, ClearFlag, OtherFlag, Op
<1> HIDE DEF op, rest
<1>13. CASE op.word = "fault"
  <2>1. main.pc \notin {"decide", "move"}
    BY <1>11, <1>12, <1>13
  <2>2. WordsPhase' = WordsPhase
    BY <1>3, <1>6, <2>1 DEF WordsPhase, AtPc
  <2>3. words'.flags = words.flags /\ words'.fault = new
    BY <1>8, <1>13
  <2>4. wait' \in Nat /\ (wait > 0 => wait' > 0) /\ (op = NewFault => wait' > 0)
    BY <1>3, SharedConstants DEF PermitWords, AccessWords
  <2>5. FaultsAround = words.fault \cup main.held /\ FaultsAround' = new
    BY <1>7, <1>9, <1>13, <2>3
  <2>6. AccessWords'
    <3>1. "OVER_LOAD" \in words'.fault \/ main.pc # "dispatch"
      BY <1>1 DEF WordsInv, OpsFit
    <3> QED
      BY <1>3, <1>6, <1>9, <2>3, <2>4, <3>1 DEF PermitWords, AccessWords
  <2>7. ErrorTimed'
    <3>1. op # NewFault => op.set \subseteq {"OVER_LOAD"}
      BY <1>10, <1>13, OpWrites
    <3>2. op # NewFault => new \ {"OVER_LOAD"} \subseteq FaultsAround \ {"OVER_LOAD"}
      BY <2>5, <3>1
    <3> HIDE DEF new
    <3>3. mgr # "ERROR_FOUND" /\ new \ {"OVER_LOAD"} # {} => wait' > 0
      BY <2>4, <3>2 DEF PermitWords, ErrorTimed
    <3> QED
      BY <1>3, <1>6, <2>1, <2>5, <3>3 DEF ErrorTimed
  <2>8. ReleaseKept'
    BY <1>6, <1>9, <2>1 DEF ReleaseKept
  <2> QED
    BY <2>2, <2>3, <2>6, <2>7, <2>8, PermitStays DEF PermitFollowed, PermitWords
<1>14. CASE op.word = "flags"
  <2>1. /\ op # NewFault /\ "CLASS_A_PWM_ACCESS" \notin op.set \cup op.clr
        /\ "UNLOCK_DOOR_SPEED" \in op.set => op = SetFlag("UNLOCK_DOOR_SPEED")
        /\ "UNLOCK_DOOR_SPEED" \in op.clr => op = ClearFlag("UNLOCK_DOOR_SPEED")
    BY <1>10, <1>14, OpWrites
  <2>2. words'.flags = new /\ words'.fault = words.fault /\ wait' = wait
    BY <1>3, <1>8, <1>14, <2>1
  <2>3. /\ "CLASS_A_PWM_ACCESS" \in words'.flags <=> "CLASS_A_PWM_ACCESS" \in main.held
        /\ "CLASS_A_PWM_ACCESS" \in main.held => mgr = "RUNNING"
    BY <1>7, <1>14, <2>1, <2>2 DEF PermitWords, AccessWords
  <2>4. "UNLOCK_DOOR_SPEED" \in main.held <=> "UNLOCK_DOOR_SPEED" \in words.flags
    BY <1>7, <1>14 DEF PermitWords, ReleaseKept
  <2>5. op # SetFlag("UNLOCK_DOOR_SPEED") /\ op # ClearFlag("UNLOCK_DOOR_SPEED") =>
           ("UNLOCK_DOOR_SPEED" \in words'.flags <=> "UNLOCK_DOOR_SPEED" \in words.flags)
    BY <2>1, <2>2, <2>4
  <2>6. /\ op = SetFlag("UNLOCK_DOOR_SPEED") => "UNLOCK_DOOR_SPEED" \in words'.flags
        /\ op = ClearFlag("UNLOCK_DOOR_SPEED") => "UNLOCK_DOOR_SPEED" \notin words'.flags
    BY <1>12, <2>2
  <2>7. PermitWords'
    <3>1. FaultsAround' = FaultsAround
      BY <1>7, <1>9, <1>14, <2>2
    <3>2. AccessWords'
      BY <1>3, <1>9, <2>2, <2>3 DEF PermitWords, AccessWords
    <3>3. ErrorTimed'
      BY <1>3, <1>6, <2>2, <3>1 DEF PermitWords, ErrorTimed
    <3>4. ReleaseKept'
      <4>1. main.pc = "move" /\ op = SetFlag("UNLOCK_DOOR_SPEED") => main.goal = "IDLE"
        BY <1>11, <1>12
      <4> QED
        BY <1>3, <1>6, <1>9, <2>5, <2>6, <4>1 DEF PermitWords, ReleaseKept
    <3> QED
      BY <3>2, <3>3, <3>4 DEF PermitWords
  <2>8. [WordsPermit!Next]_(WordsPermit!vars)
    <3>1. CASE op = SetFlag("UNLOCK_DOOR_SPEED")
      <4>1. mgr = "UNLOCK_DOOR_CHECK" /\ main.pc = "move" /\ rest = <<>>
        BY <1>11, <1>12, <3>1
      <4>2. WordsPhase = "proving" /\ WordsPhase' = "ready"
        BY <1>1, <1>3, <1>6, <4>1 DEF WordsPhase, AtPc
      <4>3. "CLASS_A_PWM_ACCESS" \notin words.flags
        BY <1>7, <1>14, <4>1 DEF WordsInv, DoorWords, OutsideSlot
      <4> QED
        BY <2>3, <2>6, <3>1, <4>1, <4>2, <4>3 DEF WordsPermit!Next, WordsPermit!Release, Has
    <3>2. CASE op = ClearFlag("UNLOCK_DOOR_SPEED")
      <4>1. CASE main.pc = "decide"
        <5>1. mgr = "PRERUN_TESTS" /\ rest = <<>>
          BY <1>11, <4>1
        <5>2. WordsPhase = "testing" /\ WordsPhase' = "driving"
          BY <1>1, <1>3, <1>6, <4>1, <5>1 DEF WordsPhase, AtPc
        <5>3. "CLASS_A_PWM_ACCESS" \notin words.flags
          BY <1>7, <1>14, <5>1 DEF WordsInv, DoorWords
        <5> QED
          BY <2>3, <2>6, <3>2, <5>1, <5>2, <5>3 DEF WordsPermit!Next, WordsPermit!Drive, Has
      <4>2. CASE main.pc # "decide"
        <5>1. main.pc = "move" /\ mgr = "ERROR_FOUND"
          BY <1>11, <1>12, <3>2, <4>2
        <5>2. WordsPhase = "locked" /\ WordsPhase' = "locked"
          BY <1>3, <1>6, <5>1 DEF WordsPhase, AtPc
        <5>3. "CLASS_A_PWM_ACCESS" \notin words.flags
          BY <5>1 DEF PermitWords, AccessWords, OutsideSlot
        <5> QED
          BY <2>3, <2>6, <3>2, <5>1, <5>2, <5>3 DEF WordsPermit!Next, WordsPermit!Retry, Has
      <4> QED
        BY <4>1, <4>2
    <3>3. CASE op # SetFlag("UNLOCK_DOOR_SPEED") /\ op # ClearFlag("UNLOCK_DOOR_SPEED")
      <4>1. main.pc # "decide" /\ (main.pc = "move" => mgr # "UNLOCK_DOOR_CHECK")
        BY <1>11, <3>3
      <4>2. WordsPhase' = WordsPhase
        BY <1>3, <1>6, <4>1 DEF WordsPhase, AtPc
      <4> QED
        BY <2>3, <2>5, <3>3, <4>2, PermitAccess
    <3> QED
      BY <3>1, <3>2, <3>3
  <2> QED
    BY <2>7, <2>8 DEF PermitFollowed
<1> QED
  BY <1>4, <1>13, <1>14


\* The main loop goes on, and writes no word.
LEMMA PermitTurn ==
    ASSUME WordsInv, PermitWords, NEW q, NEW ops, NEW g,
           main.ops = <<>>, main' = [main EXCEPT !.pc = q, !.ops = ops, !.goal = g],
           UNCHANGED <<mgr, words, wait>>,
           main.pc # "decide", q = "decide" => ops # <<>>,
           mgr = "UNLOCK_DOOR_CHECK" => main.pc # "move" /\ (q = "move" => ops # <<>>),
           mgr = "ERROR_FOUND" /\ "CLASS_A_PWM_ACCESS" \in words.flags => q \in {"end"} \cup OutsideSlot,
           mgr = "ERROR_FOUND" => q # "move",
           q = "move" /\ g = "UNLOCK_DOOR_CHECK" => "UNLOCK_DOOR_SPEED" \notin words.flags
    PROVE  PermitFollowed
<1>1. /\ main'.pc = q /\ main'.ops = ops /\ main'.goal = g /\ ~main'.busy
      /\ FaultsAround' = FaultsAround
  BY TurnFields DEF WordsInv
<1>2. ~Holds("flags")'
  BY <1>1 DEF Holds
<1>3. PermitWords'
  BY <1>1, <1>2 DEF PermitWords, AccessWords, ErrorTimed, ReleaseKept, OutsideSlot
<1>4. WordsPhase' = WordsPhase
  BY <1>1 DEF WordsPhase, AtPc
<1> QED
  BY <1>3, <1>4, PermitStays DEF PermitFollowed

LEMMA PermitSlot ==
    WordsInv /\ PermitWords /\ (RunningSlot \/ ShutdownChecked \/ PostrunSlot \/ Settles \/ PrerunSlot
      \/ Finishes \/ IdleSlot \/ DoorSlot \/ InitializeSlot) => PermitFollowed
<1> SUFFICES ASSUME WordsInv, PermitWords,
                    RunningSlot \/ ShutdownChecked \/ PostrunSlot \/ Settles \/ PrerunSlot
                      \/ Finishes \/ IdleSlot \/ DoorSlot \/ InitializeSlot
             PROVE  PermitFollowed
  OBVIOUS
<1> DEFINE Turns(q, ops, g) == main' = [main EXCEPT !.pc = q, !.ops = ops, !.goal = g]
           Suits(q, ops, g) == /\ q = "decide" => ops # <<>>
                               /\ mgr = "UNLOCK_DOOR_CHECK" => (q = "move" => ops # <<>>)
                               /\ q = "move" /\ g = "UNLOCK_DOOR_CHECK" =>
                                     "UNLOCK_DOOR_SPEED" \notin words.flags
<1>1. /\ main.ops = <<>>
      /\ UNCHANGED <<mgr, words, wait>>
      /\ main.pc \in {"dispatch", "shutdown", "settle", "finish"}
      /\ mgr # "ERROR_FOUND"
  BY DEF RunningSlot, ShutdownChecked, PostrunSlot, Settles, PrerunSlot, Finishes, IdleSlot,
         DoorSlot, InitializeSlot, AtPc, WordsInv, OpsFit
<1>2. /\ \A q, ops : Then(q, ops) => Turns(q, ops, main.goal)
      /\ \A ops, g : ThenState(ops, g) => Turns("move", ops, g)
  BY ThenTurns DEF WordsInv
<1>3. \E q, ops, g : Suits(q, ops, g) /\ Turns(q, ops, g)
  <2> HIDE DEF Turns
  <2> USE <1>2, ShortLists
  <2>1. CASE RunningSlot
    BY <2>1 DEF RunningSlot
  <2>2. CASE ShutdownChecked
    BY <2>2 DEF ShutdownChecked, WordsInv, OpsFit, AtPc
  <2>3. CASE PostrunSlot
    BY <2>3 DEF PostrunSlot
  <2>4. CASE Settles
    BY <2>4 DEF Settles, WordsInv, OpsFit, AtPc
  <2>5. CASE PrerunSlot
    BY <2>5 DEF PrerunSlot
  <2>6. CASE Finishes
    BY <2>6 DEF Finishes, MovingOps
  <2>7. CASE IdleSlot
    BY <2>7 DEF IdleSlot, Has
  <2>8. CASE DoorSlot
    BY <2>8 DEF DoorSlot
  <2>9. CASE InitializeSlot
    BY <2>9 DEF InitializeSlot
  <2> QED
    BY <2>1, <2>2, <2>3, <2>4, <2>5, <2>6, <2>7, <2>8, <2>9
<1>4. PICK q, ops, g : Suits(q, ops, g) /\ Turns(q, ops, g)
  BY <1>3
<1>5. main' = [main EXCEPT !.pc = q, !.ops = ops, !.goal = g]
  BY <1>4
<1>6. /\ q = "decide" => ops # <<>>
      /\ mgr = "UNLOCK_DOOR_CHECK" => main.pc # "move" /\ (q = "move" => ops # <<>>)
      /\ q = "move" /\ g = "UNLOCK_DOOR_CHECK" => "UNLOCK_DOOR_SPEED" \notin words.flags
  BY <1>1, <1>4
<1> HIDE DEF Turns, Suits
<1> QED
  BY <1>1, <1>5, <1>6, PermitTurn

\* Around the slot.
LEMMA PermitAround ==
    WordsInv /\ PermitWords
      /\ (Check \/ Enables \/ Overload \/ LoadsParams \/ Forces \/ GoesBack) => PermitFollowed
<1> SUFFICES ASSUME WordsInv, PermitWords,
                    Check \/ Enables \/ Overload \/ LoadsParams \/ Forces \/ GoesBack
             PROVE  PermitFollowed
  OBVIOUS
<1>1. /\ main.ops = <<>> /\ main.pc \in {"waiting", "enable", "slow", "back"}
      /\ UNCHANGED <<mgr, words, wait>>
      /\ main.pc = "enable" => mgr = "PRERUN_TESTS"
  BY DEF Check, Enables, Overload, LoadsParams, Forces, GoesBack, AtPc, WordsInv, OpsFit
<1>2. PICK q, ops :
         /\ main' = [main EXCEPT !.pc = q, !.ops = ops, !.goal = main.goal]
         /\ \/ q = "judge" /\ main.pc = "waiting" /\ pwm
            \/ q = "finish" /\ main.pc = "enable"
            \/ q = "force" /\ ~loaded
            \/ q \in {"back", "waiting"}
  <2> DEFINE GoesOn ==
               \E ops : \/ Then("judge", ops) /\ main.pc = "waiting" /\ pwm
                        \/ Then("finish", ops) /\ main.pc = "enable"
                        \/ Then("force", ops) /\ ~loaded
                        \/ Then("back", ops)
                        \/ Then("waiting", ops)
  <2>1. GoesOn
    <3>1. Check => GoesOn
      BY DEF Check, AtPc
    <3>2. Enables => GoesOn
      BY DEF Enables, AtPc
    <3>3. Overload => GoesOn
      BY DEF Overload
    <3>4. LoadsParams => GoesOn
      BY DEF LoadsParams
    <3>5. Forces => GoesOn
      BY DEF Forces, MayForce
    <3>6. GoesBack => GoesOn
      BY DEF GoesBack
    <3> QED
      BY <3>1, <3>2, <3>3, <3>4, <3>5, <3>6
  <2>2. \A q, ops : Then(q, ops) => main' = [main EXCEPT !.pc = q, !.ops = ops, !.goal = main.goal]
    BY ThenTurns DEF WordsInv
  <2> QED
    BY <2>1, <2>2
<1>3. /\ q = "judge" => "CLASS_A_PWM_ACCESS" \notin words.flags \/ mgr = "RUNNING"
      /\ q = "force" => "CLASS_A_PWM_ACCESS" \notin words.flags
  BY <1>2 DEF WordsInv, DoorWords, KnownParams, OutsideSlot, FlagsAround
<1>4. /\ mgr = "ERROR_FOUND" /\ "CLASS_A_PWM_ACCESS" \in words.flags => q \in {"end"} \cup OutsideSlot
      /\ q # "decide" /\ q # "move" /\ main.pc # "decide" /\ main.pc # "move"
  BY <1>1, <1>2, <1>3 DEF OutsideSlot
<1> QED
  BY <1>1, <1>2, <1>4, PermitTurn

\* A fault locks: of a run that ends so, the access is there in the first slot
\* of the error, which has its time to wait.
LEMMA PermitJudge == WordsInv /\ PermitWords /\ Judge => PermitFollowed
<1> SUFFICES ASSUME WordsInv, PermitWords, Judge PROVE PermitFollowed
  OBVIOUS
<1>1. /\ main.ops = <<>> /\ main.pc = "judge"
      /\ mgr' = IF words.fault # {} /\ mgr # "INITIALIZE" THEN "ERROR_FOUND" ELSE mgr
      /\ UNCHANGED <<words, wait>>
  BY DEF Judge, AtPc
<1>2. main' = [main EXCEPT !.pc = "dispatch", !.ops = <<>>, !.goal = main.goal]
  BY ThenTurns DEF Judge, WordsInv
<1>3. /\ main'.pc = "dispatch" /\ main'.ops = <<>> /\ ~main'.busy
      /\ FaultsAround = words.fault /\ FaultsAround' = words.fault
  BY <1>1, <1>2, TurnFields DEF WordsInv, WordTypes
<1>4. ~Holds("flags")'
  BY <1>3 DEF Holds
<1>5. PermitWords'
  <2>1. mgr' = "ERROR_FOUND" /\ "CLASS_A_PWM_ACCESS" \in words.flags =>
           wait > 0 \/ "OVER_LOAD" \in words.fault
    <3>1. mgr = "ERROR_FOUND" => "CLASS_A_PWM_ACCESS" \notin words.flags
      BY <1>1 DEF PermitWords, AccessWords, OutsideSlot
    <3>2. mgr # "ERROR_FOUND" /\ words.fault \ {"OVER_LOAD"} # {} => wait > 0
      BY <1>3 DEF PermitWords, ErrorTimed
    <3> QED
      BY <1>1, <3>1, <3>2
  <2>2. AccessWords'
    BY <1>1, <1>3, <1>4, <2>1 DEF PermitWords, AccessWords
  <2>3. ErrorTimed' /\ ReleaseKept'
    BY <1>1, <1>3, <1>4 DEF PermitWords, ErrorTimed, ReleaseKept
  <2> QED
    BY <2>2, <2>3 DEF PermitWords
<1>6. [WordsPermit!Next]_(WordsPermit!vars)
  <2>1. CASE mgr' = mgr
    <3>1. WordsPhase' = WordsPhase
      BY <1>1, <1>3, <2>1 DEF WordsPhase, AtPc
    <3> QED
      BY <1>1, <3>1, PermitStays
  <2>2. CASE mgr' # mgr
    <3>1. WordsPhase' = "locked"
      BY <1>1, <1>3, <2>2 DEF WordsPhase, AtPc
    <3> QED
      BY <1>1, <3>1 DEF WordsPermit!Next, WordsPermit!Lock, Has
  <2> QED
    BY <2>1, <2>2
<1> QED
  BY <1>5, <1>6 DEF PermitFollowed

\* The motor may run, or a stop came first.
LEMMA PermitDecides == WordsInv /\ PermitWords /\ Decides => PermitFollowed
<1> SUFFICES ASSUME WordsInv, PermitWords, Decides PROVE PermitFollowed
  OBVIOUS
<1>1. /\ main.ops = <<>> /\ main.pc = "decide" /\ mgr = "PRERUN_TESTS"
      /\ mgr' \in {"POSTRUN_TESTS", "RUNNING"}
      /\ UNCHANGED <<words, wait>>
  BY DEF Decides, AtPc, WordsInv, OpsFit
<1>2. PICK ops : main' = [main EXCEPT !.pc = "end", !.ops = ops, !.goal = main.goal]
  BY ThenTurns DEF Decides, WordsInv
<1>3. /\ main'.pc = "end" /\ ~main'.busy
      /\ FaultsAround = words.fault /\ FaultsAround' = words.fault
  BY <1>1, <1>2, TurnFields DEF WordsInv, WordTypes
<1>4. ~Holds("flags")'
  BY <1>3 DEF Holds
<1>5. PermitWords'
  BY <1>1, <1>3, <1>4 DEF PermitWords, AccessWords, ErrorTimed, ReleaseKept
<1>6. WordsPhase = "driving" /\ WordsPhase' \in {"driving", "locked"}
  BY <1>1, <1>3 DEF WordsPhase, AtPc
<1>7. [WordsPermit!Next]_(WordsPermit!vars)
  BY <1>1, <1>6, PermitStays DEF WordsPermit!Next, WordsPermit!Lock, Has
<1> QED
  BY <1>5, <1>7 DEF PermitFollowed

\* The slot of an error stays locked.
LEMMA PermitError == WordsInv /\ PermitWords /\ ErrorSlot => PermitFollowed
<1> SUFFICES ASSUME WordsInv, PermitWords, ErrorSlot PROVE PermitFollowed
  OBVIOUS
<1>1. main.ops = <<>> /\ main.pc = "dispatch" /\ mgr = "ERROR_FOUND" /\ mgr' = mgr
  BY DEF ErrorSlot, AtPc
<1>2. CASE Then("end", <<>>) /\ UNCHANGED words /\ wait' \in Nat
  <2>1. main' = [main EXCEPT !.pc = "end", !.ops = <<>>, !.goal = main.goal]
    BY <1>2, ThenTurns DEF WordsInv
  <2>2. main'.pc = "end" /\ ~main'.busy
    BY <1>1, <1>2, <2>1, TurnFields DEF WordsInv
  <2>3. PermitWords'
    BY <1>1, <1>2, <2>2 DEF PermitWords, AccessWords, ErrorTimed, ReleaseKept, Holds
  <2>4. WordsPhase' = WordsPhase
    BY <1>1, <2>2 DEF WordsPhase, AtPc
  <2> QED
    BY <1>2, <2>3, <2>4, PermitStays DEF PermitFollowed
<1>3. CASE /\ "OVER_LOAD" \notin words.fault /\ ~(wait > 0) /\ wait' = wait
           /\ words' = [words EXCEPT !.fault = {}]
           /\ ThenState(MovingOps, "POSTRUN_TESTS")
  <2>1. main' = [pc |-> "move", ops |-> MovingOps, goal |-> "POSTRUN_TESTS",
                 busy |-> main.busy, held |-> main.held]
        /\ main.busy = FALSE
    BY <1>1, <1>3 DEF ThenState, WordsInv, WordTypes
  <2>2. main'.pc = "move" /\ main'.goal = "POSTRUN_TESTS" /\ ~main'.busy
    BY <2>1
  <2>3. words'.flags = words.flags /\ words'.fault = {}
    BY <1>3 DEF WordsInv, WordTypes
  <2>4. FaultsAround' = {} /\ ~Holds("flags")'
    BY <2>2, <2>3 DEF FaultsAround, Holds
  <2>5. "CLASS_A_PWM_ACCESS" \notin words.flags
    BY <1>1, <1>3 DEF PermitWords, AccessWords
  <2>6. PermitWords'
    BY <1>1, <1>3, <2>2, <2>3, <2>4, <2>5 DEF PermitWords, AccessWords, ErrorTimed, ReleaseKept
  <2>7. WordsPhase' = WordsPhase
    BY <1>1, <2>2 DEF WordsPhase, AtPc
  <2> QED
    BY <2>3, <2>6, <2>7, PermitStays DEF PermitFollowed
<1>4. wait > 0 => wait - 1 \in Nat
  BY DEF PermitWords, AccessWords
<1> QED
  BY <1>2, <1>3, <1>4 DEF ErrorSlot, ErrorLasts, PermitWords, AccessWords

\* The slot stores the state, or it leaves it.
LEMMA PermitEnd == WordsInv /\ PermitWords /\ (Moves \/ Ends) => PermitFollowed
<1> SUFFICES ASSUME WordsInv, PermitWords, Moves \/ Ends PROVE PermitFollowed
  OBVIOUS
<1>1. /\ main.ops = <<>> /\ main.pc \in {"move", "end"}
      /\ mgr' = IF main.pc = "move" THEN main.goal ELSE mgr
      /\ main' = [Waiting EXCEPT !.pc = "slow"]
      /\ UNCHANGED <<words, wait>>
  BY DEF Moves, Ends, AtPc
<1>2. main' = [pc |-> "slow", ops |-> <<>>, goal |-> "INITIALIZE", busy |-> FALSE, held |-> {}]
  BY <1>1 DEF Waiting
<1>3. main'.pc = "slow" /\ main'.ops = <<>> /\ ~main'.busy
  BY <1>2
<1>4. FaultsAround = words.fault /\ FaultsAround' = words.fault /\ ~Holds("flags")'
  BY <1>1, <1>3 DEF FaultsAround, Holds, WordsInv, WordTypes
<1>5. PermitWords'
  BY <1>1, <1>3, <1>4 DEF PermitWords, AccessWords, ErrorTimed, ReleaseKept, OutsideSlot
<1>6. CASE main.pc = "end"
  <2>1. WordsPhase' = WordsPhase
    BY <1>1, <1>3, <1>6 DEF WordsPhase, AtPc
  <2> QED
    BY <1>1, <1>5, <2>1, PermitStays DEF PermitFollowed
<1>7. CASE main.pc = "move"
  <2>1. \/ mgr = "RUNNING" /\ mgr' = "POSTRUN_TESTS"
        \/ mgr = "POSTRUN_TESTS" /\ mgr' = "IDLE"
        \/ mgr = "IDLE" /\ mgr' = "PRERUN_TESTS"
        \/ mgr = "IDLE" /\ mgr' = "UNLOCK_DOOR_CHECK" /\ "UNLOCK_DOOR_SPEED" \notin words.flags
        \/ mgr = "UNLOCK_DOOR_CHECK" /\ mgr' = "IDLE"
        \/ mgr \in {"INITIALIZE", "ERROR_FOUND"} /\ mgr' = "POSTRUN_TESTS"
    BY <1>1, <1>7 DEF WordsInv, GoalFits, PermitWords, ReleaseKept
  <2>2. mgr = "POSTRUN_TESTS" => "CLASS_A_PWM_ACCESS" \notin words.flags
    BY <1>7 DEF WordsInv, DoorWords, FlagsAround, OutsideSlot
  <2>3. \/ WordsPhase' = WordsPhase
        \/ WordsPhase' = "locked"
        \/ WordsPhase = "locked" /\ WordsPhase' = "ready" /\ mgr = "POSTRUN_TESTS"
        \/ WordsPhase = "ready" /\ WordsPhase' = "testing"
        \/ WordsPhase = "ready" /\ WordsPhase' = "proving" /\ "UNLOCK_DOOR_SPEED" \notin words.flags
    BY <1>1, <1>3, <1>7, <2>1 DEF WordsPhase, AtPc
  <2>4. [WordsPermit!Next]_(WordsPermit!vars)
    BY <1>1, <2>2, <2>3, PermitStays
       DEF WordsPermit!Next, WordsPermit!Lock, WordsPermit!Settle, WordsPermit!Start,
           WordsPermit!Prove, Has
  <2> QED
    BY <1>5, <2>4 DEF PermitFollowed
<1> QED
  BY <1>1, <1>6, <1>7

\* The requests of class A that the main loop handles.
LEMMA PermitAsides == WordsInv /\ PermitWords /\ (Forced \/ ClassALoaded) => PermitFollowed
<1> SUFFICES ASSUME WordsInv, PermitWords, Forced \/ ClassALoaded PROVE PermitFollowed
  OBVIOUS
<1>1. CASE Forced
  <2>1. /\ main.ops = <<>> /\ main.pc = "force" /\ UNCHANGED <<mgr, wait>>
        /\ ~loaded /\ mgr \notin {"PRERUN_TESTS", "RUNNING"}
    BY <1>1 DEF Forced, AtPc, WordsInv, KnownParams
  <2>2. words' = words
    BY <1>1, <2>1 DEF Forced
  <2>3. main' = [main EXCEPT !.pc = "waiting", !.ops = <<>>, !.goal = main.goal]
    BY <1>1, ThenTurns DEF Forced, WordsInv
  <2>4. "waiting" \in {"end"} \cup OutsideSlot /\ "waiting" # "move" /\ "waiting" # "decide"
        /\ main.pc # "move" /\ main.pc # "decide" /\ UNCHANGED <<mgr, words, wait>>
    BY <2>1, <2>2 DEF OutsideSlot
  <2> QED
    BY <2>1, <2>3, <2>4, PermitTurn
<1>2. CASE ClassALoaded
  <2>1. UNCHANGED <<mgr, words, wait, main>>
    BY <1>2 DEF ClassALoaded
  <2>2. PermitWords' /\ WordsPhase' = WordsPhase
    BY <2>1 DEF PermitWords, AccessWords, ErrorTimed, ReleaseKept, Holds, FaultsAround,
                WordsPhase, AtPc
  <2> QED
    BY <2>1, <2>2, PermitStays DEF PermitFollowed
<1> QED
  BY <1>1, <1>2

\* The PWM interrupt works the access out anew.
LEMMA PermitTick == WordsInv /\ PermitWords /\ PwmTick => PermitFollowed
<1> SUFFICES ASSUME WordsInv, PermitWords, PwmTick PROVE PermitFollowed
  OBVIOUS
<1>1. PICK got, bad, analog : PwmHandler(got, bad, analog)
  BY DEF PwmTick
<1>2. UNCHANGED <<mgr, main>>
  BY <1>1 DEF PwmHandler
<1>3. /\ words.fault \subseteq words'.fault
      /\ words'.fault # words.fault => mgr = "PRERUN_TESTS" /\ wait' = ErrorSlots
      /\ "UNLOCK_DOOR_SPEED" \in words'.flags <=> "UNLOCK_DOOR_SPEED" \in words.flags
      /\ "CLASS_A_PWM_ACCESS" \in words'.flags => mgr = "RUNNING"
      /\ wait' \in {wait, ErrorSlots}
  BY <1>1, InterruptWrites
<1>4. wait' \in Nat /\ (wait > 0 => wait' > 0) /\ ErrorSlots > 0
  BY <1>3, SharedConstants DEF PermitWords, AccessWords
<1>5. FaultsAround' # FaultsAround => mgr = "PRERUN_TESTS" /\ wait' = ErrorSlots
  BY <1>2, <1>3 DEF FaultsAround, Holds
<1>6. (Holds("flags") <=> Holds("flags")')
  BY <1>2 DEF Holds
<1>7. AccessWords'
  BY <1>2, <1>3, <1>4, <1>6 DEF PermitWords, AccessWords
<1>8. ErrorTimed'
  BY <1>2, <1>4, <1>5 DEF PermitWords, ErrorTimed
<1>9. ReleaseKept'
  BY <1>2, <1>3, <1>6 DEF PermitWords, ReleaseKept
<1>10. WordsPhase' = WordsPhase
  BY <1>2 DEF WordsPhase, AtPc
<1> QED
  BY <1>3, <1>7, <1>8, <1>9, <1>10, PermitAccess DEF PermitFollowed, PermitWords

LEMMA PermitCurrents == WordsInv /\ PermitWords /\ CurrentsWrong => PermitFollowed
<1> SUFFICES ASSUME WordsInv, PermitWords, CurrentsWrong PROVE PermitFollowed
  OBVIOUS
<1>1. /\ mgr = "RUNNING" /\ wait' = ErrorSlots /\ UNCHANGED <<mgr, main>>
      /\ words' = [words EXCEPT !.fault = @ \cup {"BY_INTERRUPT"}]
  BY DEF CurrentsWrong
<1>2. words'.flags = words.flags
  BY <1>1 DEF WordsInv, WordTypes
<1>3. ErrorSlots \in Nat /\ ErrorSlots > 0
  BY SharedConstants
<1>4. PermitWords'
  BY <1>1, <1>2, <1>3 DEF PermitWords, AccessWords, ErrorTimed, ReleaseKept, Holds
<1>5. WordsPhase' = WordsPhase
  BY <1>1 DEF WordsPhase, AtPc
<1> QED
  BY <1>2, <1>4, <1>5, PermitStays DEF PermitFollowed

LEMMA PermitBegins == SharedInit => PermitWords /\ WordsPermit!Init
<1> SUFFICES ASSUME SharedInit PROVE PermitWords /\ WordsPermit!Init
  OBVIOUS
<1>1. /\ main.pc = "waiting" /\ ~main.busy /\ mgr = "INITIALIZE"
      /\ words.flags = {} /\ words.fault = {} /\ wait = 0
  BY DEF SharedInit, Waiting
<1>2. FaultsAround = {}
  BY <1>1 DEF FaultsAround, Holds
<1>3. PermitWords
  BY <1>1, <1>2 DEF PermitWords, AccessWords, ErrorTimed, ReleaseKept, Holds
<1>4. WordsPermit!Init
  BY <1>1 DEF WordsPermit!Init, WordsPhase, AtPc, Has
<1> QED
  BY <1>3, <1>4

LEMMA PermitStep == WordsInv /\ PermitWords /\ [SharedNext]_sharedVars => PermitFollowed
<1> SUFFICES ASSUME WordsInv, PermitWords, [SharedNext]_sharedVars PROVE PermitFollowed
  OBVIOUS
<1>1. CASE SharedNext
  BY <1>1, PermitLoad, PermitStore, PermitAround, PermitJudge, PermitSlot, PermitDecides,
     PermitError, PermitEnd, PermitAsides, PermitTick, PermitCurrents
     DEF SharedNext, Dispatch
<1>2. CASE UNCHANGED sharedVars
  <2>1. UNCHANGED <<mgr, words, wait, main>>
    BY <1>2 DEF sharedVars
  <2>2. PermitWords' /\ WordsPhase' = WordsPhase
    BY <2>1 DEF PermitWords, AccessWords, ErrorTimed, ReleaseKept, Holds, FaultsAround,
                WordsPhase, AtPc
  <2> QED
    BY <2>1, <2>2, PermitStays DEF PermitFollowed
<1> QED
  BY <1>1, <1>2

(* At the grain of loads and stores, too, the permission to drive and the  *)
(* release of the door change hands as MotorPermit says, for every time    *)
(* an error lasts: with every store of the main loop late.                 *)
THEOREM WordsImplementPermit == SharedSpec => WordsPermitSpec
<1>1. SharedInit => PermitWords /\ WordsPermit!Init
  BY PermitBegins
<1>2. WordsInv /\ PermitWords /\ [SharedNext]_sharedVars =>
         PermitWords' /\ [WordsPermit!Next]_(WordsPermit!vars)
  BY PermitStep DEF PermitFollowed
<1> QED
  BY <1>1, <1>2, WordsFit, PTL DEF SharedSpec, WordsPermitSpec, WordsPermit!Spec

--------------------------------------------------------------------------------
(* The words of class A.  Where a command of the main loop is, by what is  *)
(* left of its accesses.                                                   *)
RunPlaces == {<<"flow", "state", "store">>, <<"state", "store">>, <<"store">>}
AskPlaces == {<<"flow", "state", "load", "store">>, <<"state", "load", "store">>,
              <<"load", "store">>, <<"store">>}
StopPlaces == {<<"load", "clear", "state", "load", "store">>, <<"clear", "state", "load", "store">>,
               <<"state", "load", "store">>, <<"load", "store">>, <<"store">>}
FvtStopPlaces == {<<"state", "load", "store">>, <<"load", "store">>, <<"store">>}

CallFits ==
    /\ ctl \in MciType
    /\ call = [cmd |-> call.cmd, ops |-> call.ops, tests |-> call.tests, word |-> call.word]
    /\ call.cmd \in ClassACommands \cup {"none", "errors"}
    /\ call.cmd = "none" => call.ops = <<>> /\ call.tests = <<>> /\ call.word = {}
    /\ call.cmd = "errors" => call.ops = <<>> /\ call.tests = <<>> /\ call.word \subseteq MciErrors
    /\ call.cmd = "run" => call.ops \in RunPlaces
    /\ call.cmd \in {"fvt", "manual"} => call.ops \in AskPlaces
    /\ call.cmd = "stop" => call.ops \in StopPlaces
    /\ call.cmd = "fvtstop" => call.ops \in FvtStopPlaces
    /\ call.cmd \in ClassACommands =>
          call.tests = <<TakenIn(call.cmd)>> /\ call.word \subseteq MciFlows

\* A request that has found no stop; a stop that is about to forget the run,
\* and one that has.
Asks == call.cmd \in {"run", "fvt", "manual"} /\ call.ops # Accesses(call.cmd)
Forgets == call.cmd = "stop" /\ call.ops = <<"clear", "state", "load", "store">>
Forgot ==
    /\ call.cmd = "stop"
    /\ call.ops \in {<<"state", "load", "store">>, <<"load", "store">>, <<"store">>}
Stores == call.ops = <<"store">>

\* A run and a stop are never requested together, and a stop leaves no run.
StopForgets ==
    /\ "REQUESTED_STOP" \in ctl.flow => "REQUESTED_START" \notin ctl.flow
    /\ Asks => "REQUESTED_STOP" \notin ctl.flow \cup call.word
    /\ Forgets => ctl.flow \ {"FORCE_LOWERS_ON"} \subseteq call.word
    /\ Forgot => "REQUESTED_START" \notin ctl.flow
    /\ Forgot /\ Stores => "REQUESTED_START" \notin call.word
    /\ stopped => "REQUESTED_START" \notin ctl.flow

\* A request that is served or dropped may be stored again by MclFvt__Entry's
\* caller, but not before class A has left the states in which it counts, unless
\* a manual injection goes before it.
Served == {"STARTING", "RUNNING", "MANUAL_CONTROL", "FAILED"}
FvtTested == call.cmd = "fvt" /\ call.ops \in {<<"load", "store">>, <<"store">>}

LateRequests ==
    /\ "REQUESTED_START" \in ctl.flow \ asked =>
          ctl.st \in Served \/ "REQUESTED_MANUAL" \in ctl.flow
    /\ FvtTested /\ Stores /\ "REQUESTED_START" \in call.word \ asked =>
          ctl.st \in Served \/ "REQUESTED_MANUAL" \in call.word
    /\ FvtTested => /\ ctl.st \in FromStarting => classB # "idle"
                    /\ ctl.st = "FAILED" => \/ classB # "idle"
                                            \/ ctl.errors \ {"SW_OVER_CURRENT"} # {}

ClassAInv == CallFits /\ StopForgets /\ StopTakesHold /\ LateRequests

\* The lists of accesses: what is first, and what is left then.
LEMMA AccessLists ==
    ASSUME NEW a, NEW b, NEW c, NEW d, NEW e
    PROVE  /\ Head(<<a>>) = a /\ Tail(<<a>>) = <<>>
           /\ Head(<<a, b>>) = a /\ Tail(<<a, b>>) = <<b>>
           /\ Head(<<a, b, c>>) = a /\ Tail(<<a, b, c>>) = <<b, c>>
           /\ Head(<<a, b, c, d>>) = a /\ Tail(<<a, b, c, d>>) = <<b, c, d>>
           /\ Head(<<a, b, c, d, e>>) = a /\ Tail(<<a, b, c, d, e>>) = <<b, c, d, e>>
           /\ <<>> # <<a>> /\ <<>> # <<a, b>> /\ <<>> # <<a, b, c>> /\ <<>> # <<a, b, c, d>>
<1>1. /\ Head(<<a>>) = a /\ Tail(<<a>>) = <<>>
  BY ShortLists
<1>2. Head(<<a, b>>) = a /\ Tail(<<a, b>>) = <<b>>
  BY ShortLists
<1>3. Head(<<a, b, c>>) = a
  OBVIOUS
<1>4. Tail(<<a, b, c>>) = <<b, c>>
  OBVIOUS
<1>5. Head(<<a, b, c, d>>) = a
  OBVIOUS
<1>6. Tail(<<a, b, c, d>>) = <<b, c, d>>
  OBVIOUS
<1>7. Head(<<a, b, c, d, e>>) = a
  OBVIOUS
<1>8. Tail(<<a, b, c, d, e>>) = <<b, c, d, e>>
  OBVIOUS
<1>9. <<>> # <<a>> /\ <<>> # <<a, b>> /\ <<>> # <<a, b, c>> /\ <<>> # <<a, b, c, d>>
  OBVIOUS
<1> QED
  BY <1>1, <1>2, <1>3, <1>4, <1>5, <1>6, <1>7, <1>8, <1>9

\* The access that is next, by the command and its place.
LEMMA NextAccess ==
    ASSUME CallFits, NEW op, Due(op)
    PROVE  /\ call.cmd \in ClassACommands
           /\ \/ /\ op = "flow" /\ call.cmd \in {"run", "fvt", "manual"}
                 /\ call.ops = Accesses(call.cmd)
                 /\ Tail(call.ops) = IF call.cmd = "run" THEN <<"state", "store">>
                                     ELSE <<"state", "load", "store">>
              \/ /\ op = "state" /\ call.cmd = "run"
                 /\ call.ops = <<"state", "store">> /\ Tail(call.ops) = <<"store">>
              \/ /\ op = "state" /\ call.cmd \in {"fvt", "manual", "stop", "fvtstop"}
                 /\ call.ops = <<"state", "load", "store">> /\ Tail(call.ops) = <<"load", "store">>
              \/ /\ op = "load" /\ call.cmd = "stop" /\ call.ops = Accesses("stop")
                 /\ Tail(call.ops) = <<"clear", "state", "load", "store">>
              \/ /\ op = "clear" /\ call.cmd = "stop"
                 /\ call.ops = <<"clear", "state", "load", "store">>
                 /\ Tail(call.ops) = <<"state", "load", "store">>
              \/ /\ op = "load" /\ call.cmd \in {"fvt", "manual", "stop", "fvtstop"}
                 /\ call.ops = <<"load", "store">> /\ Tail(call.ops) = <<"store">>
              \/ op = "store" /\ call.ops = <<"store">>
<1>1. call.cmd \in ClassACommands /\ call.ops # <<>> /\ op = Head(call.ops)
  BY DEF Due, CallFits
<1>2. CASE call.ops = <<"flow", "state", "store">>
  BY <1>1, <1>2, AccessLists DEF CallFits, ClassACommands, AskPlaces, StopPlaces, FvtStopPlaces, Accesses
<1>3. CASE call.ops = <<"state", "store">>
  BY <1>1, <1>3, AccessLists DEF CallFits, ClassACommands, AskPlaces, StopPlaces, FvtStopPlaces
<1>4. CASE call.ops = <<"store">>
  BY <1>1, <1>4, AccessLists
<1>5. CASE call.ops = <<"flow", "state", "load", "store">>
  BY <1>1, <1>5, AccessLists DEF CallFits, ClassACommands, RunPlaces, StopPlaces, FvtStopPlaces, Accesses
<1>6. CASE call.ops = <<"state", "load", "store">>
  BY <1>1, <1>6, AccessLists DEF CallFits, ClassACommands, RunPlaces
<1>7. CASE call.ops = <<"load", "store">>
  BY <1>1, <1>7, AccessLists DEF CallFits, ClassACommands, RunPlaces
<1>8. CASE call.ops = <<"load", "clear", "state", "load", "store">>
  BY <1>1, <1>8, AccessLists DEF CallFits, ClassACommands, RunPlaces, AskPlaces, FvtStopPlaces, Accesses
<1>9. CASE call.ops = <<"clear", "state", "load", "store">>
  BY <1>1, <1>9, AccessLists DEF CallFits, ClassACommands, RunPlaces, AskPlaces, FvtStopPlaces
<1> QED
  BY <1>1, <1>2, <1>3, <1>4, <1>5, <1>6, <1>7, <1>8, <1>9
     DEF CallFits, ClassACommands, RunPlaces, AskPlaces, StopPlaces, FvtStopPlaces

\* A call that goes on with its next access.
LEMMA SteppedCall ==
    ASSUME CallFits, NEW op, Due(op), NEW word, call' = Stepped(word)
    PROVE  /\ call'.cmd = call.cmd /\ call'.ops = Tail(call.ops)
           /\ call'.tests = call.tests /\ call'.word = word
           /\ ctl' \in MciType /\ word \subseteq MciFlows /\ op # "store" => CallFits'
<1>1. call' = [cmd |-> call.cmd, ops |-> Tail(call.ops), tests |-> call.tests, word |-> word]
  BY DEF Stepped, CallFits
<1>2. /\ call'.cmd = call.cmd /\ call'.ops = Tail(call.ops)
      /\ call'.tests = call.tests /\ call'.word = word
  BY <1>1
<1>3. ASSUME ctl' \in MciType, word \subseteq MciFlows, op # "store" PROVE CallFits'
  <2>1. call' = [cmd |-> call'.cmd, ops |-> call'.ops, tests |-> call'.tests, word |-> call'.word]
    BY <1>1, <1>2
  <2>2. /\ call.cmd \in ClassACommands
        /\ call.cmd = "run" => Tail(call.ops) \in RunPlaces
        /\ call.cmd \in {"fvt", "manual"} => Tail(call.ops) \in AskPlaces
        /\ call.cmd = "stop" => Tail(call.ops) \in StopPlaces
        /\ call.cmd = "fvtstop" => Tail(call.ops) \in FvtStopPlaces
    BY <1>3, NextAccess DEF RunPlaces, AskPlaces, StopPlaces, FvtStopPlaces
  <2> QED
    BY <1>2, <1>3, <2>1, <2>2 DEF CallFits, ClassACommands
<1> QED
  BY <1>2, <1>3

\* No call, and the beginning of one.
LEMMA IdleCall ==
    ASSUME ctl' \in MciType, call' = NoCall
    PROVE  CallFits' /\ ~Asks' /\ ~Forgets' /\ ~Forgot' /\ ~FvtTested'
<1>1. call'.cmd = "none" /\ call'.ops = <<>> /\ call'.tests = <<>> /\ call'.word = {}
  BY DEF NoCall
<1>2. call' = [cmd |-> call'.cmd, ops |-> call'.ops, tests |-> call'.tests, word |-> call'.word]
  BY DEF NoCall
<1> QED
  BY <1>1, <1>2 DEF CallFits, ClassACommands, Asks, Forgets, Forgot, FvtTested

LEMMA ClassACalls == \A cmd \in ClassACommands : ClassAInv /\ Calls(cmd) => ClassAInv'
<1> SUFFICES ASSUME NEW cmd \in ClassACommands, ClassAInv, Calls(cmd) PROVE ClassAInv'
  OBVIOUS
<1>1. /\ call' = [cmd |-> cmd, ops |-> Accesses(cmd), tests |-> <<TakenIn(cmd)>>, word |-> {}]
      /\ UNCHANGED <<ctl, classB, asked, stopped>>
  BY DEF Calls, StateTests
<1>2. /\ call'.cmd = cmd /\ call'.ops = Accesses(cmd) /\ call'.tests = <<TakenIn(cmd)>>
      /\ call'.word = {}
  BY <1>1
<1>3. CallFits'
  BY <1>1, <1>2 DEF ClassAInv, CallFits, ClassACommands, Accesses, RunPlaces, AskPlaces, StopPlaces,
                    FvtStopPlaces
<1>4. ~Asks' /\ ~Forgets' /\ ~Forgot' /\ ~FvtTested'
  <2>1. Accesses(cmd) # <<>>
    BY AccessLists DEF Accesses
  <2>2. cmd = "stop" => Accesses(cmd) = <<"load", "clear", "state", "load", "store">>
    BY DEF Accesses
  <2>3. cmd = "fvt" => Accesses(cmd) = <<"flow", "state", "load", "store">>
    BY DEF Accesses
  <2> QED
    BY <1>2, <2>2, <2>3 DEF Asks, Forgets, Forgot, FvtTested
<1> QED
  BY <1>1, <1>3, <1>4 DEF ClassAInv, StopForgets, StopTakesHold, LateRequests

\* The loads of a command.
LEMMA ClassALoads == ClassAInv /\ (FlowLoaded \/ StateLoaded \/ WordLoaded) => ClassAInv'
<1> SUFFICES ASSUME ClassAInv, FlowLoaded \/ StateLoaded \/ WordLoaded PROVE ClassAInv'
  OBVIOUS
<1>1. /\ UNCHANGED <<ctl, classB, asked>>
      /\ CallFits /\ ctl \in MciType /\ ctl.flow \subseteq MciFlows
  BY DEF FlowLoaded, StateLoaded, WordLoaded, ClassAInv, CallFits, MciType
<1>2. CASE FlowLoaded
  <2>1. /\ Due("flow") /\ call.cmd \in {"run", "fvt", "manual"}
        /\ Tail(call.ops) = IF call.cmd = "run" THEN <<"state", "store">>
                            ELSE <<"state", "load", "store">>
    BY <1>1, <1>2, NextAccess DEF FlowLoaded
  <2>2. CASE "REQUESTED_STOP" \in ctl.flow
    <3>1. call' = NoCall /\ (stopped' => stopped)
      BY <1>2, <2>1, <2>2 DEF FlowLoaded, Returns
    <3> QED
      BY <1>1, <3>1, IdleCall DEF ClassAInv, StopForgets, StopTakesHold, LateRequests
  <2>3. CASE "REQUESTED_STOP" \notin ctl.flow
    <3>1. call' = Stepped(ctl.flow) /\ stopped' = stopped
      BY <1>2, <2>3 DEF FlowLoaded
    <3>2. /\ call'.cmd = call.cmd /\ call'.ops = Tail(call.ops) /\ call'.word = ctl.flow
          /\ CallFits'
      BY <1>1, <2>1, <3>1, SteppedCall
    <3>3. ~Forgets' /\ ~Forgot' /\ ~FvtTested'
      BY <2>1, <3>2 DEF Forgets, Forgot, FvtTested
    <3> QED
      BY <1>1, <2>3, <3>1, <3>2, <3>3 DEF ClassAInv, StopForgets, StopTakesHold, LateRequests
  <2> QED
    BY <2>2, <2>3
<1>3. CASE StateLoaded
  <2>1. /\ Due("state") /\ call.tests = <<TakenIn(call.cmd)>> /\ call.cmd \in ClassACommands
        /\ \/ call.cmd = "run" /\ call.ops = <<"state", "store">> /\ Tail(call.ops) = <<"store">>
           \/ /\ call.cmd \in {"fvt", "manual", "stop", "fvtstop"}
              /\ call.ops = <<"state", "load", "store">> /\ Tail(call.ops) = <<"load", "store">>
    BY <1>1, <1>3, NextAccess DEF StateLoaded, CallFits
  <2>2. Head(call.tests) = TakenIn(call.cmd) /\ ~(Len(call.tests) > 1)
    BY <2>1, ShortLists
  <2>3. CASE ctl.st \in TakenIn(call.cmd)
    <3>1. call' = Stepped(call.word) /\ stopped' = stopped
      BY <1>3, <2>2, <2>3 DEF StateLoaded
    <3>2. /\ call'.cmd = call.cmd /\ call'.ops = Tail(call.ops) /\ call'.word = call.word
          /\ CallFits'
      BY <1>1, <2>1, <3>1, SteppedCall DEF CallFits
    <3>3. /\ ~Forgets' /\ (Asks' => Asks) /\ (Forgot' => Forgot) /\ ~(Forgot' /\ Stores')
          /\ ~(FvtTested' /\ Stores')
      <4>1. call.cmd \in {"run", "fvt", "manual"} => call.ops # Accesses(call.cmd)
        BY <2>1 DEF Accesses
      <4>2. call'.cmd = call.cmd /\ call'.ops \in {<<"store">>, <<"load", "store">>}
        BY <2>1, <3>2
      <4>3. call'.ops = <<"store">> => call.cmd = "run"
        BY <2>1, <3>2
      <4>4. Asks' => Asks
        BY <2>1, <4>1, <4>2 DEF Asks
      <4>5. ~Forgets'
        BY <4>2 DEF Forgets
      <4>7. Forgot' => Forgot
        <5>1. call.cmd = "stop" => call.ops = <<"state", "load", "store">>
          BY <2>1
        <5> QED
          BY <4>2, <5>1 DEF Forgot
      <4>6. ~(Forgot' /\ Stores') /\ ~(FvtTested' /\ Stores')
        BY <4>2, <4>3 DEF Forgot, FvtTested, Stores
      <4> QED
        BY <4>4, <4>5, <4>6, <4>7
    <3>4. FvtTested' => ctl.st = "IDLE"
      BY <2>3, <3>2 DEF FvtTested, TakenIn
    <3> QED
      BY <1>1, <3>1, <3>2, <3>3, <3>4
         DEF ClassAInv, StopForgets, StopTakesHold, LateRequests, FromStarting
  <2>4. CASE ctl.st \notin TakenIn(call.cmd)
    <3>1. call' = NoCall /\ stopped' = (stopped \/ call.cmd = "stop")
      BY <1>3, <2>2, <2>4 DEF StateLoaded, Returns
    <3>2. call.cmd = "stop" => /\ "REQUESTED_START" \notin ctl.flow
                               /\ ctl.st \notin {"STARTING", "RUNNING", "CLASS_B_STARTING"}
      BY <2>1, <2>4 DEF ClassAInv, StopForgets, Forgot, TakenIn
    <3> QED
      BY <1>1, <3>1, <3>2, IdleCall DEF ClassAInv, StopForgets, StopTakesHold, LateRequests
  <2> QED
    BY <2>3, <2>4
<1>4. CASE WordLoaded
  <2>1. /\ Due("load") /\ call' = Stepped(ctl.flow) /\ stopped' = stopped
        /\ \/ /\ call.cmd = "stop" /\ call.ops = Accesses("stop")
              /\ Tail(call.ops) = <<"clear", "state", "load", "store">>
           \/ /\ call.cmd \in {"fvt", "manual", "stop", "fvtstop"}
              /\ call.ops = <<"load", "store">> /\ Tail(call.ops) = <<"store">>
    BY <1>1, <1>4, NextAccess DEF WordLoaded
  <2>2. /\ call'.cmd = call.cmd /\ call'.ops = Tail(call.ops) /\ call'.word = ctl.flow
        /\ CallFits'
    BY <1>1, <2>1, SteppedCall
  <2>3. /\ (Asks' => Asks) /\ (Forgot' => Forgot) /\ (FvtTested' => FvtTested)
    <3>1. call.cmd \in {"fvt", "manual"} => call.ops # Accesses(call.cmd)
      BY <2>1 DEF Accesses
    <3>2. Asks' => Asks
      BY <2>1, <2>2, <3>1 DEF Asks
    <3>3. Forgot' => Forgot
      <4>1. CASE call.ops = <<"load", "store">>
        BY <2>2, <4>1 DEF Forgot
      <4>2. CASE call'.ops = <<"clear", "state", "load", "store">>
        BY <4>2 DEF Forgot
      <4> QED
        BY <2>1, <2>2, <4>1, <4>2
    <3>4. FvtTested' => FvtTested
      BY <2>1, <2>2 DEF FvtTested
    <3> QED
      BY <3>2, <3>3, <3>4
  <2> QED
    BY <1>1, <2>1, <2>2, <2>3 DEF ClassAInv, StopForgets, StopTakesHold, LateRequests
<1> QED
  BY <1>2, <1>3, <1>4

\* The stores of a command.
LEMMA ClassAStores == ClassAInv /\ (RunForgotten \/ WordStored) => ClassAInv'
<1> SUFFICES ASSUME ClassAInv, RunForgotten \/ WordStored PROVE ClassAInv'
  OBVIOUS
<1>1. CallFits /\ ctl \in MciType /\ classB' = classB
  BY DEF RunForgotten, WordStored, ClassAInv, CallFits
<1>2. ASSUME NEW flow \in SUBSET MciFlows, ctl' = [ctl EXCEPT !.flow = flow]
      PROVE  ctl' \in MciType /\ ctl'.flow = flow /\ ctl'.st = ctl.st /\ ctl'.errors = ctl.errors
  BY <1>1, <1>2 DEF MciType
<1>3. CASE RunForgotten
  <2>1. /\ Due("clear") /\ call.cmd = "stop" /\ call.ops = <<"clear", "state", "load", "store">>
        /\ Tail(call.ops) = <<"state", "load", "store">>
        /\ call.word \subseteq MciFlows
    BY <1>1, <1>3, NextAccess DEF RunForgotten, CallFits
  <2>2. /\ ctl' \in MciType /\ ctl'.flow = call.word \ {"REQUESTED_START"}
        /\ ctl'.st = ctl.st /\ ctl'.errors = ctl.errors
    BY <1>2, <1>3, <2>1 DEF RunForgotten
  <2>3. ctl.flow \ {"FORCE_LOWERS_ON"} \subseteq call.word
    BY <2>1 DEF ClassAInv, StopForgets, Forgets
  <2>4. CASE "REQUESTED_STOP" \in call.word
    <3>1. call' = NoCall
      BY <1>3, <2>4 DEF RunForgotten, Returns
    <3> QED
      BY <1>1, <2>2, <2>4, <3>1, IdleCall DEF ClassAInv, StopForgets, StopTakesHold, LateRequests
  <2>5. CASE "REQUESTED_STOP" \notin call.word
    <3>1. call' = Stepped(call.word) /\ stopped' = stopped
      BY <1>3, <2>5 DEF RunForgotten
    <3>2. /\ call'.cmd = "stop" /\ call'.ops = <<"state", "load", "store">> /\ CallFits'
      BY <1>1, <2>1, <2>2, <3>1, SteppedCall
    <3>3. ~Asks' /\ ~Forgets' /\ ~(Forgot' /\ Stores') /\ ~FvtTested'
      BY <3>2 DEF Asks, Forgets, Forgot, Stores, FvtTested
    <3>4. StopTakesHold'
      BY <2>2, <2>3, <2>5, <3>1 DEF ClassAInv, StopTakesHold
    <3> QED
      BY <1>1, <2>2, <2>5, <3>2, <3>3, <3>4 DEF ClassAInv, StopForgets, LateRequests
  <2> QED
    BY <2>4, <2>5
<1>4. CASE WordStored
  <2>1. /\ Due("store") /\ call.cmd \in ClassACommands /\ call.ops = <<"store">>
        /\ call.word \subseteq MciFlows
    BY <1>1, <1>4, NextAccess DEF WordStored, CallFits
  <2>2. Kept \cup {Request(call.cmd)} \subseteq MciFlows
    BY <2>1 DEF Kept, Request, MciFlows
  <2>3. /\ ctl' \in MciType /\ ctl'.flow = Kept \cup {Request(call.cmd)}
        /\ ctl'.st = ctl.st /\ ctl'.errors = ctl.errors
    BY <1>2, <1>4, <2>2 DEF WordStored
  <2>4. call' = NoCall
    BY <1>4 DEF WordStored, Returns
  <2>5. CASE call.cmd \in {"stop", "fvtstop"}
    <3>1. "REQUESTED_STOP" \in ctl'.flow /\ "REQUESTED_START" \notin ctl'.flow
      BY <2>1, <2>3, <2>5 DEF Kept, Request, ClassAInv, StopForgets, Forgot, Stores
    <3> QED
      BY <1>1, <2>3, <2>4, <3>1, IdleCall DEF ClassAInv, StopForgets, StopTakesHold, LateRequests
  <2>6. CASE call.cmd \in {"run", "fvt", "manual"}
    <3>1. /\ asked' = asked \cup {Request(call.cmd)} /\ stopped' = FALSE
          /\ ctl'.flow = call.word \cup {Request(call.cmd)}
      BY <1>4, <2>3, <2>6 DEF WordStored, Kept
    <3>2. "REQUESTED_STOP" \notin ctl'.flow
      <4>1. Accesses(call.cmd) # <<"store">>
        BY <2>6 DEF Accesses
      <4> QED
        BY <2>1, <2>6, <3>1, <4>1 DEF ClassAInv, StopForgets, Asks, Request
    <3>3. "REQUESTED_START" \in ctl'.flow \ asked' =>
             ctl'.st \in Served \/ "REQUESTED_MANUAL" \in ctl'.flow
      BY <2>1, <2>3, <2>6, <3>1 DEF ClassAInv, LateRequests, FvtTested, Stores, Request
    <3> QED
      BY <1>1, <2>3, <2>4, <3>1, <3>2, <3>3, IdleCall
         DEF ClassAInv, StopForgets, StopTakesHold, LateRequests
  <2> QED
    BY <2>1, <2>5, <2>6 DEF ClassACommands
<1> QED
  BY <1>3, <1>4

\* The rest of the main loop.
LEMMA ClassABetween == ClassAInv /\ (ErrorLoaded \/ ErrorStored \/ ClassBSlot) => ClassAInv'
<1> SUFFICES ASSUME ClassAInv, ErrorLoaded \/ ErrorStored \/ ClassBSlot PROVE ClassAInv'
  OBVIOUS
<1>1. CallFits /\ ctl \in MciType
  BY DEF ClassAInv, CallFits
<1>2. CASE ErrorLoaded
  <2>1. /\ call' = [cmd |-> "errors", ops |-> <<>>, tests |-> <<>>, word |-> ctl.errors]
        /\ UNCHANGED <<ctl, classB, asked, stopped>>
    BY <1>2 DEF ErrorLoaded, NoCall
  <2>2. /\ call'.cmd = "errors" /\ call'.ops = <<>> /\ call'.tests = <<>> /\ call'.word = ctl.errors
        /\ call' = [cmd |-> call'.cmd, ops |-> call'.ops, tests |-> call'.tests, word |-> call'.word]
    BY <2>1
  <2>3. CallFits' /\ ~Asks' /\ ~Forgets' /\ ~Forgot' /\ ~FvtTested'
    BY <1>1, <2>1, <2>2 DEF CallFits, ClassACommands, MciType, Asks, Forgets, Forgot, FvtTested
  <2> QED
    BY <2>1, <2>3 DEF ClassAInv, StopForgets, StopTakesHold, LateRequests
<1>3. CASE ErrorStored
  <2>1. PICK found \in SUBSET MainErrors :
           ctl' = [ctl EXCEPT !.errors = (call.word \ MainErrors) \cup found]
    BY <1>3 DEF ErrorStored
  <2>2. (call.word \ MainErrors) \cup found \subseteq MciErrors
    BY <1>1, <1>3 DEF ErrorStored, CallFits, MainErrors, MciErrors
  <2>3. ctl' \in MciType /\ ctl'.flow = ctl.flow /\ ctl'.st = ctl.st
    BY <1>1, <2>1, <2>2 DEF MciType
  <2>4. call' = NoCall /\ UNCHANGED <<classB, asked, stopped>>
    BY <1>3 DEF ErrorStored
  <2> QED
    BY <2>3, <2>4, IdleCall DEF ClassAInv, StopForgets, StopTakesHold, LateRequests
<1>4. CASE ClassBSlot
  <2>1. call' = NoCall /\ UNCHANGED <<ctl, asked, stopped>>
    BY <1>4 DEF ClassBSlot
  <2> QED
    BY <1>1, <2>1, IdleCall DEF ClassAInv, StopForgets, StopTakesHold, LateRequests
<1> QED
  BY <1>2, <1>3, <1>4

\* The interrupt, which finds a command anywhere.
LEMMA ClassAInterrupt == ClassAInv /\ PwmInterrupt => ClassAInv'
<1> SUFFICES ASSUME ClassAInv, PwmInterrupt PROVE ClassAInv'
  OBVIOUS
<1>1. CallFits /\ ctl \in MciType /\ ctl.flow \subseteq MciFlows /\ UNCHANGED <<call, stopped>>
  BY DEF PwmInterrupt, ClassAInv, CallFits, MciType
<1>2. PICK over \in BOOLEAN, done \in BOOLEAN, access \in {FALSE, classB = "granted"} :
        LET a == MciPwmHandler(ctl, classB = "idle", access, over, done, "duty")
        IN  /\ ctl' = a.mci
            /\ classB' = ClassBAnswer(a.req, access)
            /\ asked' = asked \ (ctl.flow \ a.mci.flow)
            /\ UNCHANGED <<call, stopped>>
  BY Zenon DEF PwmInterrupt
<1> DEFINE p == Prologue(ctl, over)
<1>3. /\ p \in MciType /\ PrologueMoves(ctl, p)
      /\ ctl' \in MciType /\ StepMoves(p, ctl', classB = "idle", access)
  BY <1>1, <1>2, HandlerOutcome
<1>4. /\ asked' = asked \ (ctl.flow \ ctl'.flow)
      /\ access => classB # "idle"
      /\ classB # "idle" => classB' # "idle"
  BY <1>2 DEF ClassBAnswer
<1> HIDE DEF p
<1>5. /\ ctl'.flow \subseteq p.flow /\ p.flow \subseteq ctl.flow \cup {"FORCE_LOWERS_ON"}
      /\ p.flow \in {ctl.flow, ctl.flow \cup {"FORCE_LOWERS_ON"}}
      /\ p.st \in {ctl.st, "FAILED"}
      /\ ctl.st \notin FromStarting => p.errors = ctl.errors \ {"SW_OVER_CURRENT"}
      /\ p.errors \ {"SW_OVER_CURRENT"} = ctl.errors \ {"SW_OVER_CURRENT"}
      /\ ctl'.errors = p.errors
      /\ p.st # ctl.st => p.errors # {}
  BY <1>3 DEF PrologueMoves, StepMoves, SameBut
<1>6. CallFits'
  BY <1>1, <1>3 DEF CallFits
<1>7. /\ (Asks' <=> Asks) /\ (Forgets' <=> Forgets) /\ (Forgot' <=> Forgot)
      /\ (Stores' <=> Stores) /\ (FvtTested' <=> FvtTested)
  BY <1>1 DEF Asks, Forgets, Forgot, Stores, FvtTested
<1>8. StopForgets'
  BY <1>1, <1>5, <1>7 DEF ClassAInv, StopForgets
\* What drops a request to run, and what a stop leaves.
<1>9. ASSUME "REQUESTED_START" \in ctl.flow, "REQUESTED_START" \notin ctl'.flow
      PROVE  \/ ctl'.st \in {"MANUAL_CONTROL", "STARTING"}
             \/ ~FvtTested
  <2>1. "REQUESTED_START" \in p.flow
    BY <1>5, <1>9
  <2>2. \/ ctl'.st \in {"MANUAL_CONTROL", "STARTING"}
        \/ p.st = "FAILED" /\ classB = "idle" /\ p.errors = {}
    BY <1>3, <1>9, <2>1 DEF StepMoves
  <2>3. ASSUME p.st = "FAILED", classB = "idle", p.errors = {}, FvtTested PROVE FALSE
    <3>1. ctl.st = "FAILED"
      BY <1>5, <2>3
    <3>2. ctl.errors \ {"SW_OVER_CURRENT"} = {}
      BY <1>5, <2>3
    <3> QED
      BY <2>3, <3>1, <3>2 DEF ClassAInv, LateRequests
  <2> QED
    BY <2>2, <2>3
<1>10. ASSUME "REQUESTED_STOP" \notin ctl.flow
       PROVE  /\ ctl.st \in Served /\ ctl'.st \notin Served => "REQUESTED_START" \notin ctl'.flow
              /\ ctl.st \in Served /\ FvtTested => ctl'.st \in Served
  <2>1. "REQUESTED_STOP" \notin p.flow
    BY <1>5, <1>10
  <2>2. ASSUME ctl.st \in Served, ctl'.st \notin Served
        PROVE  /\ p.st = "FAILED" /\ classB = "idle" /\ p.errors = {}
               /\ "REQUESTED_START" \notin ctl'.flow
    BY <1>3, <1>5, <2>1, <2>2 DEF StepMoves, Served
  <2>3. ASSUME p.st = "FAILED", classB = "idle", p.errors = {}, FvtTested PROVE FALSE
    <3>1. ctl.st = "FAILED"
      BY <1>5, <2>3
    <3>2. ctl.errors \ {"SW_OVER_CURRENT"} = {}
      BY <1>5, <2>3
    <3> QED
      BY <2>3, <3>1, <3>2 DEF ClassAInv, LateRequests
  <2> QED
    BY <2>2, <2>3
<1>11. StopTakesHold'
  <2> SUFFICES ASSUME stopped, "REQUESTED_STOP" \notin ctl'.flow
               PROVE  /\ ctl'.st \notin {"STARTING", "RUNNING"}
                      /\ ctl'.st = "CLASS_B_STARTING" =>
                            ctl'.flow \cap {"REQUESTED_FVT_MODE", "REQUESTED_MANUAL"} # {}
    BY <1>1 DEF StopTakesHold
  <2>1. "REQUESTED_START" \notin ctl.flow /\ "REQUESTED_START" \notin p.flow
        /\ "REQUESTED_START" \notin ctl'.flow
    BY <1>5 DEF ClassAInv, StopForgets
  <2>2. ctl'.flow \subseteq MciFlows
    BY <1>3 DEF MciType
  <2>3. CASE p.st = "IDLE"
    <3>1. /\ ctl'.flow = p.flow \ {"REQUESTED_STOP", "FORCE_LOWERS_ON"}
          /\ ctl'.st = IF ctl'.flow # {} THEN "CLASS_B_STARTING" ELSE "IDLE"
      BY <1>3, <2>3 DEF StepMoves
    <3> QED
      BY <2>1, <2>2, <3>1 DEF MciFlows
  <2>4. CASE p.st # "IDLE"
    <3>1. "REQUESTED_STOP" \notin p.flow
      BY <1>3, <2>4 DEF StepMoves
    <3>2. "REQUESTED_STOP" \notin ctl.flow
      BY <1>5, <3>1
    <3>3. /\ p.st \notin {"STARTING", "RUNNING"}
          /\ p.st = "CLASS_B_STARTING" => p.flow \cap {"REQUESTED_FVT_MODE", "REQUESTED_MANUAL"} # {}
      BY <1>5, <3>2 DEF ClassAInv, StopTakesHold
    <3> QED
      BY <1>3, <2>1, <2>4, <3>1, <3>3 DEF StepMoves
  <2> QED
    BY <2>3, <2>4
<1>12. LateRequests'
  <2>1. ASSUME "REQUESTED_START" \in ctl'.flow \ asked'
        PROVE  ctl'.st \in Served \/ "REQUESTED_MANUAL" \in ctl'.flow
    <3>1. "REQUESTED_START" \in ctl.flow \ asked /\ "REQUESTED_STOP" \notin ctl.flow
      BY <1>4, <1>5, <2>1 DEF ClassAInv, StopForgets
    <3>2. CASE ctl.st \in Served
      BY <1>10, <2>1, <3>1, <3>2
    <3>3. CASE "REQUESTED_MANUAL" \in ctl.flow
      <4>1. "REQUESTED_MANUAL" \in p.flow /\ "REQUESTED_START" \in ctl'.flow
            /\ "REQUESTED_STOP" \notin p.flow
        BY <1>5, <2>1, <3>1, <3>3
      <4> QED
        BY <1>3, <4>1 DEF StepMoves
    <3> QED
      BY <3>1, <3>2, <3>3 DEF ClassAInv, LateRequests
  <2>2. ASSUME FvtTested, Stores, "REQUESTED_START" \in call.word \ asked'
        PROVE  ctl'.st \in Served \/ "REQUESTED_MANUAL" \in call.word
    <3>1. "REQUESTED_STOP" \notin ctl.flow
      <4>1. Asks
        BY <2>2 DEF FvtTested, Asks, Accesses
      <4> QED
        BY <4>1 DEF ClassAInv, StopForgets
    <3>2. CASE "REQUESTED_START" \in asked
      BY <1>4, <1>9, <2>2, <3>2 DEF Served
    <3>3. CASE "REQUESTED_START" \notin asked
      BY <1>10, <2>2, <3>1, <3>3 DEF ClassAInv, LateRequests
    <3> QED
      BY <3>2, <3>3
  <2>3. ASSUME FvtTested, ctl'.st \in FromStarting PROVE classB' # "idle"
    <3>1. ctl.st \in FromStarting \/ access
      BY <1>3, <1>5, <2>3 DEF StepMoves, FromStarting
    <3> QED
      BY <1>4, <2>3, <3>1 DEF ClassAInv, LateRequests
  <2>4. ASSUME FvtTested, ctl'.st = "FAILED"
        PROVE  classB' # "idle" \/ ctl'.errors \ {"SW_OVER_CURRENT"} # {}
    <3>1. p.st = "FAILED"
      BY <1>3, <2>4 DEF StepMoves
    <3>2. CASE ctl.st \in FromStarting \/ ctl.st = "FAILED"
      BY <1>4, <1>5, <2>4, <3>2 DEF ClassAInv, LateRequests
    <3>3. CASE ctl.st \notin FromStarting /\ ctl.st # "FAILED"
      BY <1>5, <3>1, <3>3
    <3> QED
      BY <3>2, <3>3
  <2> QED
    BY <1>1, <1>7, <2>1, <2>2, <2>3, <2>4 DEF LateRequests
<1> QED
  BY <1>6, <1>8, <1>11, <1>12 DEF ClassAInv

LEMMA ClassAStep == ClassAInv /\ [ClassAWordsNext]_classAWordVars => ClassAInv'
<1>1. ClassAInv /\ UNCHANGED classAWordVars => ClassAInv'
  BY DEF classAWordVars, ClassAInv, CallFits, StopForgets, StopTakesHold, LateRequests, Asks, Forgets,
         Forgot, Stores, FvtTested
<1> QED
  BY <1>1, ClassACalls, ClassALoads, ClassAStores, ClassABetween, ClassAInterrupt DEF ClassAWordsNext

LEMMA ClassABegins == ClassAWordsInit => ClassAInv
<1> SUFFICES ASSUME ClassAWordsInit PROVE ClassAInv
  OBVIOUS
<1>1. ctl = [MciInit EXCEPT !.st = "IDLE", !.errors = {}, !.loaded = TRUE, !.params = TRUE]
      /\ call = NoCall /\ classB = "idle" /\ asked = {} /\ stopped = TRUE
  BY DEF ClassAWordsInit
<1>2. ctl = [st |-> "IDLE", flow |-> {}, errors |-> {}, timer |-> 0,
             odd |-> 0, scaler |-> 0, loaded |-> TRUE, params |-> TRUE]
  BY <1>1 DEF MciInit
<1>3. ctl \in MciType /\ ctl.flow = {} /\ ctl.st = "IDLE"
  BY <1>2 DEF MciType, MciStates
<1>4. call.cmd = "none" /\ call.ops = <<>> /\ call.tests = <<>> /\ call.word = {}
      /\ call = [cmd |-> call.cmd, ops |-> call.ops, tests |-> call.tests, word |-> call.word]
  BY <1>1 DEF NoCall
<1>5. CallFits /\ ~Asks /\ ~Forgets /\ ~Forgot /\ ~FvtTested
  BY <1>3, <1>4 DEF CallFits, ClassACommands, Asks, Forgets, Forgot, FvtTested
<1> QED
  BY <1>3, <1>5 DEF ClassAInv, StopForgets, StopTakesHold, LateRequests

(* Mci__Stop takes hold wherever the interrupt of any of its accesses      *)
(* falls: a request to run and a stop never stand together in the word,    *)
(* and a stop that has been returned from leaves no run behind.            *)
THEOREM StopsTakeHold == ClassAWordsSpec => []StopTakesHold
<1>1. ClassAInv => StopTakesHold
  BY DEF ClassAInv
<1> QED
  BY <1>1, ClassABegins, ClassAStep, PTL DEF ClassAWordsSpec

(* The control algorithm starts for a run that was accepted and neither    *)
(* cleared nor called off: MclFvt__Entry's late store of the word may      *)
(* bring a served request back, but only into a state that does not look   *)
(* at it, and FAILED clears it before it is looked at again.               *)
THEOREM StartsAsked == ClassAWordsSpec => StartOnlyAsked
<1>1. ASSUME ClassAInv, [ClassAWordsNext]_classAWordVars,
             ctl.st = "CLASS_B_STARTING", ctl'.st = "STARTING"
      PROVE  "REQUESTED_START" \in asked
  <2>1. CallFits /\ ctl \in MciType
    BY <1>1 DEF ClassAInv, CallFits
  <2>2. PwmInterrupt
    <3>1. ASSUME NEW cmd \in ClassACommands, Calls(cmd) PROVE ctl' = ctl
      BY <3>1 DEF Calls
    <3>2. FlowLoaded \/ StateLoaded \/ WordLoaded \/ ErrorLoaded \/ ClassBSlot \/ UNCHANGED classAWordVars
             => ctl' = ctl
      BY DEF FlowLoaded, StateLoaded, WordLoaded, ErrorLoaded, ClassBSlot, classAWordVars
    <3>3. RunForgotten \/ WordStored => ctl'.st = ctl.st
      BY <2>1 DEF RunForgotten, WordStored, MciType
    <3>4. ErrorStored => ctl'.st = ctl.st
      BY <2>1 DEF ErrorStored, MciType
    <3> QED
      BY <1>1, <3>1, <3>2, <3>3, <3>4 DEF ClassAWordsNext
  <2>3. PICK over \in BOOLEAN, done \in BOOLEAN, access \in {FALSE, classB = "granted"} :
          ctl' = MciPwmHandler(ctl, classB = "idle", access, over, done, "duty").mci
    BY <2>2 DEF PwmInterrupt
  <2> DEFINE p == Prologue(ctl, over)
  <2>4. PrologueMoves(ctl, p) /\ StepMoves(p, ctl', classB = "idle", access)
    BY <2>1, <2>3, HandlerOutcome
  <2> HIDE DEF p
  <2>5. p.st = "CLASS_B_STARTING" /\ "REQUESTED_START" \in p.flow /\ "REQUESTED_MANUAL" \notin p.flow
    BY <1>1, <2>4 DEF StepMoves, PrologueMoves
  <2>6. "REQUESTED_START" \in ctl.flow /\ "REQUESTED_MANUAL" \notin ctl.flow
    BY <2>4, <2>5 DEF PrologueMoves
  <2> QED
    BY <1>1, <2>6 DEF ClassAInv, LateRequests, Served
<1> QED
  BY <1>1, ClassABegins, ClassAStep, PTL DEF ClassAWordsSpec, StartOnlyAsked

\* The histories that the types are about.
AskedFits ==
    /\ classB \in {"idle", "busy", "granted"}
    /\ asked \subseteq {"REQUESTED_START", "REQUESTED_MANUAL", "REQUESTED_FVT_MODE"}
    /\ stopped \in BOOLEAN

LEMMA AskedStep == AskedFits /\ [ClassAWordsNext]_classAWordVars => AskedFits'
<1> SUFFICES ASSUME AskedFits, [ClassAWordsNext]_classAWordVars PROVE AskedFits'
  OBVIOUS
<1> USE DEF AskedFits
<1>1. ASSUME NEW cmd \in ClassACommands, Calls(cmd) PROVE AskedFits'
  BY <1>1 DEF Calls
<1>2. CASE FlowLoaded \/ StateLoaded \/ WordLoaded
  BY <1>2 DEF FlowLoaded, StateLoaded, WordLoaded, Returns
<1>3. CASE RunForgotten
  BY <1>3 DEF RunForgotten, Returns
<1>4. CASE WordStored
  <2>1. classB' = classB
        /\ \/ asked' = asked \cap Kept
           \/ call.cmd \in {"run", "fvt", "manual"} /\ asked' = asked \cup {Request(call.cmd)}
    BY <1>4 DEF WordStored
  <2>2. stopped' = FALSE \/ stopped' = (stopped \/ call.cmd = "stop")
    BY <1>4 DEF WordStored, Returns
  <2>3. stopped' \in BOOLEAN
    BY <2>2
  <2> QED
    BY <2>1, <2>3 DEF Request
<1>5. CASE ErrorLoaded \/ ErrorStored
  BY <1>5 DEF ErrorLoaded, ErrorStored
<1>6. CASE ClassBSlot
  BY <1>6 DEF ClassBSlot
<1>7. CASE PwmInterrupt
  <2>1. PICK over \in BOOLEAN, done \in BOOLEAN, access \in {FALSE, classB = "granted"} :
          LET a == MciPwmHandler(ctl, classB = "idle", access, over, done, "duty")
          IN  /\ ctl' = a.mci
              /\ classB' = ClassBAnswer(a.req, access)
              /\ asked' = asked \ (ctl.flow \ a.mci.flow)
              /\ UNCHANGED <<call, stopped>>
    BY <1>7, Zenon DEF PwmInterrupt
  <2>2. asked' \subseteq asked /\ stopped' = stopped /\ classB' \in {classB, "busy"}
    BY <2>1 DEF ClassBAnswer
  <2> QED
    BY <2>2
<1>8. CASE UNCHANGED classAWordVars
  BY <1>8 DEF classAWordVars
<1> QED
  BY <1>1, <1>2, <1>3, <1>4, <1>5, <1>6, <1>7, <1>8 DEF ClassAWordsNext

(* The types, and that a command never has more accesses left than its     *)
(* compiled form has.                                                      *)
THEOREM ClassATyped == ClassAWordsSpec => []ClassAWordsTypeOK
<1>1. ClassAWordsInit => AskedFits
  BY DEF ClassAWordsInit, AskedFits
<1>2. ASSUME NEW a, NEW b, NEW c, NEW d, NEW e
      PROVE  /\ Len(<<a, b, c, d, e>>) <= 5 /\ Len(<<a, b, c, d>>) <= 5 /\ Len(<<a, b, c>>) <= 5
             /\ Len(<<a, b>>) <= 5 /\ Len(<<a>>) <= 1 /\ Len(<<a>>) <= 5
             /\ Len(<<>>) <= 1 /\ Len(<<>>) <= 5
  <2>1. Len(<<a, b, c, d, e>>) <= 5 /\ Len(<<a, b, c, d>>) <= 5
    OBVIOUS
  <2>2. Len(<<a, b, c>>) <= 5 /\ Len(<<a, b>>) <= 5
    OBVIOUS
  <2>3. Len(<<a>>) <= 1 /\ Len(<<a>>) <= 5 /\ Len(<<>>) <= 1 /\ Len(<<>>) <= 5
    OBVIOUS
  <2> QED
    BY <2>1, <2>2, <2>3
<1>3. CallFits /\ AskedFits => ClassAWordsTypeOK
  <2> SUFFICES ASSUME CallFits, AskedFits PROVE ClassAWordsTypeOK
    OBVIOUS
  <2>1. Len(call.ops) <= 5
    BY <1>2 DEF CallFits, ClassACommands, RunPlaces, AskPlaces, StopPlaces, FvtStopPlaces
  <2>2. Len(call.tests) <= 1
    BY <1>2 DEF CallFits
  <2> QED
    BY <2>1, <2>2 DEF CallFits, AskedFits, ClassAWordsTypeOK
<1>4. ClassAInv => CallFits
  BY DEF ClassAInv
<1> QED
  BY <1>1, <1>3, <1>4, ClassABegins, ClassAStep, AskedStep, PTL DEF ClassAWordsSpec

--------------------------------------------------------------------------------
(* The four parts together.                                                *)

\* Each part follows its own specification, whichever is chosen.
LEMMA PartsFollowed ==
    PwmInterruptSpec => Spec /\ SharedSpec /\ ClassAWordsSpec /\ RecSpec
<1>1. PwmInterruptInit => Init /\ SharedInit /\ ClassAWordsInit /\ RecInit
  BY DEF PwmInterruptInit
<1>2. [PwmInterruptNext]_pwmInterruptVars =>
         [Next]_vars /\ [SharedNext]_sharedVars /\ [ClassAWordsNext]_classAWordVars /\ [RecNext]_recVars
  BY DEF PwmInterruptNext, pwmInterruptVars
<1> QED
  BY <1>1, <1>2, PTL DEF PwmInterruptSpec, Spec, SharedSpec, ClassAWordsSpec, RecSpec

(* The invariants of the parts hold of the interrupt as a whole: the       *)
(* variables stay within their types, the door stays shut while the motor  *)
(* is driven, no fault is forgotten, and a stop takes hold.                *)
THEOREM InterruptSafe ==
    PwmInterruptSpec => [](WordsTypeOK /\ SafeMeansTested /\ DoorShutWhileDriven /\ NoFaultForgotten
                           /\ StopTakesHold /\ PostTriggerKept /\ OldestFirst)
<1>1. SelfTestInv => TypeOK
  BY DEF SelfTestInv
<1>2. TypeOK /\ SharedTypeOK /\ ClassAWordsTypeOK /\ RecTypeOK => WordsTypeOK
  BY DEF WordsTypeOK
<1> QED
  BY <1>1, <1>2, PartsFollowed, EvidenceCounts, SafeTested, DoorStaysShut, FaultsRemembered,
     SharedTyped, StopsTakeHold, ClassATyped, RecordsWithin, EdgeSamplesKept, RecordingInOrder, PTL
================================================================================
