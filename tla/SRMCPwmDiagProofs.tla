---------------------------- MODULE SRMCPwmDiagProofs ---------------------------
(***************************************************************************)
(* What the operators of the shut-down self test do to the driver's        *)
(* record, whoever calls them: the types, and how far a test has come.     *)
(***************************************************************************)
EXTENDS SRMCPwmDiag, TLAPS

\* Latching the fault input and clearing the latch.
LEMMA DiagLatchType ==
    ASSUME NEW d \in DiagType, NEW pin \in BOOLEAN
    PROVE  Latch(d, pin) \in DiagType /\ ClearFaultFlag(d, pin) \in DiagType
BY DEF Latch, ClearFaultFlag, DiagType

\* The two calls of a client: start a test, read its result.
LEMMA DiagCallType ==
    ASSUME NEW d \in DiagType
    PROVE  EnableDiagnostic(d) \in DiagType /\ FeedbackRead(d) \in DiagType
BY DiagConstants DEF EnableDiagnostic, FeedbackRead, DiagType, DiagStates

\* The single-field updates the three test phases are made of.
LEMMA DiagFieldsType ==
    ASSUME NEW d \in DiagType, NEW pin \in BOOLEAN
    PROVE  /\ Sampled(d, pin) \in DiagType
           /\ [d EXCEPT !.thr = "NORMAL"] \in DiagType
           /\ [d EXCEPT !.active = 0, !.default = 0] \in DiagType
           /\ d.zero > 0 => [d EXCEPT !.zero = @ - 1] \in DiagType
           /\ d.one > 0 => [d EXCEPT !.one = @ - 1] \in DiagType
<1>1. Sampled(d, pin) \in DiagType
  <2>1. CASE pin
    BY <2>1 DEF Sampled, DiagType
  <2>2. CASE ~pin
    BY <2>2 DEF Sampled, DiagType
  <2> QED
    BY <2>1, <2>2
<1>2. /\ [d EXCEPT !.thr = "NORMAL"] \in DiagType
      /\ [d EXCEPT !.active = 0, !.default = 0] \in DiagType
  BY DEF DiagType
<1>3. ASSUME d.zero > 0 PROVE [d EXCEPT !.zero = @ - 1] \in DiagType
  BY <1>3 DEF DiagType
<1>4. ASSUME d.one > 0 PROVE [d EXCEPT !.one = @ - 1] \in DiagType
  BY <1>4 DEF DiagType
<1> QED
  BY <1>1, <1>2, <1>3, <1>4

\* The ways a phase ends: it fails, or the next one begins.
LEMMA DiagResultType ==
    ASSUME NEW s \in DiagType, NEW e \in DiagErrors, NEW n \in DiagStates, NEW t \in {"NORMAL", "TEST"}
    PROVE  /\ Fails(s, e) \in DiagType
           /\ Advances(s, e, n, t) \in DiagType
           /\ [s EXCEPT !.errors = @ \ {e}, !.st = n] \in DiagType
BY DEF Fails, Advances, DiagType, DiagStates

\* One call of the PWM self test handler, phase by phase.
LEMMA DiagHandlerType ==
    ASSUME NEW d \in DiagType, NEW pin \in BOOLEAN
    PROVE  DiagnosticHandler(d, pin) \in DiagType
<1>1. CheckSignalPol(d, pin) \in DiagType
  <2> DEFINE s == Sampled([d EXCEPT !.thr = "NORMAL"], pin)
  <2>1. s \in DiagType
    BY DiagFieldsType
  <2> HIDE DEF s
  <2>2. /\ Fails(s, "SHUTDOWN_ALREADY_ON") \in DiagType
        /\ Advances(s, "SHUTDOWN_ALREADY_ON", "CHECK_STUCK_AT_1", "TEST") \in DiagType
    BY <2>1, DiagResultType DEF DiagErrors, DiagStates
  <2> QED
    BY <2>1, <2>2 DEF CheckSignalPol, s
<1>2. CheckStuckAt1(d, pin) \in DiagType
  <2> DEFINE s == Sampled(d, pin)
  <2>1. s \in DiagType
    BY DiagFieldsType
  <2> HIDE DEF s
  <2>2. /\ Fails(s, "REGISTER_STUCK_AT_1") \in DiagType
        /\ Advances(s, "REGISTER_STUCK_AT_1", "CHECK_STUCK_AT_0", "NORMAL") \in DiagType
    BY <2>1, DiagResultType DEF DiagErrors, DiagStates
  <2> QED
    BY <2>1, <2>2, DiagFieldsType DEF CheckStuckAt1, Settling, s
<1>3. CheckStuckAt0(d, pin) \in DiagType
  <2> DEFINE s == Sampled(d, pin)
             r == [s EXCEPT !.errors = @ \ {"REGISTER_STUCK_AT_0"}, !.st = "FEEDBACK_UPDATED"]
  <2>1. s \in DiagType
    BY DiagFieldsType
  <2> HIDE DEF s
  <2>2. Fails(s, "REGISTER_STUCK_AT_0") \in DiagType
    BY <2>1, DiagResultType DEF DiagErrors, DiagStates
  <2>3. r \in DiagType
    BY <2>1, DiagResultType DEF DiagErrors, DiagStates
  <2>4. ClearFaultFlag(r, pin) \in DiagType
    BY <2>3, DiagLatchType
  <2> QED
    BY <2>1, <2>2, <2>4, DiagFieldsType DEF CheckStuckAt0, s
<1> QED
  BY <1>1, <1>2, <1>3, DiagFieldsType DEF DiagnosticHandler, NoTest
--------------------------------------------------------------------------------
(* How far a test has come.                                                *)
Phases == {"CHECK_SIGNAL_POL", "CHECK_STUCK_AT_1", "CHECK_STUCK_AT_0"}

Samples(d) == d.active + d.default

\* The handler calls until the result, when no phase fails.
Left(d) ==
    (TotalSamples - Samples(d)) + d.one
        + (IF d.st = "CHECK_SIGNAL_POL" THEN d.zero + 2 * TotalSamples
           ELSE IF d.st = "CHECK_STUCK_AT_1" THEN d.zero + TotalSamples ELSE 0)

\* A phase has samples to take, and the last phase and a good result are at
\* the working threshold.
WellUnderWay(d) ==
    /\ d.st \in Phases => Samples(d) < TotalSamples
    /\ d.st = "CHECK_STUCK_AT_0" => d.thr = "NORMAL"
    /\ d.st = "FEEDBACK_UPDATED" /\ d.errors = {} => d.thr = "NORMAL"

\* What one call makes of a test that is going on: a call less to go, or a
\* result, and a good one not before the last call.
Proceeds(d, h) ==
    \/ h.st \in Phases /\ Left(h) = Left(d) - 1
    \/ h.st = "FEEDBACK_UPDATED" /\ (h.errors = {} => Left(d) = 1)

\* One sample more, and nothing else.
LEMMA SampledOne ==
    ASSUME NEW d \in DiagType, NEW pin \in BOOLEAN
    PROVE  LET s == Sampled(d, pin)
           IN  /\ Samples(s) = Samples(d) + 1
               /\ s.st = d.st /\ s.thr = d.thr /\ s.zero = d.zero /\ s.one = d.one
               /\ s.errors = d.errors
<1>1. CASE pin
  BY <1>1 DEF Sampled, Samples, DiagType
<1>2. CASE ~pin
  BY <1>2 DEF Sampled, Samples, DiagType
<1> QED
  BY <1>1, <1>2

\* The test starts with all its calls to make, if no sample is left over.
LEMMA EnableLeft ==
    ASSUME NEW d \in DiagType, d.st = "WAITING_TO_CHECK", Samples(d) = 0
    PROVE  LET e == EnableDiagnostic(d)
           IN  /\ e.st = "CHECK_SIGNAL_POL"
               /\ WellUnderWay(e)
               /\ Left(e) = 3 * TotalSamples + ZeroTime + OneTime
BY DiagConstants DEF EnableDiagnostic, WellUnderWay, Left, Samples, Phases, DiagType

\* The rest phase.
LEMMA PolProceeds ==
    ASSUME NEW d \in DiagType, NEW pin \in BOOLEAN, WellUnderWay(d),
           d.st = "CHECK_SIGNAL_POL"
    PROVE  LET h == CheckSignalPol(d, pin) IN WellUnderWay(h) /\ Proceeds(d, h)
<1> DEFINE n == [d EXCEPT !.thr = "NORMAL"]
           s == Sampled(n, pin)
<1>1. n \in DiagType /\ s \in DiagType
  BY DiagFieldsType
<1>2. /\ Samples(s) = Samples(d) + 1
      /\ s.st = d.st /\ s.zero = d.zero /\ s.one = d.one /\ s.thr = "NORMAL"
  <2>1. /\ Samples(n) = Samples(d) /\ n.thr = "NORMAL"
        /\ n.st = d.st /\ n.zero = d.zero /\ n.one = d.one
    BY DEF Samples, DiagType
  <2> HIDE DEF n
  <2> QED
    BY <1>1, <2>1, SampledOne
<1> HIDE DEF n, s
<1>3. Complete(s) <=> Samples(s) >= TotalSamples
  BY DEF Complete, Samples
<1>4. CASE ~Complete(s)
  BY <1>1, <1>2, <1>3, <1>4, DiagConstants
     DEF CheckSignalPol, s, n, WellUnderWay, Proceeds, Left, Phases, Samples, DiagType
<1>5. CASE Complete(s) /\ s.active >= DecisionSamples
  <2>1. CheckSignalPol(d, pin) = Fails(s, "SHUTDOWN_ALREADY_ON")
    BY <1>5 DEF CheckSignalPol, s, n
  <2> QED
    BY <1>1, <2>1 DEF Fails, WellUnderWay, Proceeds, Phases, DiagType
<1>6. CASE Complete(s) /\ ~(s.active >= DecisionSamples)
  <2> DEFINE h == Advances(s, "SHUTDOWN_ALREADY_ON", "CHECK_STUCK_AT_1", "TEST")
  <2>1. CheckSignalPol(d, pin) = h
    BY <1>6 DEF CheckSignalPol, s, n
  <2>2. /\ h.st = "CHECK_STUCK_AT_1" /\ h.active = 0 /\ h.default = 0
        /\ h.zero = d.zero /\ h.one = d.one
    BY <1>1, <1>2 DEF Advances, DiagType
  <2>3. Samples(d) = TotalSamples - 1
    <3>1. Samples(d) \in Nat /\ TotalSamples \in Nat
      BY DiagConstants DEF Samples, DiagType
    <3>2. Samples(d) < TotalSamples
      BY DEF WellUnderWay, Phases
    <3> QED
      BY <1>2, <1>3, <1>6, <3>1, <3>2
  <2> HIDE DEF h
  <2> QED
    BY <2>1, <2>2, <2>3, DiagConstants
       DEF WellUnderWay, Proceeds, Left, Phases, Samples, DiagType
<1> QED
  BY <1>4, <1>5, <1>6

\* The phase with the comparator tripped.
LEMMA At1Proceeds ==
    ASSUME NEW d \in DiagType, NEW pin \in BOOLEAN, WellUnderWay(d),
           d.st = "CHECK_STUCK_AT_1"
    PROVE  LET h == CheckStuckAt1(d, pin) IN WellUnderWay(h) /\ Proceeds(d, h)
<1> DEFINE s == Sampled(d, pin)
<1>1. s \in DiagType
  BY DiagFieldsType
<1>2. /\ Samples(s) = Samples(d) + 1
      /\ s.st = d.st /\ s.zero = d.zero /\ s.one = d.one
  BY SampledOne
<1> HIDE DEF s
<1>3. Complete(s) <=> Samples(s) >= TotalSamples
  BY DEF Complete, Samples
<1>4. CASE d.zero > 0
  <2> DEFINE h == Settling(d)
  <2>1. CheckStuckAt1(d, pin) = h
    BY <1>4 DEF CheckStuckAt1
  <2>2. h.st = d.st /\ h.zero = d.zero - 1 /\ h.one = d.one /\ Samples(h) = Samples(d)
    BY DEF Settling, Samples, DiagType
  <2> HIDE DEF h
  <2> QED
    BY <2>1, <2>2, DiagConstants DEF WellUnderWay, Proceeds, Left, Phases, Samples, DiagType
<1>5. CASE ~(d.zero > 0) /\ ~Complete(s)
  <2>1. CheckStuckAt1(d, pin) = s
    BY <1>5 DEF CheckStuckAt1, s
  <2> QED
    BY <1>1, <1>2, <1>3, <1>5, <2>1, DiagConstants
       DEF WellUnderWay, Proceeds, Left, Phases, Samples, DiagType
<1>6. CASE ~(d.zero > 0) /\ Complete(s) /\ s.active >= DecisionSamples
  <2> DEFINE h == Advances(s, "REGISTER_STUCK_AT_1", "CHECK_STUCK_AT_0", "NORMAL")
  <2>1. CheckStuckAt1(d, pin) = h
    BY <1>6 DEF CheckStuckAt1, s
  <2>2. /\ h.st = "CHECK_STUCK_AT_0" /\ h.active = 0 /\ h.default = 0 /\ h.thr = "NORMAL"
        /\ h.zero = d.zero /\ h.one = d.one
    BY <1>1, <1>2 DEF Advances, DiagType
  <2>3. Samples(d) = TotalSamples - 1 /\ d.zero = 0
    <3>1. Samples(d) \in Nat /\ TotalSamples \in Nat /\ d.zero \in Nat
      BY DiagConstants DEF Samples, DiagType
    <3>2. Samples(d) < TotalSamples
      BY DEF WellUnderWay, Phases
    <3> QED
      BY <1>2, <1>3, <1>6, <3>1, <3>2
  <2> HIDE DEF h
  <2> QED
    BY <2>1, <2>2, <2>3, DiagConstants
       DEF WellUnderWay, Proceeds, Left, Phases, Samples, DiagType
<1>7. CASE ~(d.zero > 0) /\ Complete(s) /\ ~(s.active >= DecisionSamples)
  <2>1. CheckStuckAt1(d, pin) = Fails(s, "REGISTER_STUCK_AT_1")
    BY <1>7 DEF CheckStuckAt1, s
  <2> QED
    BY <1>1, <2>1 DEF Fails, WellUnderWay, Proceeds, Phases, DiagType
<1> QED
  BY <1>4, <1>5, <1>6, <1>7

\* The phase after the release, the only one that ends in a good result.
LEMMA At0Proceeds ==
    ASSUME NEW d \in DiagType, NEW pin \in BOOLEAN, WellUnderWay(d),
           d.st = "CHECK_STUCK_AT_0"
    PROVE  LET h == CheckStuckAt0(d, pin) IN WellUnderWay(h) /\ Proceeds(d, h)
<1> DEFINE s == Sampled(d, pin)
<1>1. s \in DiagType
  BY DiagFieldsType
<1>2. /\ Samples(s) = Samples(d) + 1
      /\ s.st = d.st /\ s.zero = d.zero /\ s.one = d.one /\ s.thr = d.thr
  BY SampledOne
<1> HIDE DEF s
<1>3. Complete(s) <=> Samples(s) >= TotalSamples
  BY DEF Complete, Samples
<1>4. CASE d.one > 0
  <2> DEFINE h == [d EXCEPT !.one = @ - 1]
  <2>1. CheckStuckAt0(d, pin) = h
    BY <1>4 DEF CheckStuckAt0
  <2>2. /\ h.st = d.st /\ h.one = d.one - 1 /\ h.thr = d.thr
        /\ Samples(h) = Samples(d)
    BY DEF Samples, DiagType
  <2> HIDE DEF h
  <2> QED
    BY <2>1, <2>2, DiagConstants DEF WellUnderWay, Proceeds, Left, Phases, Samples, DiagType
<1>5. CASE ~(d.one > 0) /\ ~Complete(s)
  <2>1. CheckStuckAt0(d, pin) = s
    BY <1>5 DEF CheckStuckAt0, s
  <2> QED
    BY <1>1, <1>2, <1>3, <1>5, <2>1, DiagConstants
       DEF WellUnderWay, Proceeds, Left, Phases, Samples, DiagType
<1>6. CASE ~(d.one > 0) /\ Complete(s) /\ s.default >= DecisionSamples
  <2> DEFINE h == CheckStuckAt0(d, pin)
  <2>1. h.st = "FEEDBACK_UPDATED" /\ h.thr = d.thr
    BY <1>1, <1>2, <1>6 DEF CheckStuckAt0, ClearFaultFlag, s, DiagType
  <2>2. Samples(d) = TotalSamples - 1 /\ d.one = 0
    <3>1. Samples(d) \in Nat /\ TotalSamples \in Nat /\ d.one \in Nat
      BY DiagConstants DEF Samples, DiagType
    <3>2. Samples(d) < TotalSamples
      BY DEF WellUnderWay, Phases
    <3> QED
      BY <1>2, <1>3, <1>6, <3>1, <3>2
  <2>3. Left(d) = 1
    BY <2>2, DiagConstants DEF Left
  <2> HIDE DEF h
  <2> QED
    BY <2>1, <2>3 DEF WellUnderWay, Proceeds, Phases, h
<1>7. CASE ~(d.one > 0) /\ Complete(s) /\ ~(s.default >= DecisionSamples)
  <2>1. CheckStuckAt0(d, pin) = Fails(s, "REGISTER_STUCK_AT_0")
    BY <1>7 DEF CheckStuckAt0, s
  <2> QED
    BY <1>1, <2>1 DEF Fails, WellUnderWay, Proceeds, Phases, DiagType
<1> QED
  BY <1>4, <1>5, <1>6, <1>7

\* One call of the handler: without a test nothing is sampled, a result is
\* left alone, and a test goes on.
LEMMA HandlerProceeds ==
    ASSUME NEW d \in DiagType, NEW pin \in BOOLEAN, WellUnderWay(d)
    PROVE  LET h == DiagnosticHandler(d, pin)
           IN  /\ WellUnderWay(h)
               /\ d.st = "WAITING_TO_CHECK" => h.st = d.st /\ h.thr = d.thr /\ Samples(h) = 0
               /\ d.st = "FEEDBACK_UPDATED" => h = d
               /\ d.st \in Phases => Proceeds(d, h)
<1>1. CASE d.st = "WAITING_TO_CHECK"
  BY <1>1 DEF DiagnosticHandler, NoTest, WellUnderWay, Samples, Phases, DiagType
<1>2. CASE d.st = "FEEDBACK_UPDATED"
  BY <1>2 DEF DiagnosticHandler, Phases
<1>3. CASE d.st = "CHECK_SIGNAL_POL"
  BY <1>3, PolProceeds DEF DiagnosticHandler
<1>4. CASE d.st = "CHECK_STUCK_AT_1"
  BY <1>4, At1Proceeds DEF DiagnosticHandler
<1>5. CASE d.st = "CHECK_STUCK_AT_0"
  BY <1>5, At0Proceeds DEF DiagnosticHandler
<1> QED
  BY <1>1, <1>2, <1>3, <1>4, <1>5 DEF DiagType, DiagStates

\* Latching the fault input and clearing the latch change nothing else.
LEMMA LatchLeaves ==
    ASSUME NEW d \in DiagType, NEW pin \in BOOLEAN, NEW l \in {Latch(d, pin), ClearFaultFlag(d, pin)}
    PROVE  /\ l.st = d.st /\ l.thr = d.thr /\ l.errors = d.errors
           /\ Samples(l) = Samples(d) /\ Left(l) = Left(d)
           /\ WellUnderWay(d) => WellUnderWay(l)
BY DEF Latch, ClearFaultFlag, WellUnderWay, Samples, Left, Phases, DiagType

\* Reading a result sends the driver back to its first state.
LEMMA ReadLeaves ==
    ASSUME NEW d \in DiagType
    PROVE  LET r == FeedbackRead(d)
           IN  /\ r.thr = d.thr
               /\ d.st = "FEEDBACK_UPDATED" => r.st = "WAITING_TO_CHECK"
               /\ d.st # "FEEDBACK_UPDATED" => r = d
               /\ WellUnderWay(d) => WellUnderWay(r)
BY DEF FeedbackRead, WellUnderWay, Samples, Phases, DiagType
================================================================================
