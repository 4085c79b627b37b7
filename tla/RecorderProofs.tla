----------------------------- MODULE RecorderProofs -----------------------------
(***************************************************************************)
(* What holds of the recorder for every size of its buffer and every setup *)
(* the host may send, wherever the interrupt falls in MC_StopRec.          *)
(***************************************************************************)
EXTENDS Recorder, TLAPS

(* The fields of the state, each with its type.                            *)
RecTypes ==
    /\ rec \in [configured : BOOLEAN, running : BOOLEAN, stopping : BOOLEAN, virgin : BOOLEAN,
                crossed : BOOLEAN, ptr : Places, start : Places, div : Nat, count : Nat]
    /\ setup \in [total : Nat, bytes : Nat, post : Nat, div : Nat, edge : BOOLEAN]
    /\ setup \in Setups \cup {NoSetup}
    /\ buff \in [Places -> 0..TooOld]
    /\ stop \in [pc : {"free", "testing", "loading", "setting", "counting"},
                 flags : [running : BOOLEAN, virgin : BOOLEAN, crossed : BOOLEAN]]
    /\ story \in [cause : {"unused", "none", "edge", "host"}, after : Nat]

\* Nothing runs, and nothing is stopped, on a setup that was refused.
OnlyConfigured ==
    /\ rec.configured => Fits(setup)
    /\ rec.running \/ stop.pc # "free" => rec.configured /\ story.cause # "unused"
    /\ rec.start = rec.ptr

\* The samples that were taken last are where the write pointer has passed.
Filled ==
    rec.configured /\ story.cause # "unused" =>
        /\ setup.total > 0 => rec.ptr < setup.total
        /\ \A p \in Places : p < rec.ptr => buff[p] = rec.ptr - 1 - p

\* Every place of the active buffer holds one.
Full ==
    \A p \in Places : p >= rec.ptr /\ p < setup.total => buff[p] = setup.total - 1 - p + rec.ptr

\* The buffer is full once bIsVirgin is clear, in the word or in the copy that
\* MC_StopRec is about to write back; and the recorder stops only then.
FullWhenUsed ==
    /\ rec.configured /\ story.cause # "unused" /\ ~rec.virgin => Full
    /\ stop.pc = "setting" /\ ~stop.flags.virgin => Full
    /\ story.cause # "unused" /\ ~rec.running => ~rec.virgin
    /\ stop.pc = "setting" /\ ~stop.flags.running => ~stop.flags.virgin

\* The countdown that an edge has started, and who may change it.
EdgeCounts ==
    /\ story.cause = "edge" =>
          /\ rec.stopping /\ ~rec.virgin
          /\ IF rec.running THEN story.after + rec.count + 1 = setup.post
                            ELSE story.after = setup.post
    /\ stop.pc = "counting" => rec.stopping /\ story.cause = "host"

RecInv == RecTypes /\ OnlyConfigured /\ Filled /\ FullWhenUsed /\ EdgeCounts

\* The active buffer is within the buffer.
LEMMA FitsWithin ==
    ASSUME NEW s \in [total : Nat, bytes : Nat, post : Nat, div : Nat, edge : BOOLEAN], Fits(s)
    PROVE  s.total <= RecBuffSize
<1>1. /\ s.total \in Nat /\ s.bytes \in Nat /\ s.bytes > 0 /\ RecBuffSize \in Nat
      /\ s.total * s.bytes <= RecBuffSize
  BY RecorderConstants DEF Fits
<1>2. s.total * s.bytes >= s.total
  BY <1>1
<1> QED
  BY <1>1, <1>2

LEMMA RecSizes == RecBuffSize \in Nat /\ RecBuffSize > 0 /\ 0 \in Places /\ TooOld = RecBuffSize
BY RecorderConstants DEF Places, TooOld

LEMMA RoundTheBuffer ==
    ASSUME NEW t \in Nat, NEW a \in Nat, t > 0, a < 2 * t
    PROVE  a % t = IF a < t THEN a ELSE a - t
OBVIOUS

LEMMA InitRec == RecInit => RecInv
BY RecSizes, RecorderConstants
   DEF RecInit, RecInv, RecTypes, OnlyConfigured, Filled, FullWhenUsed, EdgeCounts, NoSetup,
       NoFlags, Fits

\* What a sample does to each field, whether or not its trigger is tested.
LEMMA SampleFields ==
    ASSUME RecInv, NEW beyond \in BOOLEAN, Sample(beyond)
    PROVE  LET end == rec.ptr + 1 >= setup.total
               edge == ~(rec.virgin /\ ~end) /\ Edge(Stored(rec), beyond)
           IN  /\ rec' \in [configured : BOOLEAN, running : BOOLEAN, stopping : BOOLEAN,
                            virgin : BOOLEAN, crossed : BOOLEAN, ptr : Nat, start : Nat,
                            div : Nat, count : Nat]
               /\ rec'.configured = rec.configured
               /\ rec'.ptr = IF end THEN 0 ELSE rec.ptr + 1
               /\ rec'.start = IF end THEN 0 ELSE rec.start + 1
               /\ rec'.virgin <=> rec.virgin /\ ~end
               /\ rec'.stopping <=> rec.stopping \/ edge
               /\ edge => ~rec.stopping
               /\ LET count == IF edge THEN setup.post ELSE rec.count
                  IN  IF rec'.virgin \/ ~rec'.stopping
                      THEN (rec'.running <=> rec.running) /\ rec'.count = rec.count
                      ELSE IF count = 0 THEN ~rec'.running /\ rec'.count = 0
                      ELSE (rec'.running <=> rec.running) /\ rec'.count = count - 1
               /\ story' = IF edge THEN [cause |-> "edge", after |-> 0]
                           ELSE [story EXCEPT !.after = IF rec.stopping THEN @ + 1 ELSE @]
<1> DEFINE end == rec.ptr + 1 >= setup.total
           r == Stored(rec)
           edge == ~r.virgin /\ Edge(r, beyond)
           t == Triggered(r, beyond)
           Recs == [configured : BOOLEAN, running : BOOLEAN, stopping : BOOLEAN, virgin : BOOLEAN,
                    crossed : BOOLEAN, ptr : Nat, start : Nat, div : Nat, count : Nat]
<1>1. /\ rec \in Recs
      /\ setup \in [total : Nat, bytes : Nat, post : Nat, div : Nat, edge : BOOLEAN]
  BY RecSizes DEF RecInv, RecTypes, Places
<1>2. /\ r \in Recs /\ r.configured = rec.configured /\ r.running = rec.running
      /\ r.stopping = rec.stopping /\ r.count = rec.count
      /\ r.ptr = (IF end THEN 0 ELSE rec.ptr + 1)
      /\ r.start = (IF end THEN 0 ELSE rec.start + 1)
      /\ r.virgin <=> rec.virgin /\ ~end
  <2>1. PICK p \in Nat, b \in Nat, v \in BOOLEAN :
            /\ p = (IF end THEN 0 ELSE rec.ptr + 1)
            /\ b = (IF end THEN 0 ELSE rec.start + 1)
            /\ v = (rec.virgin /\ ~end)
    <3>1. (rec.virgin /\ ~end) \in BOOLEAN
      BY Zenon
    <3>2. rec.ptr + 1 \in Nat /\ rec.start + 1 \in Nat
      BY <1>1
    <3> HIDE DEF end
    <3>3. (IF end THEN 0 ELSE rec.ptr + 1) \in Nat /\ (IF end THEN 0 ELSE rec.start + 1) \in Nat
      BY <3>2
    <3> QED
      BY <3>1, <3>3, Zenon
  <2>2. r = [rec EXCEPT !.ptr = p, !.start = b, !.virgin = v, !.div = setup.div]
    BY <2>1 DEF Stored, Wraps
  <2>3. rec \in Recs /\ setup.div \in Nat
    BY <1>1
  <2> HIDE DEF r, end
  <2>4. r \in Recs
    <3>1. r = [configured |-> rec.configured, running |-> rec.running, stopping |-> rec.stopping,
               virgin |-> v, crossed |-> rec.crossed, ptr |-> p, start |-> b, div |-> setup.div,
               count |-> rec.count]
      BY <2>2, <2>3
    <3>2. /\ {rec.configured, rec.running, rec.stopping, rec.crossed} \subseteq BOOLEAN
          /\ rec.count \in Nat
      BY <2>3
    <3> QED
      BY <2>1, <2>3, <3>1, <3>2
  <2>5. /\ r.configured = rec.configured /\ r.running = rec.running
        /\ r.stopping = rec.stopping /\ r.count = rec.count
        /\ r.ptr = p /\ r.start = b /\ r.virgin = v
    BY <1>1, <2>2
  <2> QED
    BY <2>1, <2>4, <2>5
<1>3. /\ rec' = IF ~r.virgin THEN Counted(t) ELSE r
      /\ story' = IF edge THEN [cause |-> "edge", after |-> 0]
                  ELSE [story EXCEPT !.after = IF r.stopping THEN @ + 1 ELSE @]
  BY DEF Sample
<1> HIDE DEF r
<1>4. Edge(r, beyond) => ~r.stopping
  BY DEF Edge
<1>5. /\ t \in Recs /\ t.configured = r.configured /\ t.running = r.running /\ t.ptr = r.ptr
      /\ t.start = r.start /\ t.virgin = r.virgin
      /\ t.stopping <=> r.stopping \/ Edge(r, beyond)
      /\ t.count = IF Edge(r, beyond) THEN setup.post ELSE r.count
  <2>1. CASE Edge(r, beyond)
    BY <1>1, <1>2, <2>1 DEF Triggered
  <2>2. CASE ~Edge(r, beyond)
    <3>1. (r.crossed \/ (setup.edge /\ ~r.stopping /\ ~beyond)) \in BOOLEAN
      BY <1>1, <1>2
    <3> QED
      BY <1>2, <2>2, <3>1 DEF Triggered
  <2> QED
    BY <2>1, <2>2
<1> HIDE DEF t
<1>6. /\ Counted(t) \in Recs /\ Counted(t).configured = t.configured /\ Counted(t).ptr = t.ptr
      /\ Counted(t).start = t.start /\ Counted(t).virgin = t.virgin
      /\ Counted(t).stopping = t.stopping
      /\ IF ~t.stopping THEN Counted(t).running = t.running /\ Counted(t).count = t.count
         ELSE IF t.count = 0 THEN ~Counted(t).running /\ Counted(t).count = 0
         ELSE Counted(t).running = t.running /\ Counted(t).count = t.count - 1
  <2>1. CASE ~t.stopping
    BY <1>5, <2>1 DEF Counted
  <2>2. CASE t.stopping /\ t.count = 0
    BY <1>5, <2>2 DEF Counted
  <2>3. CASE t.stopping /\ t.count # 0
    <3>1. t \in Recs /\ t.count - 1 \in Nat
      BY <1>5, <2>3
    <3>2. Counted(t) = [t EXCEPT !.count = t.count - 1]
      BY <2>3 DEF Counted
    <3> QED
      BY <2>3, <3>1, <3>2
  <2> QED
    BY <2>1, <2>2, <2>3
<1>7. CASE r.virgin
  BY <1>2, <1>3, <1>7, <1>4 DEF r
<1>8. CASE ~r.virgin
  BY <1>2, <1>3, <1>4, <1>5, <1>6, <1>8 DEF r
<1> QED
  BY <1>7, <1>8

\* A sample ages the ones before it and takes the place of the oldest.
LEMMA SampleAges ==
    ASSUME RecInv, NEW beyond \in BOOLEAN, Sample(beyond)
    PROVE  /\ buff' \in [Places -> 0..TooOld]
           /\ Filled'
           /\ Full \/ rec.ptr + 1 >= setup.total => Full'
<1> DEFINE end == rec.ptr + 1 >= setup.total
<1>1. /\ rec.ptr \in Places /\ rec.ptr \in Nat /\ rec.ptr < TooOld
      /\ setup.total \in Nat /\ setup.total <= TooOld /\ TooOld \in Nat
      /\ UNCHANGED setup
  <2>1. /\ setup \in [total : Nat, bytes : Nat, post : Nat, div : Nat, edge : BOOLEAN]
        /\ Fits(setup)
    BY DEF Sample, RecInv, RecTypes, OnlyConfigured
  <2>2. rec.ptr \in Places /\ UNCHANGED setup
    BY DEF Sample, RecInv, RecTypes
  <2>3. setup.total <= TooOld
    BY <2>1, FitsWithin, RecSizes
  <2> QED
    BY <2>1, <2>2, <2>3, RecSizes DEF Places
<1>2. \A p \in Places : p \in Nat /\ buff[p] \in 0..TooOld
  BY RecSizes DEF RecInv, RecTypes, Places
<1>3. \A p \in Places : buff'[p] = IF p = rec.ptr THEN 0
                                   ELSE IF buff[p] < TooOld THEN buff[p] + 1 ELSE TooOld
  BY DEF Sample, Older
<1>4. buff' \in [Places -> 0..TooOld]
  <2>1. \A p \in Places : (IF p = rec.ptr THEN 0 ELSE Older(p)) \in 0..TooOld
    BY <1>1, <1>2 DEF Older
  <2> QED
    BY <2>1 DEF Sample
<1>5. /\ setup.total > 0 => rec.ptr < setup.total
      /\ \A p \in Places : p < rec.ptr => buff[p] = rec.ptr - 1 - p
  BY DEF Sample, RecInv, Filled, OnlyConfigured
<1>6. rec'.ptr = IF end THEN 0 ELSE rec.ptr + 1
  BY SampleFields
<1>7. ASSUME NEW p \in Places
      PROVE  /\ p < rec.ptr => buff'[p] = rec.ptr - p
             /\ p = rec.ptr => buff'[p] = 0
  BY <1>1, <1>2, <1>3, <1>5
<1>8. Filled'
  <2>1. setup.total > 0 => rec'.ptr < setup.total
    BY <1>1, <1>6
  <2>2. ASSUME NEW p \in Places, p < rec'.ptr PROVE buff'[p] = rec'.ptr - 1 - p
    BY <1>1, <1>2, <1>6, <1>7, <2>2
  <2> QED
    BY <1>1, <2>1, <2>2 DEF Filled
<1>9. CASE end
  <2>1. ASSUME NEW p \in Places, p < setup.total PROVE buff'[p] = setup.total - 1 - p + rec'.ptr
    BY <1>1, <1>2, <1>5, <1>6, <1>7, <1>9, <2>1
  <2>2. Full'
    BY <1>1, <2>1 DEF Full
  <2> QED
    BY <1>4, <1>8, <2>2
<1>10. CASE Full /\ ~end
  <2>1. ASSUME NEW p \in Places, p >= rec'.ptr, p < setup.total
        PROVE  buff'[p] = setup.total - 1 - p + rec'.ptr
    <3>1. p # rec.ptr /\ p >= rec.ptr
      BY <1>1, <1>2, <1>6, <1>10, <2>1
    <3>2. buff[p] = setup.total - 1 - p + rec.ptr
      BY <1>10, <2>1, <3>1 DEF Full
    <3> QED
      BY <1>1, <1>2, <1>3, <1>6, <1>10, <2>1, <3>1, <3>2
  <2>2. Full'
    BY <1>1, <2>1 DEF Full
  <2> QED
    BY <1>4, <1>8, <2>2
<1> QED
  BY <1>4, <1>8, <1>9, <1>10

\* A sample keeps the invariant.
LEMMA SampleStep ==
    ASSUME RecInv, NEW beyond \in BOOLEAN, Sample(beyond)
    PROVE  RecInv'
<1> DEFINE end == rec.ptr + 1 >= setup.total
           edge == ~(rec.virgin /\ ~end) /\ Edge(Stored(rec), beyond)
           count == IF edge THEN setup.post ELSE rec.count
<1>1. /\ rec' \in [configured : BOOLEAN, running : BOOLEAN, stopping : BOOLEAN,
                   virgin : BOOLEAN, crossed : BOOLEAN, ptr : Nat, start : Nat,
                   div : Nat, count : Nat]
      /\ rec'.configured = rec.configured
      /\ rec'.ptr = IF end THEN 0 ELSE rec.ptr + 1
      /\ rec'.start = IF end THEN 0 ELSE rec.start + 1
      /\ rec'.virgin <=> rec.virgin /\ ~end
      /\ rec'.stopping <=> rec.stopping \/ edge
      /\ edge => ~rec.stopping
      /\ IF rec'.virgin \/ ~rec'.stopping
         THEN (rec'.running <=> rec.running) /\ rec'.count = rec.count
         ELSE IF count = 0 THEN ~rec'.running /\ rec'.count = 0
         ELSE (rec'.running <=> rec.running) /\ rec'.count = count - 1
      /\ story' = IF edge THEN [cause |-> "edge", after |-> 0]
                  ELSE [story EXCEPT !.after = IF rec.stopping THEN @ + 1 ELSE @]
  BY SampleFields
<1>2. /\ buff' \in [Places -> 0..TooOld] /\ Filled'
      /\ Full \/ end => Full'
  BY SampleAges
<1> HIDE DEF edge
<1>3. /\ rec.running /\ UNCHANGED <<setup, stop>>
      /\ rec.configured /\ story.cause # "unused" /\ Fits(setup) /\ rec.start = rec.ptr
  BY DEF Sample, RecInv, OnlyConfigured
<1>4. /\ story' \in [cause : {"unused", "none", "edge", "host"}, after : Nat]
      /\ story'.cause = IF edge THEN "edge" ELSE story.cause
      /\ story'.after = IF edge THEN 0 ELSE IF rec.stopping THEN story.after + 1 ELSE story.after
  <2>1. story \in [cause : {"unused", "none", "edge", "host"}, after : Nat]
    BY DEF RecInv, RecTypes
  <2>2. story.after \in Nat /\ story.after + 1 \in Nat
    BY <2>1
  <2> QED
    BY <1>1, <2>1, <2>2
<1>5. setup.post \in Nat /\ rec.count \in Nat /\ story.after \in Nat
  BY DEF RecInv, RecTypes
<1>6. RecTypes'
  <2>1. setup.total \in Nat /\ setup.total <= RecBuffSize
    BY <1>3, FitsWithin DEF RecInv, RecTypes
  <2>2. rec.ptr \in Nat /\ rec.start = rec.ptr
    BY <1>3, RecSizes DEF RecInv, RecTypes, Places
  <2>3. rec'.ptr \in Places /\ rec'.start \in Places
    BY <1>1, <2>1, <2>2, RecSizes DEF Places
  <2>4. rec' \in [configured : BOOLEAN, running : BOOLEAN, stopping : BOOLEAN, virgin : BOOLEAN,
                 crossed : BOOLEAN, ptr : Places, start : Places, div : Nat, count : Nat]
    BY <1>1, <2>3
  <2> QED
    BY <1>2, <1>3, <1>4, <2>4 DEF RecInv, RecTypes
<1>7. OnlyConfigured'
  BY <1>1, <1>3, <1>4 DEF RecInv, OnlyConfigured, Fits
<1>8. FullWhenUsed'
  BY <1>1, <1>2, <1>3, <1>4 DEF RecInv, FullWhenUsed
<1>9. EdgeCounts'
  <2>1. story'.cause = "edge" => /\ rec'.stopping /\ ~rec'.virgin
                                 /\ IF rec'.running THEN story'.after + rec'.count + 1 = setup.post
                                                    ELSE story'.after = setup.post
    <3>1. CASE edge
      <4>1. rec'.stopping /\ ~rec'.virgin
        BY <1>1, <3>1 DEF edge
      <4> QED
        BY <1>1, <1>3, <1>4, <1>5, <3>1, <4>1
    <3>2. CASE ~edge /\ story.cause = "edge"
      <4>1. rec.stopping /\ ~rec.virgin /\ story.after + rec.count + 1 = setup.post
        BY <1>3, <3>2 DEF RecInv, EdgeCounts
      <4> QED
        BY <1>1, <1>3, <1>4, <1>5, <3>2, <4>1
    <3> QED
      BY <1>4, <3>1, <3>2
  <2>2. stop'.pc = "counting" => rec'.stopping /\ story'.cause = "host"
    BY <1>1, <1>3, <1>4 DEF RecInv, EdgeCounts
  <2> QED
    BY <1>3, <2>1, <2>2 DEF EdgeCounts
<1> QED
  BY <1>2, <1>6, <1>7, <1>8, <1>9 DEF RecInv

\* The commands of the host.
LEMMA CommandStep ==
    ASSUME RecInv, (\E s \in Setups : SetUpRec(s)) \/ StartRec \/ StopRec
    PROVE  RecInv'
<1> USE DEF RecInv
<1>1. ASSUME NEW s \in Setups, SetUpRec(s) PROVE RecInv'
  <2>1. /\ stop.pc = "free" /\ UNCHANGED <<buff, stop>>
        /\ setup' = s /\ story' = [cause |-> "unused", after |-> 0]
        /\ s \in [total : Nat, bytes : Nat, post : Nat, div : Nat, edge : BOOLEAN]
    BY <1>1, RecorderConstants DEF SetUpRec
  <2>2. Fits(s) \in BOOLEAN
    BY DEF Fits
  <2>3. /\ rec' \in [configured : BOOLEAN, running : BOOLEAN, stopping : BOOLEAN, virgin : BOOLEAN,
                    crossed : BOOLEAN, ptr : Places, start : Places, div : Nat, count : Nat]
        /\ rec'.configured <=> Fits(s)
        /\ ~rec'.running /\ rec'.start = rec'.ptr
    <3> HIDE DEF Fits
    <3> QED
      BY <1>1, <2>2 DEF SetUpRec, Unconfigured, RecTypes, OnlyConfigured
  <2> QED
    BY <2>1, <2>3 DEF RecTypes, OnlyConfigured, Filled, FullWhenUsed, EdgeCounts
<1>2. CASE StartRec
  <2>1. /\ rec' = [rec EXCEPT !.ptr = 0, !.start = 0, !.div = 0, !.stopping = FALSE,
                              !.crossed = FALSE, !.virgin = TRUE, !.running = TRUE]
        /\ stop.pc = "free" /\ UNCHANGED <<setup, stop>> /\ rec.configured
        /\ story' = [cause |-> "none", after |-> 0]
        /\ buff' = [i \in Places |-> TooOld]
    BY <1>2 DEF StartRec
  <2>2. /\ rec' \in [configured : BOOLEAN, running : BOOLEAN, stopping : BOOLEAN, virgin : BOOLEAN,
                    crossed : BOOLEAN, ptr : Places, start : Places, div : Nat, count : Nat]
        /\ rec'.configured /\ rec'.running /\ rec'.virgin /\ rec'.start = 0 /\ rec'.ptr = 0
    BY <2>1, RecSizes DEF RecTypes
  <2>3. buff' \in [Places -> 0..TooOld]
    BY <2>1, RecSizes
  <2>4. RecTypes' /\ OnlyConfigured'
    BY <2>1, <2>2, <2>3 DEF RecTypes, OnlyConfigured, Fits
  <2>5. Filled'
    BY <2>2, RecSizes DEF Filled, Places
  <2> QED
    BY <2>1, <2>2, <2>4, <2>5 DEF FullWhenUsed, EdgeCounts
<1>3. CASE StopRec
  <2>1. stop' = [stop EXCEPT !.pc = "testing"] /\ UNCHANGED <<rec, setup, buff, story>>
    BY <1>3 DEF StopRec
  <2>2. stop' \in [pc : {"testing"}, flags : [running : BOOLEAN, virgin : BOOLEAN, crossed : BOOLEAN]]
    BY <2>1 DEF RecTypes
  <2> QED
    BY <1>3, <2>1, <2>2
       DEF StopRec, RecTypes, OnlyConfigured, Filled, Full, FullWhenUsed, EdgeCounts, Fits
<1> QED
  BY <1>1, <1>2, <1>3

\* The steps of MC_StopRec.
LEMMA StopStep ==
    ASSUME RecInv, StopTests \/ StopLoads \/ StopSets \/ StopCounts
    PROVE  RecInv'
<1> USE DEF RecInv
<1> DEFINE Flags == [running : BOOLEAN, virgin : BOOLEAN, crossed : BOOLEAN]
<1>1. CASE StopTests
  <2>1. /\ stop' \in [pc : {"free", "loading"}, flags : Flags]
        /\ stop.pc = "testing" /\ UNCHANGED <<rec, setup, buff, story>>
    BY <1>1 DEF StopTests, RecTypes
  <2> QED
    BY <2>1 DEF RecTypes, OnlyConfigured, Filled, Full, FullWhenUsed, EdgeCounts, Fits
<1>2. CASE StopLoads
  <2>1. /\ stop.pc = "loading" /\ stop' = [pc |-> "setting", flags |-> Loaded(rec)]
        /\ UNCHANGED <<rec, setup, buff, story>>
    BY <1>2 DEF StopLoads
  <2>2. /\ stop' \in [pc : {"setting"}, flags : Flags]
        /\ stop'.flags.running = rec.running /\ stop'.flags.virgin = rec.virgin
    BY <2>1 DEF RecTypes, Loaded
  <2>3. rec.configured /\ story.cause # "unused"
    BY <2>1 DEF OnlyConfigured
  <2>4. FullWhenUsed'
    BY <2>1, <2>2, <2>3 DEF FullWhenUsed, Full
  <2> QED
    BY <2>1, <2>2, <2>3, <2>4 DEF RecTypes, OnlyConfigured, Filled, EdgeCounts, Fits
<1>3. CASE StopSets
  <2>1. /\ stop.pc = "setting" /\ stop' = [pc |-> "counting", flags |-> NoFlags]
        /\ rec' = [rec EXCEPT !.running = stop.flags.running, !.virgin = stop.flags.virgin,
                              !.crossed = stop.flags.crossed, !.stopping = TRUE]
        /\ story' = [cause |-> "host", after |-> 0]
        /\ UNCHANGED <<setup, buff>>
    BY <1>3 DEF StopSets
  <2>2. stop' \in [pc : {"counting"}, flags : Flags] /\ stop.flags \in Flags
    BY <2>1 DEF RecTypes, NoFlags
  <2>3. /\ rec' \in [configured : BOOLEAN, running : BOOLEAN, stopping : BOOLEAN, virgin : BOOLEAN,
                    crossed : BOOLEAN, ptr : Places, start : Places, div : Nat, count : Nat]
        /\ rec'.configured = rec.configured /\ rec'.ptr = rec.ptr /\ rec'.start = rec.start
        /\ rec'.running = stop.flags.running /\ rec'.virgin = stop.flags.virgin /\ rec'.stopping
    BY <2>1, <2>2 DEF RecTypes
  <2>4. rec.configured /\ story.cause # "unused"
    BY <2>1 DEF OnlyConfigured
  <2>5. RecTypes' /\ OnlyConfigured'
    BY <2>1, <2>2, <2>3, <2>4 DEF RecTypes, OnlyConfigured, Fits
  <2>6. Filled'
    BY <2>1, <2>3, <2>4 DEF Filled
  <2>7. FullWhenUsed'
    BY <2>1, <2>3 DEF FullWhenUsed, Full
  <2>8. EdgeCounts'
    BY <2>1, <2>3 DEF EdgeCounts
  <2> QED
    BY <2>5, <2>6, <2>7, <2>8
<1>4. CASE StopCounts
  <2>1. /\ stop.pc = "counting" /\ stop' \in [pc : {"free"}, flags : Flags]
        /\ rec' = [rec EXCEPT !.count = setup.post]
        /\ UNCHANGED <<setup, buff, story>> /\ setup.post \in Nat
    BY <1>4 DEF StopCounts, RecTypes
  <2>2. /\ rec' \in [configured : BOOLEAN, running : BOOLEAN, stopping : BOOLEAN, virgin : BOOLEAN,
                    crossed : BOOLEAN, ptr : Places, start : Places, div : Nat, count : Nat]
        /\ rec'.configured = rec.configured /\ rec'.ptr = rec.ptr /\ rec'.start = rec.start
        /\ rec'.running = rec.running /\ rec'.virgin = rec.virgin
    BY <2>1 DEF RecTypes
  <2> QED
    BY <2>1, <2>2 DEF RecTypes, OnlyConfigured, Filled, Full, FullWhenUsed, EdgeCounts, Fits
<1> QED
  BY <1>1, <1>2, <1>3, <1>4

LEMMA RecStep == RecInv /\ [RecNext]_recVars => RecInv'
<1> SUFFICES ASSUME RecInv, [RecNext]_recVars PROVE RecInv'
  OBVIOUS
<1>1. CASE Skip
  <2>1. /\ rec' \in [configured : BOOLEAN, running : BOOLEAN, stopping : BOOLEAN, virgin : BOOLEAN,
                    crossed : BOOLEAN, ptr : Places, start : Places, div : Nat, count : Nat]
        /\ rec'.configured = rec.configured /\ rec'.ptr = rec.ptr /\ rec'.start = rec.start
        /\ rec'.running = rec.running /\ rec'.virgin = rec.virgin /\ rec'.stopping = rec.stopping
        /\ rec'.count = rec.count
    <3>1. rec' = [rec EXCEPT !.div = rec.div - 1] /\ rec.div - 1 \in Nat
      BY <1>1 DEF Skip, RecInv, RecTypes
    <3> QED
      BY <3>1 DEF RecInv, RecTypes
  <2>2. UNCHANGED <<setup, buff, stop, story>>
    BY <1>1 DEF Skip
  <2> QED
    BY <2>1, <2>2
       DEF RecInv, RecTypes, OnlyConfigured, Filled, Full, FullWhenUsed, EdgeCounts, Fits
<1>2. CASE UNCHANGED recVars
  BY <1>2 DEF recVars, RecInv, RecTypes, OnlyConfigured, Filled, Full, FullWhenUsed, EdgeCounts, Fits
<1> QED
  BY <1>1, <1>2, SampleStep, CommandStep, StopStep DEF RecNext, PwmRecorder

(* The invariant of the recorder.                                          *)
THEOREM RecInvariant == RecSpec => []RecInv
BY InitRec, RecStep, PTL DEF RecSpec

(* Type correctness: both indexes stay inside the buffer.                  *)
THEOREM RecordsWithin == RecSpec => []RecTypeOK
<1>1. RecInv => RecTypeOK
  <2> SUFFICES ASSUME RecInv PROVE RecTypeOK
    OBVIOUS
  <2>1. rec \in [configured : BOOLEAN, running : BOOLEAN, stopping : BOOLEAN, virgin : BOOLEAN,
                 crossed : BOOLEAN, ptr : Nat, start : Nat, div : Nat, count : Nat]
        /\ rec.ptr \in Places /\ rec.start \in Places
    BY RecSizes DEF RecInv, RecTypes, Places
  <2> QED
    BY <2>1 DEF RecInv, RecTypes, RecTypeOK
<1> QED
  BY <1>1, RecInvariant, PTL

(* A recording that an edge has ended has the samples that were asked for. *)
THEOREM EdgeSamplesKept == RecSpec => []PostTriggerKept
<1>1. RecInv => PostTriggerKept
  BY DEF RecInv, EdgeCounts, PostTriggerKept, Readable
<1> QED
  BY <1>1, RecInvariant, PTL

(* What the host reads is whole and in order.                              *)
THEOREM RecordingInOrder == RecSpec => []OldestFirst
<1>1. RecInv => OldestFirst
  <2> SUFFICES ASSUME RecInv, Readable, NEW i \in 0..(setup.total - 1)
               PROVE  buff[(rec.start + i) % setup.total] = setup.total - 1 - i
    BY DEF OldestFirst
  <2>1. rec.configured /\ story.cause # "unused" /\ rec.start = rec.ptr /\ Full /\ Fits(setup)
    BY DEF Readable, RecInv, OnlyConfigured, FullWhenUsed
  <2>2. setup.total \in Nat /\ setup.total <= RecBuffSize /\ rec.ptr \in Nat
    BY <2>1, FitsWithin, RecSizes DEF RecInv, RecTypes, Places
  <2>3. setup.total > 0 /\ rec.ptr < setup.total /\ i \in Nat /\ i < setup.total
    BY <2>1, <2>2 DEF RecInv, Filled
  <2>4. \A p \in Places : p < rec.ptr => buff[p] = rec.ptr - 1 - p
    BY <2>1 DEF RecInv, Filled
  <2>5. CASE rec.ptr + i < setup.total
    <3>1. (rec.start + i) % setup.total = rec.ptr + i
      BY <2>1, <2>2, <2>3, <2>5, RoundTheBuffer
    <3>2. rec.ptr + i \in Places
      BY <2>2, <2>3, <2>5, RecSizes DEF Places
    <3>3. buff[rec.ptr + i] = setup.total - 1 - (rec.ptr + i) + rec.ptr
      BY <2>1, <2>2, <2>3, <2>5, <3>2 DEF Full
    <3> QED
      BY <2>2, <2>3, <3>1, <3>3
  <2>6. CASE rec.ptr + i >= setup.total
    <3>1. (rec.start + i) % setup.total = rec.ptr + i - setup.total
      BY <2>1, <2>2, <2>3, <2>6, RoundTheBuffer
    <3>2. rec.ptr + i - setup.total \in Places /\ rec.ptr + i - setup.total < rec.ptr
      BY <2>2, <2>3, <2>6, RecSizes DEF Places
    <3>3. buff[rec.ptr + i - setup.total] = rec.ptr - 1 - (rec.ptr + i - setup.total)
      BY <2>4, <3>2
    <3> QED
      BY <2>2, <2>3, <3>1, <3>3
  <2> QED
    BY <2>2, <2>3, <2>5, <2>6
<1> QED
  BY <1>1, RecInvariant, PTL
================================================================================
