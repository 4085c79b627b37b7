----------------------------- MODULE ServicesProofs -----------------------------
(***************************************************************************)
(* What holds of the services for every value of their constants: the WIN  *)
(* data link, the queues of the Reveal bus, the safety channel, the        *)
(* receiver of the Master Commander, and the types of all, the surge       *)
(* relay's included.                                                       *)
(***************************************************************************)
EXTENDS MCServices, Integers, SequenceTheorems, WellFoundedInduction, TLAPS

(* The data link: what the controller of the WIN bus parses.               *)

\* The values of Win_Tx_Message.
Outgoings ==
    [st : {"FREE", "READY", "SENDING"}, to : Boards \cup Elsewhere \cup {"all"},
     count : Counters, retry : 0..Retries, collision : 0..CollisionRetries]

\* The message of n is kept, to be sent again as m.
Kept(n, m) ==
    /\ m.st = "READY" /\ m.to = tx[n].to /\ m.count = tx[n].count
    /\ tx' = [tx EXCEPT ![n] = m]
    /\ UNCHANGED <<sent, missed>>

(* One frame is on the wire at a time, and its sender has a share left.    *)
OneSender ==
    \A m \in Boards : tx[m].st = "SENDING" =>
        /\ sent[m] < MaxMessages
        /\ \A n \in Boards : tx[n].st = "SENDING" => n = m

\* A board that has noted the message of n keeps its counter, or none.
NotedCounted ==
    \A n \in Talkers : tx[n].st # "FREE" =>
        /\ next[n] = CountAfter(tx[n].count)
        /\ \A r \in noted[n] : prev[r][n] = CountKept(n, r)

\* The counter of the message that n is sending, or of its next one.
Current(n) == IF tx[n].st = "FREE" THEN next[n] ELSE tx[n].count

\* A board that has not noted it yet, and has not missed the one before,
\* does not hold its counter.
NewCounted ==
    \A n \in Talkers : \A r \in Boards \ {n} :
        r \notin missed[n] /\ (tx[n].st = "FREE" \/ r \notin noted[n])
            => prev[r][n] # Current(n) \/ Current(n) = Reset

WinInv == WinTypeOK /\ OneSender /\ NotedCounted /\ NewCounted

\* The counters go round without repeating, and never back to Reset.
LEMMA CountMoves ==
    ASSUME NEW c \in Counters
    PROVE  CountAfter(c) \in Counters /\ CountAfter(c) # c /\ CountAfter(c) # Reset
BY WinConstants DEF CountAfter, Counters, Start, Reset

\* A message keeps its type when its state changes.
LEMMA StateChanges ==
    ASSUME NEW m \in Outgoings, NEW s \in {"FREE", "READY", "SENDING"}
    PROVE  [m EXCEPT !.st = s] \in Outgoings
BY DEF Outgoings

LEMMA InitWin == WinInit => WinInv
BY WinConstants
   DEF WinInit, WinInv, WinTypeOK, OneSender, NotedCounted, NewCounted, NothingToSend, Counters,
       Reset, Current

\* What becomes of the message of n when its frame ends: it is dropped, or
\* it is kept with its counter and its destination.
LEMMA FrameOutcome ==
    ASSUME WinInv, NEW n \in Talkers, NEW well \in SUBSET (Boards \ {n}), NEW echo \in Echoes,
           NEW answered \in BOOLEAN, FrameEnds(n, well, echo, answered)
    PROVE  LET by == {r \in well : Accepts(n, r)}
           IN  /\ Heard(n, by)
               /\ \/ DropSending(n, noted[n] \cup by)
                  \/ \E m \in Outgoings : Kept(n, m)
<1> DEFINE by == {r \in well : Accepts(n, r)}
           all == noted[n] \cup by
<1>1. n \in Boards /\ tx[n] \in Outgoings
  BY WinConstants DEF WinInv, WinTypeOK, Outgoings
<1>2. Heard(n, by)
  BY DEF FrameEnds
<1>3. DropSending(n, all) \/ Collided(n, all) \/ Unanswered(n, all) \/ Again(n, tx[n])
  BY DEF FrameEnds
<1>4. ASSUME NEW m \in Outgoings, m.to = tx[n].to, m.count = tx[n].count, Again(n, m)
      PROVE  \E k \in Outgoings : Kept(n, k)
  <2> DEFINE k == [m EXCEPT !.st = "READY"]
  <2>1. k \in Outgoings /\ k.st = "READY" /\ k.to = tx[n].to /\ k.count = tx[n].count
    BY <1>4 DEF Outgoings
  <2>2. tx' = [tx EXCEPT ![n] = k] /\ UNCHANGED <<sent, missed>>
    BY <1>4 DEF Again
  <2> QED
    BY <2>1, <2>2 DEF Kept
<1>5. CASE Collided(n, all)
  <2> DEFINE m == [tx[n] EXCEPT !.collision = @ - 1]
  <2>1. CASE tx[n].collision > 0
    <3>1. m \in Outgoings /\ m.to = tx[n].to /\ m.count = tx[n].count
      BY <1>1, <2>1, WinConstants DEF Outgoings
    <3> QED
      BY <1>2, <1>4, <1>5, <2>1, <3>1 DEF Collided
  <2> QED
    BY <1>2, <1>5, <2>1 DEF Collided
<1>6. CASE Unanswered(n, all)
  <2> DEFINE m == [tx[n] EXCEPT !.retry = @ - 1]
  <2>1. CASE tx[n].retry # 0
    <3>1. m \in Outgoings /\ m.to = tx[n].to /\ m.count = tx[n].count
      BY <1>1, <2>1, WinConstants DEF Outgoings
    <3> QED
      BY <1>2, <1>4, <1>6, <2>1, <3>1 DEF Unanswered
  <2> QED
    BY <1>2, <1>6, <2>1 DEF Unanswered
<1> QED
  BY <1>1, <1>2, <1>3, <1>4, <1>5, <1>6

\* A frame ends.
LEMMA FrameStep ==
    ASSUME WinInv, NEW n \in Talkers, WinFrame(n)
    PROVE  WinInv'
<1>1. PICK well \in SUBSET (Boards \ {n}), echo \in Echoes, answered \in BOOLEAN :
          FrameEnds(n, well, echo, answered)
  BY DEF WinFrame
<1> DEFINE by == {r \in well : Accepts(n, r)}
<1>2. /\ Heard(n, by)
      /\ \/ DropSending(n, noted[n] \cup by)
         \/ \E z \in Outgoings : Kept(n, z)
  BY <1>1, FrameOutcome
<1>3. UNCHANGED next /\ tx[n].st = "SENDING"
  BY <1>1 DEF FrameEnds
<1>4. n \in Boards /\ by \subseteq Boards \ {n}
  BY WinConstants
<1> HIDE DEF by
<1>5. /\ rx' \in [Boards -> {"FREE", "READY", "PROCESSING"}]
      /\ noted' = [noted EXCEPT ![n] = noted[n] \cup by]
      /\ noted' \in [Boards -> SUBSET Boards]
  BY <1>2, <1>4 DEF Heard, WinInv, WinTypeOK
<1>6. \A r \in Boards, m \in Talkers :
          prev'[r][m] = IF r \in by /\ m = n THEN CountKept(n, r) ELSE prev[r][m]
  BY <1>2, <1>4 DEF Heard, WinInv, WinTypeOK
<1>7. prev' \in [Boards -> [Talkers -> Counters]]
  <2>1. \A r \in Boards : CountKept(n, r) \in Counters
    BY <1>4, WinConstants DEF CountKept, WinInv, WinTypeOK, Counters, Reset
  <2> QED
    BY <1>2, <1>4, <2>1 DEF Heard, WinInv, WinTypeOK
<1>8. \A m \in Boards : m # n => /\ tx'[m] = tx[m] /\ sent'[m] = sent[m]
                                 /\ missed'[m] = missed[m] /\ noted'[m] = noted[m]
  BY <1>2, <1>4, <1>5 DEF DropSending, Kept, WinInv, WinTypeOK
<1>9. \A m \in Boards : m # n => tx[m].st # "SENDING"
  BY <1>3, <1>4 DEF WinInv, OneSender
<1>10. sent[n] < MaxMessages /\ sent[n] \in Nat
  BY <1>3, <1>4 DEF WinInv, OneSender, WinTypeOK
<1>11. CASE DropSending(n, noted[n] \cup by)
  <2>1. /\ tx' = [tx EXCEPT ![n] = NothingToSend]
        /\ sent' = [sent EXCEPT ![n] = @ + 1]
        /\ missed' = [missed EXCEPT ![n] = Missing(n, noted[n] \cup by)]
    BY <1>11 DEF DropSending
  <2>2. tx'[n].st = "FREE" /\ next'[n] = CountAfter(tx[n].count)
    BY <2>1, <1>3, <1>4 DEF NothingToSend, WinInv, WinTypeOK, NotedCounted
  <2>3. WinTypeOK'
    <3>1. tx' \in [Boards -> Outgoings]
      BY <2>1, WinConstants DEF WinInv, WinTypeOK, Outgoings, NothingToSend, Counters, Reset
    <3>2. sent' \in [Boards -> 0..MaxMessages]
      BY <2>1, <1>10, WinConstants DEF WinInv, WinTypeOK
    <3>3. missed' \in [Boards -> SUBSET Boards]
      BY <2>1, <1>4 DEF WinInv, WinTypeOK, Missing
    <3> QED
      BY <1>3, <1>5, <1>7, <3>1, <3>2, <3>3 DEF WinInv, WinTypeOK, Outgoings
  <2>4. OneSender'
    BY <1>8, <1>9, <2>2 DEF OneSender
  <2>5. NotedCounted'
    <3> SUFFICES ASSUME NEW m \in Talkers, tx'[m].st # "FREE"
                 PROVE  /\ next'[m] = CountAfter(tx'[m].count)
                        /\ \A r \in noted'[m] : prev'[r][m] = CountKept(m, r)'
      BY DEF NotedCounted
    <3>1. m # n /\ m \in Boards
      BY <2>2, WinConstants
    <3>2. tx'[m] = tx[m] /\ noted'[m] = noted[m] /\ noted[m] \subseteq Boards
      BY <1>8, <3>1 DEF WinInv, WinTypeOK
    <3> QED
      BY <1>3, <1>6, <3>1, <3>2 DEF WinInv, NotedCounted, CountKept, IsFor
  <2>6. NewCounted'
    <3> SUFFICES ASSUME NEW m \in Talkers, NEW r \in Boards \ {m}, r \notin missed'[m],
                        tx'[m].st = "FREE" \/ r \notin noted'[m]
                 PROVE  prev'[r][m] # Current(m)' \/ Current(m)' = Reset
      BY DEF NewCounted
    <3>1. CASE m = n
      <4>1. r \in noted[n] \cup by
        BY <3>1, <2>1, <1>4 DEF Missing, WinInv, WinTypeOK
      <4>2. prev'[r][n] = CountKept(n, r)
        BY <4>1, <1>6, <1>3 DEF WinInv, NotedCounted
      <4>3. Current(n)' = CountAfter(tx[n].count)
        BY <2>2 DEF Current
      <4>4. tx[n].count \in Counters
        BY <1>4 DEF WinInv, WinTypeOK
      <4> QED
        BY <3>1, <4>2, <4>3, <4>4, CountMoves DEF CountKept
    <3>2. CASE m # n
      <4>1. m \in Boards
        BY WinConstants
      <4>2. tx'[m] = tx[m] /\ missed'[m] = missed[m] /\ noted'[m] = noted[m]
        BY <1>8, <3>2, <4>1
      <4>3. Current(m)' = Current(m) /\ prev'[r][m] = prev[r][m]
        BY <1>3, <1>6, <3>2, <4>2 DEF Current
      <4> QED
        BY <4>2, <4>3 DEF WinInv, NewCounted
    <3> QED
      BY <3>1, <3>2
  <2> QED
    BY <2>3, <2>4, <2>5, <2>6 DEF WinInv
<1>12. ASSUME NEW z \in Outgoings, Kept(n, z)
       PROVE  WinInv'
  <2>1. tx'[n].st = "READY" /\ tx'[n].to = tx[n].to /\ tx'[n].count = tx[n].count
    BY <1>12, <1>4 DEF Kept, WinInv, WinTypeOK
  <2>2. tx' \in [Boards -> Outgoings]
    BY <1>12 DEF Kept, WinInv, WinTypeOK, Outgoings
  <2>3. WinTypeOK'
    BY <1>3, <1>5, <1>7, <1>12, <2>2 DEF Kept, WinInv, WinTypeOK, Outgoings
  <2>4. OneSender'
    BY <1>8, <1>9, <2>1 DEF OneSender
  <2>5. NotedCounted'
    <3> SUFFICES ASSUME NEW m \in Talkers, tx'[m].st # "FREE"
                 PROVE  /\ next'[m] = CountAfter(tx'[m].count)
                        /\ \A r \in noted'[m] : prev'[r][m] = CountKept(m, r)'
      BY DEF NotedCounted
    <3>1. m \in Boards /\ noted[m] \subseteq Boards
      BY WinConstants DEF WinInv, WinTypeOK
    <3>2. /\ tx'[m].to = tx[m].to /\ tx'[m].count = tx[m].count
          /\ tx[m].st # "FREE"
      BY <1>3, <1>8, <2>1, <3>1
    <3>3. \A r \in Boards : CountKept(m, r)' = CountKept(m, r)
      BY <3>2 DEF CountKept, IsFor
    <3>4. noted'[m] = IF m = n THEN noted[n] \cup by ELSE noted[m]
      BY <1>5, <3>1 DEF WinInv, WinTypeOK
    <3>5. ASSUME NEW r \in noted'[m] PROVE prev'[r][m] = CountKept(m, r)'
      BY <1>4, <1>6, <3>1, <3>2, <3>3, <3>4 DEF WinInv, NotedCounted
    <3> QED
      BY <1>3, <3>2, <3>5 DEF WinInv, NotedCounted
  <2>6. NewCounted'
    <3> SUFFICES ASSUME NEW m \in Talkers, NEW r \in Boards \ {m}, r \notin missed'[m],
                        tx'[m].st = "FREE" \/ r \notin noted'[m]
                 PROVE  prev'[r][m] # Current(m)' \/ Current(m)' = Reset
      BY DEF NewCounted
    <3>1. m \in Boards
      BY WinConstants
    <3>2. Current(m)' = Current(m) /\ (tx'[m].st = "FREE" <=> tx[m].st = "FREE")
      BY <1>3, <1>8, <2>1, <3>1 DEF Current
    <3>3. noted'[m] = IF m = n THEN noted[n] \cup by ELSE noted[m]
      BY <1>5, <3>1 DEF WinInv, WinTypeOK
    <3>4. prev'[r][m] = prev[r][m] /\ (tx[m].st = "FREE" \/ r \notin noted[m])
      BY <1>3, <1>6, <2>1, <3>2, <3>3
    <3> QED
      BY <1>12, <3>2, <3>4 DEF Kept, WinInv, NewCounted
  <2> QED
    BY <2>3, <2>4, <2>5, <2>6 DEF WinInv
<1> QED
  BY <1>2, <1>11, <1>12

\* The other steps.
LEMMA WinStep == WinInv /\ [WinNext]_winVars => WinInv'
<1> SUFFICES ASSUME WinInv, [WinNext]_winVars PROVE WinInv'
  OBVIOUS
<1> USE WinConstants DEF WinInv
<1>1. ASSUME NEW n \in Talkers, NEW to \in Destinations(n), WinQueue(n, to) PROVE WinInv'
  <2>1. /\ tx[n].st = "FREE" /\ n \in Boards
        /\ next[n] \in Counters /\ CountAfter(next[n]) \in Counters
    BY <1>1, CountMoves DEF WinQueue, WinTypeOK
  <2>2. to \in Boards \cup Elsewhere \cup {"all"}
    BY DEF Destinations
  <2>3. WinTypeOK'
    BY <1>1, <2>1, <2>2 DEF WinQueue, WinTypeOK
  <2>4. \A m \in Boards : m # n => tx'[m] = tx[m] /\ next'[m] = next[m] /\ noted'[m] = noted[m]
    BY <1>1 DEF WinQueue, WinTypeOK
  <2>5. /\ tx'[n].st = "READY" /\ tx'[n].count = next[n]
        /\ next'[n] = CountAfter(next[n]) /\ noted'[n] = {}
    BY <1>1, <2>1 DEF WinQueue, WinTypeOK
  <2>6. UNCHANGED <<sent, prev, missed>>
    BY <1>1 DEF WinQueue
  <2>7. OneSender'
    BY <2>4, <2>5, <2>6 DEF OneSender
  <2>8. NotedCounted'
    <3> SUFFICES ASSUME NEW m \in Talkers, tx'[m].st # "FREE"
                 PROVE  /\ next'[m] = CountAfter(tx'[m].count)
                        /\ \A r \in noted'[m] : prev'[r][m] = CountKept(m, r)'
      BY DEF NotedCounted
    <3>1. CASE m = n
      BY <2>5, <3>1
    <3>2. CASE m # n
      BY <2>4, <2>6, <3>2 DEF NotedCounted, CountKept, IsFor
    <3> QED
      BY <3>1, <3>2
  <2>9. NewCounted'
    <3>1. \A m \in Talkers : Current(m)' = Current(m)
      BY <2>1, <2>4, <2>5 DEF Current
    <3>2. \A m \in Talkers : m # n => tx'[m] = tx[m] /\ noted'[m] = noted[m]
      BY <2>4
    <3> QED
      BY <2>1, <2>6, <3>1, <3>2 DEF NewCounted
  <2> QED
    BY <2>3, <2>7, <2>8, <2>9
<1>2. ASSUME NEW n \in Talkers, WinGrant(n) PROVE WinInv'
  <2>1. n \in Boards
    OBVIOUS
  <2>2. /\ \A m \in Boards : m # n => tx'[m] = tx[m]
        /\ tx'[n].st = "SENDING" /\ tx'[n].count = tx[n].count /\ tx'[n].to = tx[n].to
        /\ tx[n].st = "READY"
    BY <1>2 DEF WinGrant, WinTypeOK
  <2>3. UNCHANGED <<next, sent, rx, prev, noted, missed>>
    BY <1>2 DEF WinGrant
  <2>4. WinTypeOK'
    <3>1. tx[n] \in Outgoings
      BY <2>1 DEF WinTypeOK, Outgoings
    <3>2. [tx[n] EXCEPT !.st = "SENDING"] \in Outgoings
      BY <3>1, StateChanges
    <3>3. tx' \in [Boards -> Outgoings]
      BY <1>2, <3>2 DEF WinGrant, WinTypeOK, Outgoings
    <3> QED
      BY <2>3, <3>3 DEF WinTypeOK, Outgoings
  <2>5. OneSender'
    BY <1>2, <2>2, <2>3 DEF WinGrant, OneSender
  <2>6. \A m \in Boards : /\ tx'[m].count = tx[m].count /\ tx'[m].to = tx[m].to
                          /\ tx'[m].st = "FREE" <=> tx[m].st = "FREE"
    BY <2>2
  <2>7. NotedCounted'
    BY <2>3, <2>6 DEF NotedCounted, CountKept, IsFor
  <2>8. NewCounted'
    BY <2>3, <2>6 DEF NewCounted, Current
  <2> QED
    BY <2>4, <2>5, <2>7, <2>8
<1>3. ASSUME NEW n \in Talkers, WinFrame(n) PROVE WinInv'
  BY <1>3, FrameStep
<1>4. ASSUME NEW n \in Talkers, HoldingEnds(n) PROVE WinInv'
  <2>1. WinTypeOK'
    BY <1>4 DEF HoldingEnds, WinTypeOK
  <2>2. \A m \in Boards : sent'[m] = sent[m] \/ sent'[m] = 0
    BY <1>4 DEF HoldingEnds, WinTypeOK
  <2>3. UNCHANGED <<tx, next, rx, prev, noted, missed>>
    BY <1>4 DEF HoldingEnds
  <2>4. OneSender'
    BY <2>2, <2>3 DEF OneSender
  <2>5. NotedCounted' /\ NewCounted'
    BY <2>3 DEF NotedCounted, NewCounted, Current, CountKept, IsFor
  <2> QED
    BY <2>1, <2>4, <2>5
<1>5. ASSUME NEW n \in Boards, WinTake(n) \/ WinExpire(n) PROVE WinInv'
  <2>1. WinTypeOK'
    BY <1>5 DEF WinTake, WinExpire, WinTypeOK
  <2>2. UNCHANGED <<tx, next, sent, prev, noted, missed>>
    BY <1>5 DEF WinTake, WinExpire
  <2> QED
    BY <2>1, <2>2 DEF OneSender, NotedCounted, NewCounted, Current, CountKept, IsFor
<1>6. ASSUME NEW n \in Boards, WinRestart(n) PROVE WinInv'
  <2>1. WinTypeOK'
    <3>1. NothingToSend \in [st : {"FREE", "READY", "SENDING"},
                             to : Boards \cup Elsewhere \cup {"all"}, count : Counters,
                             retry : 0..Retries, collision : 0..CollisionRetries]
      BY DEF NothingToSend, Counters, Reset
    <3>2. missed' \in [Boards -> SUBSET Boards]
      BY <1>6 DEF WinRestart, WinTypeOK, Missing
    <3> QED
      BY <1>6, <3>1, <3>2 DEF WinRestart, WinTypeOK, Counters, Reset
  <2>2. \A m \in Boards : m # n =>
            /\ tx'[m] = tx[m] /\ next'[m] = next[m] /\ sent'[m] = sent[m]
            /\ missed'[m] = missed[m] /\ noted'[m] = noted[m] \ {n}
    BY <1>6 DEF WinRestart, WinTypeOK
  <2>3. tx'[n].st = "FREE" /\ next'[n] = Reset /\ noted'[n] = {}
    BY <1>6 DEF WinRestart, WinTypeOK, NothingToSend
  <2>4. \A r \in Boards, m \in Talkers : prev'[r][m] = IF r = n THEN Reset ELSE prev[r][m]
    BY <1>6 DEF WinRestart, WinTypeOK
  <2>5. OneSender'
    BY <2>2, <2>3 DEF OneSender
  <2>6. NotedCounted'
    <3> SUFFICES ASSUME NEW m \in Talkers, tx'[m].st # "FREE"
                 PROVE  /\ next'[m] = CountAfter(tx'[m].count)
                        /\ \A r \in noted'[m] : prev'[r][m] = CountKept(m, r)'
      BY DEF NotedCounted
    <3>1. m # n /\ m \in Boards
      BY <2>3
    <3>2. \A r \in noted'[m] : r \in Boards /\ r # n /\ r \in noted[m]
      BY <2>2, <3>1 DEF WinTypeOK
    <3> QED
      BY <2>2, <2>4, <3>1, <3>2 DEF NotedCounted, CountKept, IsFor
  <2>7. NewCounted'
    <3> SUFFICES ASSUME NEW m \in Talkers, NEW r \in Boards \ {m}, r \notin missed'[m],
                        tx'[m].st = "FREE" \/ r \notin noted'[m]
                 PROVE  prev'[r][m] # Current(m)' \/ Current(m)' = Reset
      BY DEF NewCounted
    <3>1. CASE m = n
      BY <2>3, <3>1 DEF Current
    <3>2. CASE r = n
      BY <2>4, <3>2
    <3>3. CASE m # n /\ r # n
      <4>1. Current(m)' = Current(m) /\ prev'[r][m] = prev[r][m]
        BY <2>2, <2>4, <3>3 DEF Current
      <4>2. r \notin missed[m] /\ (tx[m].st = "FREE" \/ r \notin noted[m])
        BY <2>2, <3>3
      <4> QED
        BY <4>1, <4>2 DEF NewCounted
    <3> QED
      BY <3>1, <3>2, <3>3
  <2> QED
    BY <2>1, <2>5, <2>6, <2>7
<1>7. CASE UNCHANGED winVars
  BY <1>7 DEF winVars, WinTypeOK, OneSender, NotedCounted, NewCounted, Current, CountKept, IsFor
<1> QED
  BY <1>1, <1>2, <1>3, <1>4, <1>5, <1>6, <1>7 DEF WinNext

(* The invariant from which both promises about repetitions follow.        *)
THEOREM WinInvariant == WinSpec => []WinInv
BY InitWin, WinStep, PTL DEF WinSpec

(* Type correctness of the data link.                                      *)
THEOREM WinTypes == WinSpec => []WinTypeOK
<1>1. WinInv => WinTypeOK
  BY DEF WinInv
<1> QED
  BY <1>1, WinInvariant, PTL

\* Only the end of a frame hands a message over, and it is that of its sender.
LEMMA WhoHands ==
    ASSUME WinInv, [WinNext]_winVars, NEW n \in Talkers, NEW r \in Boards, Handed(n, r)
    PROVE  /\ ~Repeated(n, r)
           /\ r \in noted[n] => prev[r][n] = tx[n].count
<1>1. PICK m \in Talkers : WinFrame(m)
  <2>1. ASSUME NEW k \in Talkers, NEW to \in Destinations(k), WinQueue(k, to) PROVE FALSE
    BY <2>1 DEF WinQueue, Handed
  <2>2. ASSUME NEW k \in Talkers, WinGrant(k) \/ HoldingEnds(k) PROVE FALSE
    BY <2>2 DEF WinGrant, HoldingEnds, Handed
  <2>3. ASSUME NEW k \in Boards, WinTake(k) \/ WinExpire(k) \/ WinRestart(k) PROVE FALSE
    BY <2>3 DEF WinTake, WinExpire, WinRestart, Handed, WinInv, WinTypeOK
  <2>4. CASE UNCHANGED winVars
    BY <2>4 DEF winVars, Handed
  <2> QED
    BY <2>1, <2>2, <2>3, <2>4 DEF WinNext
<1>2. PICK well \in SUBSET (Boards \ {m}), echo \in Echoes, answered \in BOOLEAN :
          FrameEnds(m, well, echo, answered)
  BY <1>1 DEF WinFrame
<1>3. m = n
  BY <1>2, WinConstants DEF FrameEnds, Handed, WinInv, OneSender
<1>4. PICK by : Heard(n, by)
  BY <1>2, <1>3 DEF FrameEnds
<1>5. ~Repeated(n, r)
  BY <1>4 DEF Heard, Handed
<1>6. r \in noted[n] => prev[r][n] = tx[n].count
  BY DEF WinInv, NotedCounted, Handed, CountKept
<1> QED
  BY <1>5, <1>6

(* A repetition is parsed once, whatever the number of boards.             *)
THEOREM RepetitionsParsedOnce == WinSpec => ParsedOnce
<1>1. WinInv /\ [WinNext]_winVars =>
          [\A n \in Talkers : \A r \in noted[n] :
              Handed(n, r) /\ r \in noted'[n] => tx[n].count = Reset]_winVars
  <2> SUFFICES ASSUME WinInv, [WinNext]_winVars, NEW n \in Talkers, NEW r \in noted[n],
                      Handed(n, r)
               PROVE  tx[n].count = Reset
    OBVIOUS
  <2>1. r \in Boards
    BY WinConstants DEF WinInv, WinTypeOK
  <2> QED
    BY <2>1, WhoHands DEF Repeated
<1> QED
  BY <1>1, WinInvariant, PTL DEF WinSpec, ParsedOnce

(* And a new message is parsed.                                            *)
THEOREM NewMessagesParsed == WinSpec => NewIsParsed
<1>1. WinInv /\ [WinNext]_winVars =>
          [\A n \in Talkers : \A r \in Boards \ noted[n] :
              r \in noted'[n] /\ IsFor(n, r) => Handed(n, r) \/ r \in missed[n]]_winVars
  <2> SUFFICES ASSUME WinInv, [WinNext]_winVars, NEW n \in Talkers, NEW r \in Boards \ noted[n],
                      r \in noted'[n], IsFor(n, r), r \notin missed[n]
               PROVE  Handed(n, r)
    OBVIOUS
  <2>1. n \in Boards
    BY WinConstants
  <2>2. WinFrame(n)
    <3>1. ASSUME NEW k \in Talkers, NEW to \in Destinations(k), WinQueue(k, to) PROVE FALSE
      BY <2>1, <3>1 DEF WinQueue, WinInv, WinTypeOK
    <3>2. ASSUME NEW k \in Talkers, WinGrant(k) \/ HoldingEnds(k) PROVE FALSE
      BY <3>2 DEF WinGrant, HoldingEnds
    <3>3. ASSUME NEW k \in Boards, WinTake(k) \/ WinExpire(k) \/ WinRestart(k) PROVE FALSE
      BY <2>1, <3>3 DEF WinTake, WinExpire, WinRestart
    <3>4. CASE UNCHANGED winVars
      BY <3>4 DEF winVars
    <3>5. ASSUME NEW k \in Talkers, WinFrame(k), k # n PROVE FALSE
      BY <2>1, <3>5 DEF WinFrame, FrameEnds, Heard, WinInv, WinTypeOK
    <3> QED
      BY <3>1, <3>2, <3>3, <3>4, <3>5 DEF WinNext
  <2>3. PICK well \in SUBSET (Boards \ {n}), echo \in Echoes, answered \in BOOLEAN :
            FrameEnds(n, well, echo, answered)
    BY <2>2 DEF WinFrame
  <2>4. /\ tx[n].st = "SENDING"
        /\ Heard(n, {q \in well : Accepts(n, q)})
    BY <2>3 DEF FrameEnds
  <2>5. r \in well /\ Accepts(n, r)
    BY <2>1, <2>4 DEF Heard, WinInv, WinTypeOK
  <2>6. ~Repeated(n, r)
    BY <2>4, <2>5 DEF WinInv, NewCounted, Current, Repeated
  <2>7. rx'[r] = "READY" /\ rx[r] = "FREE"
    BY <2>4, <2>5, <2>6 DEF Heard, Accepts
  <2> QED
    BY <2>4, <2>7 DEF Handed
<1> QED
  BY <1>1, WinInvariant, PTL DEF WinSpec, NewIsParsed

--------------------------------------------------------------------------------
(* The queues: what the race with the heartbeat can cost the normal queue  *)
(* of the Reveal bus.                                                      *)

\* The values of a slot, and a pair of queues whose normal ring is well formed.
SlotType == [d : 0..SET, msg : Messages]
RingOK(q) ==
    /\ DOMAIN q = Queues
    /\ q["normal"] \in [slot : [Slots("normal") -> SlotType],
                        read : Slots("normal"), write : Slots("normal")]

\* From q to r a slot of the normal ring keeps its message, or gets a
\* debounce count that no task is given.
Fades(q, r) ==
    /\ RingOK(r)
    /\ \A i \in Slots("normal") :
          \/ r["normal"].slot[i] = q["normal"].slot[i]
          \/ r["normal"].slot[i].d # SET

\* What an interrupted task finds in the slot it has tested, or taken.
RaceInv ==
    /\ RingOK(queue)
    /\ task \in [pc : {"free", "checked", "reserved", "scanning", "comparing"},
                 slot : Slots("normal"), msg : Messages]
    /\ task.pc = "checked" =>
          \/ SlotState("normal", task.slot) = IDLE
          \/ queue["normal"].slot[task.slot] = [d |-> QUEUED, msg |-> Heartbeat]
    /\ task.pc = "reserved" => SlotState("normal", task.slot) = SET

LEMMA Numbers ==
    /\ SET \in Nat /\ SET > 2
    /\ IDLE \in 0..SET /\ QUEUED \in 0..SET
    /\ IDLE # QUEUED /\ IDLE # SET /\ QUEUED # SET
BY RevealConstants DEF SET, IDLE, QUEUED

LEMMA NextSlot ==
    ASSUME NEW i \in Slots("normal")
    PROVE  NextItem("normal", i) \in Slots("normal")
BY RevealConstants DEF NextItem, Slots, Size

LEMMA MessageTypes == Blank \in Messages /\ Heartbeat \in Messages
BY DEF Blank, Heartbeat, Messages, Nodes

LEMMA NoTaskType == NoTask \in [pc : {"free"}, slot : Slots("normal"), msg : Messages]
BY RevealConstants, MessageTypes DEF NoTask, Slots, Size

\* Fading is transitive.
LEMMA FadesOn ==
    ASSUME NEW q, NEW r, NEW s, Fades(q, r), Fades(r, s)
    PROVE  Fades(q, s)
BY DEF Fades

LEMMA DropFades ==
    ASSUME NEW q, NEW k, RingOK(q)
    PROVE  Fades(q, Drop(q, k))
<1>1. CASE k = "normal"
  <2> DEFINE n == q["normal"]
             s == [n.slot EXCEPT ![n.read] = [d |-> IDLE, msg |-> Blank]]
             r == Drop(q, k)
  <2>1. n \in [slot : [Slots("normal") -> SlotType], read : Slots("normal"),
               write : Slots("normal")]
    BY DEF RingOK
  <2>2. [d |-> IDLE, msg |-> Blank] \in SlotType
    BY Numbers, MessageTypes DEF SlotType
  <2>3. s \in [Slots("normal") -> SlotType]
    BY <2>1, <2>2
  <2>4. NextItem("normal", n.read) \in Slots("normal")
    BY <2>1, NextSlot
  <2>5. r["normal"] = [[n EXCEPT !.slot = s] EXCEPT !.read = NextItem("normal", n.read)]
    BY <1>1 DEF Drop, RingOK, Queues
  <2>6. /\ r["normal"].slot = s /\ r["normal"].read = NextItem("normal", n.read)
        /\ r["normal"] \in [slot : [Slots("normal") -> SlotType], read : Slots("normal"),
                            write : Slots("normal")]
    BY <2>1, <2>3, <2>4, <2>5
  <2>7. DOMAIN r = Queues
    BY DEF Drop, RingOK
  <2>8. \A i \in Slots("normal") : s[i] = n.slot[i] \/ s[i].d # SET
    BY <2>1, Numbers
  <2> QED
    BY <2>6, <2>7, <2>8 DEF Fades, RingOK
<1>2. CASE k # "normal"
  <2>1. Drop(q, k)["normal"] = q["normal"] /\ DOMAIN Drop(q, k) = Queues
    BY <1>2 DEF Drop, RingOK, Queues
  <2> QED
    BY <2>1 DEF Fades, RingOK
<1> QED
  BY <1>1, <1>2

LEMMA AgedFades ==
    ASSUME NEW q, RingOK(q)
    PROVE  Fades(q, Aged(q))
<1> DEFINE n == q["normal"]
           s == [i \in Slots("normal") |-> AgedSlot(n.slot[i])]
<1>1. n \in [slot : [Slots("normal") -> SlotType], read : Slots("normal"),
             write : Slots("normal")]
  BY DEF RingOK
<1>2. ASSUME NEW z \in SlotType
      PROVE  AgedSlot(z) \in SlotType /\ (AgedSlot(z) = z \/ AgedSlot(z).d # SET)
  <2>1. CASE Pending(z.d)
    <3>1. z.d \in 0..SET /\ z.d - 1 \in 0..SET /\ z.d - 1 # SET
      BY <2>1, Numbers DEF SlotType, Pending, TIMEOUT
    <3>2. AgedSlot(z) = [z EXCEPT !.d = z.d - 1]
      BY <2>1 DEF AgedSlot
    <3> QED
      BY <3>1, <3>2 DEF SlotType
  <2>2. CASE ~Pending(z.d)
    BY <2>2 DEF AgedSlot
  <2> QED
    BY <2>1, <2>2
<1>3. s \in [Slots("normal") -> SlotType]
      /\ \A i \in Slots("normal") : s[i] = n.slot[i] \/ s[i].d # SET
  BY <1>1, <1>2
<1>4. Aged(q)["normal"] = [n EXCEPT !.slot = s] /\ DOMAIN Aged(q) = Queues
  BY DEF Aged, Queues
<1> HIDE DEF s
<1>5. /\ Aged(q)["normal"].slot = s
      /\ Aged(q)["normal"] \in [slot : [Slots("normal") -> SlotType], read : Slots("normal"),
                                write : Slots("normal")]
  BY <1>1, <1>3, <1>4
<1> QED
  BY <1>3, <1>4, <1>5 DEF Fades, RingOK

LEMMA SearchedFades ==
    ASSUME NEW q, RingOK(q)
    PROVE  Fades(q, Searched(q))
<1>1. Searched(q)["normal"] = q["normal"] /\ DOMAIN Searched(q) = Queues
  BY DEF Searched, RingOK, Queues
<1> QED
  BY <1>1 DEF Fades, RingOK

LEMMA SentFades ==
    ASSUME NEW q, NEW o, NEW win, RingOK(q), Sent(q, o, win)
    PROVE  Fades(q, queue')
<1>1. queue' \in {q, Drop(q, o.of), Drop(Drop(q, o.of), "priority")}
  BY DEF Sent, Send, RefusedByWin
<1>2. Fades(q, q) /\ Fades(q, Drop(q, o.of))
  BY DropFades DEF Fades
<1>3. Fades(q, Drop(Drop(q, o.of), "priority"))
  <2>1. RingOK(Drop(q, o.of))
    BY <1>2 DEF Fades
  <2> QED
    BY <1>2, <2>1, DropFades, FadesOn
<1> QED
  BY <1>1, <1>2, <1>3

LEMMA OutgoingFades ==
    ASSUME RingOK(queue), NEW win \in BOOLEAN, Outgoing(win)
    PROVE  Fades(queue, queue') /\ task' \in {task, [task EXCEPT !.pc = "scanning"]}
<1> DEFINE q == Aged(queue)
<1>1. Fades(queue, q) /\ RingOK(q)
  BY AgedFades DEF Fades
<1>2. Fades(q, Searched(q)) /\ RingOK(Searched(q))
  BY <1>1, SearchedFades DEF Fades
<1>3. \A k : Fades(q, Drop(q, k))
  BY <1>1, DropFades
<1>4. \/ queue' = q
      \/ Sent(Searched(q), Picked("priority"), win)
      \/ queue' = Searched(q)
      \/ Sent(q, outgoing, win)
      \/ queue' = Timed(q)[1]
  BY DEF Outgoing
<1>5. Timed(q)[1] = q \/ Timed(q)[1] = Drop(q, outgoing.of)
  BY DEF Timed
<1>6. task' \in {task, [task EXCEPT !.pc = "scanning"]}
  BY DEF Outgoing
<1> HIDE DEF q
<1>7. CASE Sent(Searched(q), Picked("priority"), win)
  <2>1. Fades(Searched(q), queue')
    BY <1>2, <1>7, SentFades
  <2>2. Fades(q, queue')
    BY <1>2, <2>1, FadesOn
  <2> QED
    BY <1>1, <1>6, <2>2, FadesOn
<1>8. CASE Sent(q, outgoing, win)
  BY <1>1, <1>6, <1>8, SentFades, FadesOn
<1>9. Fades(q, Timed(q)[1])
  BY <1>1, <1>3, <1>5 DEF Fades
<1> QED
  BY <1>1, <1>2, <1>4, <1>6, <1>7, <1>8, <1>9, FadesOn

LEMMA ScanFades ==
    ASSUME RingOK(queue), NEW win \in BOOLEAN, ScanNormal(win)
    PROVE  /\ Fades(queue, queue')
           /\ task' \in {NoTask, [task EXCEPT !.pc = "scanning"], [task EXCEPT !.pc = "comparing"]}
<1>1. \/ Sent(queue, Picked("normal"), win)
      \/ queue' = Drop(queue, "normal")
      \/ queue' = queue
  BY DEF ScanNormal
<1>2. task' \in {NoTask, [task EXCEPT !.pc = "scanning"], [task EXCEPT !.pc = "comparing"]}
  BY DEF ScanNormal, ScanGoesOn
<1>3. Fades(queue, queue)
  BY DEF Fades
<1> QED
  BY <1>1, <1>2, <1>3, SentFades, DropFades

LEMMA CompareFades ==
    ASSUME RingOK(queue), ScanCompares
    PROVE  /\ Fades(queue, queue')
           /\ task' \in {NoTask, [task EXCEPT !.pc = "scanning"]}
<1> DEFINE n == queue["normal"]
<1>1. n \in [slot : [Slots("normal") -> SlotType], read : Slots("normal"),
             write : Slots("normal")]
  BY DEF RingOK
<1>2. NextItem("normal", n.read) \in Slots("normal")
  BY <1>1, NextSlot
<1>3. Skipped["normal"] = [n EXCEPT !.read = NextItem("normal", n.read)] /\ DOMAIN Skipped = Queues
  BY DEF Skipped, RingOK, Queues
<1>4. RingOK(Skipped) /\ Skipped["normal"].slot = n.slot
  BY <1>1, <1>2, <1>3 DEF RingOK
<1>5. Fades(queue, Skipped) /\ Fades(queue, queue)
  BY <1>4 DEF Fades
<1>6. queue' = Skipped \/ queue' = queue
  BY DEF ScanCompares
<1>7. task' \in {NoTask, [task EXCEPT !.pc = "scanning"]}
  BY DEF ScanCompares, ScanGoesOn
<1> QED
  BY <1>5, <1>6, <1>7

LEMMA InitRace == RevealInit => RaceInv
<1> SUFFICES ASSUME RevealInit PROVE RaceInv
  OBVIOUS
<1> DEFINE s == [i \in Slots("normal") |-> IF i = 0 THEN [d |-> QUEUED, msg |-> Heartbeat]
                                                    ELSE [d |-> IDLE, msg |-> Blank]]
<1>1. 0 \in Slots("normal") /\ 1 \in Slots("normal")
  BY RevealConstants DEF Slots, Size
<1>2. s \in [Slots("normal") -> SlotType]
  BY Numbers, MessageTypes DEF SlotType
<1>3. queue["normal"] = [slot |-> s, read |-> 0, write |-> 1] /\ DOMAIN queue = Queues
  BY DEF RevealInit, Queues
<1> HIDE DEF s
<1>4. RingOK(queue)
  BY <1>1, <1>2, <1>3 DEF RingOK
<1>5. task = NoTask /\ task.pc = "free"
  BY DEF RevealInit, NoTask
<1> QED
  BY <1>4, <1>5, NoTaskType DEF RaceInv

\* A slot of the normal ring is written, and then the write index.
Marked(q, i, z) == [q EXCEPT !["normal"].slot[i] = z]
Written(q, i, z, w) == [q EXCEPT !["normal"].slot[i] = z, !["normal"].write = w]

LEMMA RingMarked ==
    ASSUME NEW q, RingOK(q), NEW i \in Slots("normal"), NEW z \in SlotType
    PROVE  /\ RingOK(Marked(q, i, z))
           /\ Marked(q, i, z)["normal"].slot = [q["normal"].slot EXCEPT ![i] = z]
<1> DEFINE n == q["normal"]
           s == [n.slot EXCEPT ![i] = z]
           r == Marked(q, i, z)
<1>1. n \in [slot : [Slots("normal") -> SlotType], read : Slots("normal"),
             write : Slots("normal")]
  BY DEF RingOK
<1>2. s \in [Slots("normal") -> SlotType]
  BY <1>1
<1>3. DOMAIN r = Queues /\ r["normal"] = [n EXCEPT !.slot = s]
  BY DEF RingOK, Queues, Marked
<1> HIDE DEF s
<1>4. /\ r["normal"].slot = s
      /\ r["normal"] \in [slot : [Slots("normal") -> SlotType], read : Slots("normal"),
                          write : Slots("normal")]
  BY <1>1, <1>2, <1>3
<1> QED
  BY <1>3, <1>4 DEF RingOK, s

LEMMA RingWritten ==
    ASSUME NEW q, RingOK(q), NEW i \in Slots("normal"), NEW z \in SlotType,
           NEW w \in Slots("normal")
    PROVE  /\ RingOK(Written(q, i, z, w))
           /\ Written(q, i, z, w)["normal"].slot = [q["normal"].slot EXCEPT ![i] = z]
<1> DEFINE m == Marked(q, i, z)
           r == Written(q, i, z, w)
<1>1. RingOK(m) /\ m["normal"].slot = [q["normal"].slot EXCEPT ![i] = z]
  BY RingMarked
<1>2. DOMAIN r = Queues /\ r["normal"] = [m["normal"] EXCEPT !.write = w]
  BY DEF RingOK, Queues, Written, Marked
<1> HIDE DEF m, r
<1>3. r["normal"].slot = m["normal"].slot /\ RingOK(r)
  BY <1>1, <1>2 DEF RingOK
<1> QED
  BY <1>1, <1>3 DEF r

\* What a step may do to a slot that another holds: the promise, and that
\* the invariant goes on.
StaysPut(i) ==
    SlotState("normal", i) = QUEUED /\ queue'["normal"].slot[i].d = SET
        => queue["normal"].slot[i].msg = Heartbeat

\* The steps of the handler.
LEMMA HandlerStep ==
    ASSUME RaceInv, Fades(queue, queue'), task.pc \notin {"checked", "reserved"},
           task' \in {task, NoTask, [task EXCEPT !.pc = "scanning"],
                     [task EXCEPT !.pc = "comparing"]}
    PROVE  RaceInv' /\ \A i \in Slots("normal") : StaysPut(i)
<1>1. task' \in [pc : {"free", "scanning", "comparing"}, slot : Slots("normal"), msg : Messages]
  BY NoTaskType DEF RaceInv
<1>2. RaceInv'
  BY <1>1 DEF RaceInv, Fades
<1>3. \A i \in Slots("normal") : StaysPut(i)
  BY Numbers DEF StaysPut, Fades, SlotState
<1> QED
  BY <1>2, <1>3

LEMMA RaceStep ==
    ASSUME RaceInv, [RevealNext]_queueVars
    PROVE  RaceInv' /\ \A i \in Slots("normal") : StaysPut(i)
<1>1. CASE NewChecks
  <2>1. PICK m \in Requests :
            task' = [pc |-> "checked", slot |-> queue["normal"].write, msg |-> m]
    BY <1>1 DEF NewChecks
  <2>2. UNCHANGED queue /\ SlotState("normal", queue["normal"].write) = IDLE
    BY <1>1 DEF NewChecks
  <2>3. queue["normal"].write \in Slots("normal") /\ m \in Messages
    BY RevealConstants DEF RaceInv, RingOK
  <2>4. RaceInv'
    BY <2>1, <2>2, <2>3 DEF RaceInv, SlotState
  <2>5. \A i \in Slots("normal") : StaysPut(i)
    BY <2>2, Numbers DEF StaysPut, SlotState
  <2> QED
    BY <2>4, <2>5
<1>2. CASE NewReserves
  <2> DEFINE i == task.slot
             z == [queue["normal"].slot[i] EXCEPT !.d = SET]
  <2>1. i \in Slots("normal") /\ queue["normal"].slot[i] \in SlotType
    BY DEF RaceInv, RingOK
  <2>2. z \in SlotType /\ z.d = SET
    BY <2>1, Numbers DEF SlotType
  <2>3. queue' = Marked(queue, i, z)
    BY <1>2 DEF NewReserves, Marked
  <2> HIDE DEF z
  <2>4. RingOK(queue') /\ queue'["normal"].slot = [queue["normal"].slot EXCEPT ![i] = z]
    BY <2>1, <2>2, <2>3, RingMarked DEF RaceInv
  <2>5. task'.pc = "reserved" /\ task'.slot = i
        /\ task' \in [pc : {"reserved"}, slot : Slots("normal"), msg : Messages]
    BY <1>2 DEF NewReserves, RaceInv
  <2>6. queue'["normal"].slot[i] = z
        /\ \A j \in Slots("normal") : j # i => queue'["normal"].slot[j] = queue["normal"].slot[j]
    BY <2>1, <2>4 DEF RaceInv, RingOK
  <2>7. RaceInv'
    BY <2>1, <2>2, <2>4, <2>5, <2>6 DEF RaceInv, SlotState
  <2>8. \A j \in Slots("normal") : StaysPut(j)
    <3>1. SlotState("normal", i) = QUEUED => queue["normal"].slot[i].msg = Heartbeat
      BY <1>2, Numbers DEF NewReserves, RaceInv, SlotState
    <3> QED
      BY <2>6, <3>1, Numbers DEF StaysPut, SlotState
  <2> QED
    BY <2>7, <2>8
<1>3. CASE NewAdvances
  <2>1. PICK d \in Queued(task.msg) :
            queue' = Written(queue, task.slot, [d |-> d, msg |-> task.msg],
                             NextItem("normal", task.slot))
    BY <1>3 DEF NewAdvances, Written
  <2> DEFINE i == task.slot
             z == [d |-> d, msg |-> task.msg]
  <2>2. /\ i \in Slots("normal") /\ NextItem("normal", i) \in Slots("normal")
        /\ SlotState("normal", i) = SET
    BY <1>3, NextSlot DEF NewAdvances, RaceInv
  <2>3. z \in SlotType
    BY <1>3, <2>1, Numbers DEF SlotType, Queued, NewAdvances, RaceInv
  <2> HIDE DEF z
  <2>4. RingOK(queue') /\ queue'["normal"].slot = [queue["normal"].slot EXCEPT ![i] = z]
    BY <2>1, <2>2, <2>3, RingWritten DEF RaceInv, z
  <2>5. task' = NoTask
    BY <1>3 DEF NewAdvances
  <2>6. RaceInv'
    <3>1. task'.pc = "free"
      BY <2>5 DEF NoTask
    <3> QED
      BY <2>4, <2>5, <3>1, NoTaskType DEF RaceInv
  <2>7. \A j \in Slots("normal") : StaysPut(j)
    BY <2>2, <2>4, Numbers DEF StaysPut, SlotState, RaceInv, RingOK
  <2> QED
    BY <2>6, <2>7
<1>4. CASE PriorityRequest
  <2>1. queue'["normal"] = queue["normal"] /\ DOMAIN queue' = DOMAIN queue /\ UNCHANGED task
    BY <1>4 DEF PriorityRequest, Fill, RaceInv, RingOK, Queues
  <2>2. RaceInv'
    BY <2>1 DEF RaceInv, RingOK, SlotState
  <2>3. \A i \in Slots("normal") : StaysPut(i)
    BY <2>1, Numbers DEF StaysPut, SlotState
  <2> QED
    BY <2>2, <2>3
<1>5. CASE HeartbeatInterrupt
  <2> DEFINE w == queue["normal"].write
             z == [d |-> QUEUED, msg |-> Heartbeat]
  <2>1. CASE SlotState("normal", w) = IDLE
    <3>1. w \in Slots("normal") /\ NextItem("normal", w) \in Slots("normal")
      BY NextSlot DEF RaceInv, RingOK
    <3>2. z \in SlotType
      BY Numbers, MessageTypes DEF SlotType
    <3>3. queue' = Written(queue, w, z, NextItem("normal", w))
      BY <1>5, <2>1 DEF HeartbeatInterrupt, Fill, Written
    <3> HIDE DEF z
    <3>4. RingOK(queue') /\ queue'["normal"].slot = [queue["normal"].slot EXCEPT ![w] = z]
      BY <3>1, <3>2, <3>3, RingWritten DEF RaceInv
    <3>5. queue'["normal"].slot[w] = z
          /\ \A j \in Slots("normal") : j # w => queue'["normal"].slot[j] = queue["normal"].slot[j]
      BY <3>1, <3>4 DEF RaceInv, RingOK
    <3>6. UNCHANGED task
      BY <1>5 DEF HeartbeatInterrupt
    <3>7. RaceInv'
      BY <2>1, <3>4, <3>5, <3>6, Numbers DEF RaceInv, SlotState, z
    <3>8. \A i \in Slots("normal") : StaysPut(i)
      BY <2>1, <3>5, Numbers DEF StaysPut, SlotState
    <3> QED
      BY <3>7, <3>8
  <2>2. CASE SlotState("normal", w) # IDLE
    <3>1. UNCHANGED <<queue, task>>
      BY <1>5, <2>2 DEF HeartbeatInterrupt
    <3> QED
      BY <3>1, Numbers DEF RaceInv, SlotState, StaysPut
  <2> QED
    BY <2>1, <2>2
<1>6. CASE NodeLost
  BY <1>6, Numbers DEF NodeLost, RaceInv, SlotState, StaysPut
<1>7. CASE HandlerIncoming
  <2>1. /\ queue' = queue \/ queue' = Drop(queue, outgoing.of)
        /\ UNCHANGED task
        /\ task.pc = "free"
    BY <1>7 DEF HandlerIncoming, Incoming
  <2>2. Fades(queue, queue')
    BY <2>1, DropFades DEF RaceInv, Fades
  <2> QED
    BY <2>1, <2>2, HandlerStep
<1>8. CASE HandlerOutgoing
  BY <1>8, OutgoingFades, HandlerStep DEF HandlerOutgoing, Outgoing, RaceInv
<1>9. CASE ScanHead
  BY <1>9, ScanFades, HandlerStep DEF ScanHead, ScanNormal, RaceInv
<1>10. CASE ScanCompares
  BY <1>10, CompareFades, HandlerStep DEF ScanCompares, RaceInv
<1>11. CASE UNCHANGED queueVars
  BY <1>11, Numbers DEF queueVars, RaceInv, SlotState, StaysPut
<1> QED
  BY <1>1, <1>2, <1>3, <1>4, <1>5, <1>6, <1>7, <1>8, <1>9, <1>10, <1>11 DEF RevealNext

(* What a task finds in its slot, however the interrupt falls.             *)
THEOREM RaceInvariant == RevealSpec => []RaceInv
<1>1. RaceInv /\ [RevealNext]_queueVars => RaceInv'
  BY RaceStep
<1> QED
  BY <1>1, InitRace, PTL DEF RevealSpec

(* The race with the heartbeat costs no message of a task.                 *)
THEOREM RaceCostsHeartbeats == RevealSpec => OnlyHeartbeatsLost
<1>1. RaceInv /\ [RevealNext]_queueVars =>
          [\A i \in Slots("normal") :
              SlotState("normal", i) = QUEUED /\ queue'["normal"].slot[i].d = SET
                  => queue["normal"].slot[i].msg = Heartbeat]_queueVars
  BY RaceStep DEF StaysPut
<1> QED
  BY <1>1, RaceInvariant, PTL DEF RevealSpec, OnlyHeartbeatsLost
--------------------------------------------------------------------------------
(* The priority ring of the Reveal bus.                                    *)

\* How far a slot lies ahead of another, round the ring.
Ahead(r, i) == IF i >= r THEN i - r ELSE PrioritySize - (r - i)
Places == 0..(PrioritySize - 1)

\* A ring whose slots in use are those from the read index to the write index.
RingType == [slot : [Places -> SlotType], read : Places, write : Places]
InUse(p, i) == p.slot[i].d # IDLE
Aligned(p) ==
    \/ \A i \in Places : InUse(p, i) <=> Ahead(p.read, i) < Ahead(p.read, p.write)
    \/ p.read = p.write /\ \A i \in Places : InUse(p, i)

RingTyped(q) == DOMAIN q = Queues /\ q["priority"] \in RingType
PriorityOK(q) == RingTyped(q) /\ Aligned(q["priority"])

LEMMA PriorityPlaces ==
    /\ Slots("priority") = Places
    /\ PrioritySize \in Nat /\ PrioritySize > 1
    /\ \A i \in Places : NextItem("priority", i) = (i + 1) % PrioritySize
<1>1. PrioritySize \in Nat /\ PrioritySize > 1
  BY RevealConstants
<1>2. Slots("priority") = Places
  BY DEF Slots, Size, Places
<1>3. ASSUME NEW i \in Places
      PROVE  NextItem("priority", i) = (i + 1) % PrioritySize
  <2>1. CASE i + 1 >= PrioritySize
    <3>1. i + 1 = PrioritySize /\ PrioritySize % PrioritySize = 0
      BY <1>1, <2>1 DEF Places
    <3> QED
      BY <2>1, <3>1 DEF NextItem, Size
  <2>2. CASE i + 1 < PrioritySize
    <3>1. (i + 1) % PrioritySize = i + 1
      BY <1>1, <2>2 DEF Places
    <3> QED
      BY <1>1, <2>2, <3>1 DEF NextItem, Size, Places
  <2> QED
    BY <1>1, <2>1, <2>2 DEF Places
<1> QED
  BY <1>1, <1>2, <1>3

\* n steps on from r: the index, and how far ahead a slot is then.
LEMMA StepsOn ==
    ASSUME NEW r \in Places, NEW n \in 0..PrioritySize
    PROVE  LET s == (r + n) % PrioritySize
           IN  /\ s = IF r + n < PrioritySize THEN r + n ELSE (r + n) - PrioritySize
               /\ s \in Places
               /\ n = PrioritySize => s = r
               /\ n < PrioritySize => Ahead(r, s) = n
               /\ n < PrioritySize => \A i \in Places :
                     Ahead(s, i) = IF Ahead(r, i) >= n THEN Ahead(r, i) - n
                                   ELSE PrioritySize - (n - Ahead(r, i))
<1> DEFINE s == (r + n) % PrioritySize
<1>1. PrioritySize \in Nat /\ PrioritySize > 1
  BY PriorityPlaces
<1>2. s = IF r + n < PrioritySize THEN r + n ELSE (r + n) - PrioritySize
  BY <1>1 DEF Places
<1> HIDE DEF s
<1>3. s \in Places /\ (n = PrioritySize => s = r)
  BY <1>1, <1>2 DEF Places
<1>4. n < PrioritySize => Ahead(r, s) = n
  BY <1>1, <1>2 DEF Places, Ahead
<1>5. ASSUME n < PrioritySize, NEW i \in Places
      PROVE  Ahead(s, i) = IF Ahead(r, i) >= n THEN Ahead(r, i) - n
                           ELSE PrioritySize - (n - Ahead(r, i))
  BY <1>1, <1>2, <1>5 DEF Places, Ahead
<1> QED
  BY <1>2, <1>3, <1>4, <1>5 DEF s

LEMMA AheadType ==
    ASSUME NEW r \in Places, NEW i \in Places
    PROVE  /\ Ahead(r, i) \in Places
           /\ Ahead(r, i) = (PrioritySize + i - r) % PrioritySize
           /\ (r + Ahead(r, i)) % PrioritySize = i
           /\ Ahead(r, i) = 0 <=> i = r
<1>1. PrioritySize \in Nat /\ PrioritySize > 1
  BY PriorityPlaces
<1>2. Ahead(r, i) \in Places /\ (Ahead(r, i) = 0 <=> i = r)
  BY <1>1 DEF Ahead, Places
<1>3. Ahead(r, i) = (PrioritySize + i - r) % PrioritySize
  <2>1. CASE i >= r
    BY <1>1, <2>1 DEF Ahead, Places
  <2>2. CASE i < r
    BY <1>1, <2>2 DEF Ahead, Places
  <2> QED
    BY <1>1, <2>1, <2>2 DEF Places
<1>4. (r + Ahead(r, i)) % PrioritySize = i
  <2>1. CASE i >= r
    BY <1>1, <2>1 DEF Ahead, Places
  <2>2. CASE i < r
    <3>1. r + Ahead(r, i) = PrioritySize + i
      BY <1>1, <2>2 DEF Ahead, Places
    <3>2. (PrioritySize + i) % PrioritySize = i
      BY <1>1 DEF Places
    <3> QED
      BY <3>1, <3>2
  <2> QED
    BY <1>1, <2>1, <2>2 DEF Places
<1> QED
  BY <1>2, <1>3, <1>4

\* What PriorityAligned says of a ring, in these words.
LEMMA AlignedMeans ==
    ASSUME NEW p \in RingType
    PROVE  LET used == {i \in Slots("priority") : p.slot[i].d # IDLE}
               ahead == {(p.read + j) % PrioritySize :
                             j \in 0..(((PrioritySize + p.write - p.read) % PrioritySize) - 1)}
           IN  (used = ahead \/ (p.read = p.write /\ used = Slots("priority"))) <=> Aligned(p)
<1> DEFINE used == {i \in Slots("priority") : p.slot[i].d # IDLE}
           far == (PrioritySize + p.write - p.read) % PrioritySize
           ahead == {(p.read + j) % PrioritySize : j \in 0..(far - 1)}
<1>1. p.read \in Places /\ p.write \in Places /\ Slots("priority") = Places
  BY PriorityPlaces DEF RingType
<1>2. far = Ahead(p.read, p.write) /\ far \in Places
  BY <1>1, AheadType
<1>3. PrioritySize \in Nat /\ PrioritySize > 1
  BY PriorityPlaces
<1>4. ahead = {i \in Places : Ahead(p.read, i) < far}
  <2>1. ASSUME NEW j \in 0..(far - 1)
        PROVE  /\ (p.read + j) % PrioritySize \in Places
               /\ Ahead(p.read, (p.read + j) % PrioritySize) < far
    <3>1. j \in 0..PrioritySize /\ j < PrioritySize /\ j < far
      BY <1>2, <1>3, <2>1 DEF Places
    <3> QED
      BY <1>1, <3>1, StepsOn
  <2>2. ASSUME NEW i \in Places, Ahead(p.read, i) < far
        PROVE  i \in ahead
    <3>1. Ahead(p.read, i) \in 0..(far - 1) /\ (p.read + Ahead(p.read, i)) % PrioritySize = i
      <4>1. Ahead(p.read, i) \in Places /\ (p.read + Ahead(p.read, i)) % PrioritySize = i
        BY <1>1, AheadType
      <4> QED
        BY <1>2, <1>3, <2>2, <4>1 DEF Places
    <3> QED
      BY <3>1
  <2> QED
    BY <2>1, <2>2
<1>5. used = {i \in Places : InUse(p, i)}
  BY <1>1 DEF InUse
<1>6. used = ahead <=> \A i \in Places : InUse(p, i) <=> Ahead(p.read, i) < far
  BY <1>4, <1>5
<1>7. used = Slots("priority") <=> \A i \in Places : InUse(p, i)
  BY <1>1, <1>5
<1> HIDE DEF used, ahead, far
<1>8. (used = ahead \/ (p.read = p.write /\ used = Slots("priority"))) <=> Aligned(p)
  BY <1>2, <1>6, <1>7 DEF Aligned
<1> QED
  BY <1>8 DEF used, ahead, far

\* The slots from the read index on are freed, as many as are in use or fewer.
LEMMA RingFreed ==
    ASSUME NEW p \in RingType, NEW t \in RingType, Aligned(p), NEW n \in 0..PrioritySize,
           t.read = (p.read + n) % PrioritySize, t.write = p.write,
           \A i \in Places : Ahead(p.read, i) < n => InUse(p, i),
           \A i \in Places : InUse(t, i) <=> InUse(p, i) /\ Ahead(p.read, i) >= n
    PROVE  Aligned(t)
<1> DEFINE r == p.read
           w == p.write
           s == t.read
<1>1. PrioritySize \in Nat /\ PrioritySize > 1 /\ r \in Places /\ w \in Places /\ s \in Places
  BY PriorityPlaces DEF RingType
<1>2. \A i \in Places : Ahead(r, i) \in Places
  BY <1>1, AheadType
<1>3. CASE n = PrioritySize
  <2>1. s = r /\ \A i \in Places : InUse(p, i)
    <3>1. s = r
      BY <1>1, <1>3, StepsOn
    <3>2. \A i \in Places : Ahead(r, i) < n
      BY <1>1, <1>2, <1>3 DEF Places
    <3> QED
      BY <3>1, <3>2
  <2>2. r = w
    <3>1. CASE \A i \in Places : InUse(p, i) <=> Ahead(r, i) < Ahead(r, w)
      <4>1. Ahead(r, w) < Ahead(r, w)
        BY <1>1, <2>1, <3>1
      <4> QED
        BY <1>1, <1>2, <4>1 DEF Places
    <3> QED
      BY <3>1 DEF Aligned
  <2>3. \A i \in Places : ~InUse(t, i)
    BY <1>1, <1>2, <1>3 DEF Places
  <2>4. Ahead(s, t.write) = 0
    BY <1>1, <2>1, <2>2, AheadType
  <2>5. \A i \in Places : Ahead(s, i) >= 0
    BY <1>1, <1>2, <2>1 DEF Places
  <2> QED
    BY <2>3, <2>4, <2>5, <1>1, <1>2, <2>1 DEF Aligned, Places
<1>4. CASE n < PrioritySize
  <2>1. \A i \in Places : Ahead(s, i) = IF Ahead(r, i) >= n THEN Ahead(r, i) - n
                                        ELSE PrioritySize - (n - Ahead(r, i))
    BY <1>1, <1>4, StepsOn
  <2>2. CASE \A i \in Places : InUse(p, i) <=> Ahead(r, i) < Ahead(r, w)
    <3>1. Ahead(r, w) >= n
      BY <1>1, <1>2, <2>2 DEF Places
    <3>2. ASSUME NEW i \in Places
          PROVE  InUse(t, i) <=> Ahead(s, i) < Ahead(s, w)
      <4>1. InUse(t, i) <=> Ahead(r, i) < Ahead(r, w) /\ Ahead(r, i) >= n
        BY <2>2
      <4>2. Ahead(r, i) \in Places /\ Ahead(r, w) \in Places
        BY <1>1, <1>2
      <4>3. Ahead(s, w) = Ahead(r, w) - n
        BY <1>1, <2>1, <3>1
      <4>4. Ahead(s, i) = IF Ahead(r, i) >= n THEN Ahead(r, i) - n
                          ELSE PrioritySize - (n - Ahead(r, i))
        BY <2>1
      <4> HIDE DEF r, w, s
      <4> QED
        BY <1>1, <4>1, <4>2, <4>3, <4>4 DEF Places
    <3> QED
      BY <3>2 DEF Aligned
  <2>3. CASE r = w /\ \A i \in Places : InUse(p, i)
    <3>1. CASE n = 0
      <4>1. s = r
        <5>1. r + n < PrioritySize /\ r + n = r
          BY <1>1, <3>1 DEF Places
        <5> QED
          BY <1>1, <5>1, StepsOn
      <4>2. \A i \in Places : InUse(t, i)
        BY <1>1, <1>2, <2>3, <3>1 DEF Places
      <4> QED
        BY <2>3, <4>1, <4>2 DEF Aligned
    <3>2. CASE n > 0
      <4>1. ASSUME NEW i \in Places
            PROVE  InUse(t, i) <=> Ahead(s, i) < Ahead(s, w)
        <5>1. InUse(t, i) <=> Ahead(r, i) >= n
          BY <2>3
        <5>2. Ahead(r, i) \in Places /\ Ahead(r, w) = 0
          BY <1>1, <1>2, <2>3, AheadType
        <5>3. Ahead(s, w) = PrioritySize - n
          BY <1>1, <2>1, <3>2, <5>2
        <5>4. Ahead(s, i) = IF Ahead(r, i) >= n THEN Ahead(r, i) - n
                            ELSE PrioritySize - (n - Ahead(r, i))
          BY <2>1
        <5> HIDE DEF r, w, s
        <5> QED
          BY <1>1, <5>1, <5>2, <5>3, <5>4 DEF Places
      <4> QED
        BY <4>1 DEF Aligned
    <3> QED
      BY <3>1, <3>2
  <2> QED
    BY <2>2, <2>3 DEF Aligned
<1> QED
  BY <1>1, <1>3, <1>4

\* One more slot in use: the one at the write index, which moves on.
LEMMA RingFilled ==
    ASSUME NEW p \in RingType, NEW t \in RingType, Aligned(p), ~InUse(p, p.write),
           t.read = p.read, t.write = (p.write + 1) % PrioritySize,
           \A i \in Places : InUse(t, i) <=> InUse(p, i) \/ i = p.write
    PROVE  Aligned(t)
<1> DEFINE r == p.read
           w == p.write
           v == t.write
<1>1. PrioritySize \in Nat /\ PrioritySize > 1 /\ r \in Places /\ w \in Places /\ v \in Places
  BY PriorityPlaces DEF RingType
<1>2. \A i \in Places : InUse(p, i) <=> Ahead(r, i) < Ahead(r, w)
  BY <1>1 DEF Aligned
<1>3. v = IF w + 1 < PrioritySize THEN w + 1 ELSE (w + 1) - PrioritySize
  <2>1. 1 \in 0..PrioritySize /\ v = (w + 1) % PrioritySize
    BY <1>1
  <2> HIDE DEF w, v
  <2>2. (w + 1) % PrioritySize = IF w + 1 < PrioritySize THEN w + 1 ELSE (w + 1) - PrioritySize
    BY <1>1, <2>1, StepsOn
  <2> QED
    BY <2>1, <2>2
<1>4. CASE v = r
  <2>1. ASSUME NEW i \in Places
        PROVE  i = w \/ Ahead(r, i) < Ahead(r, w)
    <3>1. i \in 0..(PrioritySize - 1) /\ r \in 0..(PrioritySize - 1) /\ w \in 0..(PrioritySize - 1)
      BY <1>1 DEF Places
    <3> HIDE DEF r, w, v
    <3>2. CASE w + 1 < PrioritySize
      <4>1. r = w + 1
        BY <1>3, <1>4, <3>2
      <4>2. Ahead(r, w) = PrioritySize - 1
        BY <1>1, <3>1, <4>1 DEF Ahead
      <4>3. i < w \/ i = w \/ i >= r
        BY <3>1, <4>1
      <4> QED
        BY <1>1, <3>1, <4>1, <4>2, <4>3 DEF Ahead
    <3>3. CASE w + 1 >= PrioritySize
      <4>1. w = PrioritySize - 1 /\ r = 0
        BY <1>1, <1>3, <1>4, <3>1, <3>3
      <4>2. Ahead(r, w) = w /\ Ahead(r, i) = i
        BY <1>1, <3>1, <4>1 DEF Ahead
      <4> QED
        BY <1>1, <3>1, <4>1, <4>2
    <3> QED
      BY <1>1, <3>1, <3>2, <3>3
  <2> QED
    BY <1>2, <1>4, <2>1 DEF Aligned
<1>5. CASE v # r
  <2>1. ASSUME NEW i \in Places
        PROVE  i = w \/ Ahead(r, i) < Ahead(r, w) <=> Ahead(r, i) < Ahead(r, v)
    <3>1. i \in 0..(PrioritySize - 1) /\ r \in 0..(PrioritySize - 1) /\ w \in 0..(PrioritySize - 1)
      BY <1>1 DEF Places
    <3> HIDE DEF r, w, v
    <3>2. Ahead(r, v) = Ahead(r, w) + 1
      <4>1. CASE w + 1 < PrioritySize
        <5>1. v = w + 1
          BY <1>3, <4>1
        <5>2. v > r \/ v < r
          BY <3>1, <5>1, <1>5
        <5> QED
          BY <1>1, <3>1, <5>1, <5>2 DEF Ahead
      <4>2. CASE w + 1 >= PrioritySize
        <5>1. w = PrioritySize - 1 /\ v = 0
          BY <1>1, <1>3, <3>1, <4>2
        <5>2. r > 0
          BY <3>1, <5>1, <1>5
        <5> QED
          BY <1>1, <3>1, <5>1, <5>2 DEF Ahead
      <4> QED
        BY <1>1, <3>1, <4>1, <4>2
    <3>3. Ahead(r, i) \in Int /\ Ahead(r, w) \in Int
      BY <1>1, <3>1 DEF Ahead
    <3>4. Ahead(r, i) = Ahead(r, w) <=> i = w
      BY <1>1, <3>1 DEF Ahead
    <3> QED
      BY <3>2, <3>3, <3>4
  <2> QED
    BY <1>2, <2>1 DEF Aligned
<1> QED
  BY <1>4, <1>5

FreeSlot == [d |-> IDLE, msg |-> Blank]

LEMMA Freed == FreeSlot \in SlotType
BY Numbers, MessageTypes DEF FreeSlot, SlotType

\* From p to t the first n slots from the read index on are freed.
Frees(p, t, n) ==
    /\ t \in RingType
    /\ t.read = (p.read + n) % PrioritySize
    /\ t.write = p.write
    /\ \A i \in Places : t.slot[i] = IF Ahead(p.read, i) < n THEN FreeSlot ELSE p.slot[i]

LEMMA FreesRing ==
    ASSUME NEW p \in RingType, NEW t, Aligned(p), NEW n \in 0..PrioritySize, Frees(p, t, n),
           \A i \in Places : Ahead(p.read, i) < n => InUse(p, i)
    PROVE  Aligned(t)
<1>1. t \in RingType /\ t.read = (p.read + n) % PrioritySize /\ t.write = p.write
  BY DEF Frees
<1>2. ASSUME NEW i \in Places
      PROVE  InUse(t, i) <=> InUse(p, i) /\ Ahead(p.read, i) >= n
  <2>1. Ahead(p.read, i) \in Nat /\ n \in Nat
    <3>1. p.read \in Places /\ PrioritySize \in Nat
      BY PriorityPlaces DEF RingType
    <3>2. Ahead(p.read, i) \in Places
      BY <3>1, AheadType
    <3> QED
      BY <3>1, <3>2 DEF Places
  <2>2. t.slot[i] = IF Ahead(p.read, i) < n THEN FreeSlot ELSE p.slot[i]
    BY DEF Frees
  <2>3. Ahead(p.read, i) < n \/ Ahead(p.read, i) >= n
    BY <2>1
  <2>4. ~(Ahead(p.read, i) < n /\ Ahead(p.read, i) >= n)
    BY <2>1
  <2> QED
    BY <2>2, <2>3, <2>4 DEF InUse, FreeSlot
<1> QED
  BY <1>1, <1>2, RingFreed

\* The head is freed, whether it was in use or not.
LEMMA DropFrees ==
    ASSUME NEW q, RingTyped(q)
    PROVE  LET r == Drop(q, "priority")
           IN  DOMAIN r = Queues /\ Frees(q["priority"], r["priority"], 1)
<1> DEFINE p == q["priority"]
           s == [p.slot EXCEPT ![p.read] = FreeSlot]
           t == Drop(q, "priority")["priority"]
<1>1. /\ p \in RingType /\ p.slot \in [Places -> SlotType] /\ p.read \in Places
      /\ p.write \in Places /\ PrioritySize \in Nat /\ PrioritySize > 1
  BY PriorityPlaces DEF RingTyped, RingType
<1>2. s \in [Places -> SlotType]
  BY <1>1, Freed
<1>3. NextItem("priority", p.read) = (p.read + 1) % PrioritySize
  BY <1>1, PriorityPlaces
<1>4. 1 \in 0..PrioritySize /\ (p.read + 1) % PrioritySize \in Places
  BY <1>1, StepsOn
<1>5. DOMAIN Drop(q, "priority") = Queues
      /\ t = [[p EXCEPT !.slot = s] EXCEPT !.read = NextItem("priority", p.read)]
  BY DEF Drop, RingTyped, Queues, FreeSlot
<1>6. \A i \in Places : s[i] = IF i = p.read THEN FreeSlot ELSE p.slot[i]
  BY <1>1
<1> HIDE DEF s, t
<1>7. t.slot = s /\ t.read = (p.read + 1) % PrioritySize /\ t.write = p.write /\ t \in RingType
  BY <1>1, <1>2, <1>3, <1>4, <1>5 DEF RingType
<1>8. \A i \in Places : Ahead(p.read, i) < 1 <=> i = p.read
  <2>1. \A i \in Places : Ahead(p.read, i) \in Places /\ (Ahead(p.read, i) = 0 <=> i = p.read)
    BY <1>1, AheadType
  <2> QED
    BY <1>1, <2>1 DEF Places
<1>9. Frees(p, t, 1)
  BY <1>6, <1>7, <1>8 DEF Frees
<1> QED
  BY <1>5, <1>9 DEF t

LEMMA DropTyped ==
    ASSUME NEW q, NEW k \in Queues, RingTyped(q)
    PROVE  RingTyped(Drop(q, k)) /\ (k = "normal" => Drop(q, k)["priority"] = q["priority"])
<1>1. CASE k = "normal"
  <2>1. Drop(q, k)["priority"] = q["priority"] /\ DOMAIN Drop(q, k) = Queues
    BY <1>1 DEF Drop, RingTyped, Queues
  <2> QED
    BY <2>1 DEF RingTyped
<1>2. CASE k = "priority"
  BY <1>2, DropFrees DEF RingTyped, Frees
<1> QED
  BY <1>1, <1>2 DEF Queues

\* Only a slot in use may be dropped if the ring is to stay in line.
LEMMA DropRing ==
    ASSUME NEW q, NEW k \in Queues, PriorityOK(q),
           k = "priority" => InUse(q["priority"], q["priority"].read)
    PROVE  PriorityOK(Drop(q, k))
<1>1. CASE k = "normal"
  BY <1>1, DropTyped DEF PriorityOK
<1>2. CASE k = "priority"
  <2> DEFINE p == q["priority"]
             t == Drop(q, "priority")["priority"]
  <2>1. p \in RingType /\ p.read \in Places /\ Aligned(p) /\ 1 \in 0..PrioritySize
    BY PriorityPlaces DEF PriorityOK, RingTyped, RingType
  <2>2. DOMAIN Drop(q, k) = Queues /\ Frees(p, t, 1)
    BY <1>2, DropFrees DEF PriorityOK
  <2>3. \A i \in Places : Ahead(p.read, i) < 1 => InUse(p, i)
    <3>1. \A i \in Places : Ahead(p.read, i) \in Places /\ (Ahead(p.read, i) = 0 <=> i = p.read)
      BY <2>1, AheadType
    <3>2. \A i \in Places : Ahead(p.read, i) < 1 => i = p.read
      BY <3>1, PriorityPlaces DEF Places
    <3> QED
      BY <1>2, <3>2
  <2> HIDE DEF p, t
  <2>4. Aligned(t)
    BY <2>1, <2>2, <2>3, FreesRing
  <2> QED
    BY <1>2, <2>2, <2>4 DEF PriorityOK, RingTyped, Frees, t
<1> QED
  BY <1>1, <1>2 DEF Queues

\* A ring in line whose head is free holds nothing.
LEMMA EmptyRing ==
    ASSUME NEW p \in RingType, Aligned(p), ~InUse(p, p.read)
    PROVE  p.write = p.read /\ \A i \in Places : ~InUse(p, i)
<1> DEFINE r == p.read
<1>1. r \in Places /\ p.write \in Places /\ PrioritySize \in Nat /\ PrioritySize > 1
  BY PriorityPlaces DEF RingType
<1>2. \A i \in Places : Ahead(r, i) \in Places /\ (Ahead(r, i) = 0 <=> i = r)
  BY <1>1, AheadType
<1>3. \A i \in Places : InUse(p, i) <=> Ahead(r, i) < Ahead(r, p.write)
  BY <1>1 DEF Aligned
<1>4. Ahead(r, p.write) = 0
  <2>1. ~(Ahead(r, r) < Ahead(r, p.write)) /\ Ahead(r, r) = 0
    BY <1>1, <1>2, <1>3
  <2>2. Ahead(r, p.write) \in Places
    BY <1>1, <1>2
  <2> QED
    BY <1>1, <2>1, <2>2 DEF Places
<1>5. \A i \in Places : ~InUse(p, i)
  BY <1>1, <1>2, <1>3, <1>4 DEF Places
<1> QED
  BY <1>1, <1>2, <1>4, <1>5

\* Dropped from an empty ring, nothing leaves it but the order of its indexes.
LEMMA EmptyDrop ==
    ASSUME NEW q, PriorityOK(q), ~InUse(q["priority"], q["priority"].read)
    PROVE  LET t == Drop(q, "priority")["priority"]
           IN  ~Aligned(t) /\ \A i \in Places : t.slot[i].d = IDLE
<1> DEFINE p == q["priority"]
           t == Drop(q, "priority")["priority"]
           r == p.read
<1>1. p \in RingType /\ r \in Places /\ Aligned(p) /\ PrioritySize \in Nat /\ PrioritySize > 1
  BY PriorityPlaces DEF PriorityOK, RingTyped, RingType
<1>2. p.write = r /\ \A i \in Places : ~InUse(p, i)
  BY <1>1, EmptyRing
<1>3. Frees(p, t, 1)
  BY DropFrees DEF PriorityOK
<1> HIDE DEF p, t, r
<1>4. \A i \in Places : t.slot[i].d = IDLE
  BY <1>2, <1>3 DEF Frees, FreeSlot, InUse
<1>5. t.read \in Places /\ t.write = r /\ t.read # r
  <2>1. t.read = (r + 1) % PrioritySize /\ t.write = r
    BY <1>2, <1>3 DEF Frees, r
  <2>2. 1 \in 0..PrioritySize
    BY <1>1
  <2>3. (r + 1) % PrioritySize \in Places /\ Ahead(r, (r + 1) % PrioritySize) = 1
    BY <1>1, <2>2, StepsOn
  <2>4. (r + 1) % PrioritySize # r
    BY <1>1, <2>3, AheadType
  <2> QED
    BY <2>1, <2>3, <2>4
<1>6. Ahead(t.read, t.read) = 0 /\ Ahead(t.read, t.write) \in Places /\ Ahead(t.read, t.write) # 0
  BY <1>1, <1>5, AheadType
<1>7. Ahead(t.read, t.read) < Ahead(t.read, t.write) /\ ~InUse(t, t.read)
  BY <1>1, <1>4, <1>5, <1>6 DEF Places, InUse
<1>8. ~Aligned(t)
  BY <1>5, <1>7 DEF Aligned
<1> QED
  BY <1>4, <1>8 DEF t

LEMMA AgedType ==
    ASSUME NEW z \in SlotType
    PROVE  /\ AgedSlot(z) \in SlotType
           /\ AgedSlot(z).d = IDLE <=> z.d = IDLE
           /\ z.d = QUEUED => AgedSlot(z) = z
<1>1. CASE Pending(z.d)
  <2>1. z.d \in 0..SET /\ z.d - 1 \in 0..SET /\ z.d - 1 # IDLE /\ z.d # IDLE /\ z.d # QUEUED
    BY <1>1, Numbers DEF SlotType, Pending, TIMEOUT, IDLE, QUEUED
  <2>2. AgedSlot(z) = [z EXCEPT !.d = z.d - 1]
    BY <1>1 DEF AgedSlot
  <2>3. AgedSlot(z).d = z.d - 1 /\ AgedSlot(z) \in SlotType
    BY <2>1, <2>2 DEF SlotType
  <2> QED
    BY <2>1, <2>3
<1>2. CASE ~Pending(z.d)
  BY <1>2 DEF AgedSlot
<1> QED
  BY <1>1, <1>2

\* The head of a ring waits to be sent.
HeadWaits(q, k) == q[k].slot[q[k].read].d = QUEUED
HeadQueued(q) == HeadWaits(q, "priority")

LEMMA AgedRing ==
    ASSUME NEW q, RingTyped(q)
    PROVE  /\ RingTyped(Aged(q)) /\ (PriorityOK(q) => PriorityOK(Aged(q)))
           /\ HeadQueued(q) => HeadQueued(Aged(q))
<1> DEFINE p == q["priority"]
           s == [i \in Slots("priority") |-> AgedSlot(p.slot[i])]
           t == Aged(q)["priority"]
<1>1. p \in RingType /\ p.slot \in [Places -> SlotType] /\ p.read \in Places /\ p.write \in Places
  BY DEF RingTyped, RingType
<1>2. DOMAIN Aged(q) = Queues /\ t = [p EXCEPT !.slot = s]
  BY DEF Aged, Queues
<1>3. s \in [Places -> SlotType] /\ \A i \in Places : s[i] = AgedSlot(p.slot[i])
  BY <1>1, AgedType, PriorityPlaces
<1> HIDE DEF s, t
<1>4. t.slot = s /\ t.read = p.read /\ t.write = p.write /\ t \in RingType
  BY <1>1, <1>2, <1>3 DEF RingType
<1>5. \A i \in Places : InUse(t, i) <=> InUse(p, i)
  BY <1>1, <1>3, <1>4, AgedType DEF InUse
<1>6. Aligned(p) => Aligned(t)
  BY <1>4, <1>5 DEF Aligned
<1>7. HeadQueued(q) => HeadQueued(Aged(q))
  BY <1>1, <1>3, <1>4, AgedType DEF HeadQueued, HeadWaits, t
<1> QED
  BY <1>2, <1>4, <1>6, <1>7 DEF PriorityOK, RingTyped, t

LEMMA AgedNormal ==
    ASSUME NEW q, RingOK(q), HeadWaits(q, "normal")
    PROVE  HeadWaits(Aged(q), "normal")
<1> DEFINE n == q["normal"]
<1>1. n.slot \in [Slots("normal") -> SlotType] /\ n.read \in Slots("normal")
  BY DEF RingOK
<1>2. n.slot[n.read] \in SlotType /\ n.slot[n.read].d = QUEUED
  BY <1>1 DEF HeadWaits
<1>3. /\ Aged(q)["normal"].slot = [i \in Slots("normal") |-> AgedSlot(n.slot[i])]
      /\ Aged(q)["normal"].read = n.read
  BY DEF Aged, Queues, RingOK
<1> QED
  BY <1>1, <1>2, <1>3, AgedType DEF HeadWaits

\* The search of the ring ends somewhere, and at the first place where it may.
Ends(p, i) ==
    LET at == (p.read + i) % PrioritySize
        d == p.slot[at].d
    IN  \/ d = QUEUED \/ Pending(d)
        \/ at = p.write /\ (i > 0 \/ d = IDLE)

LEMMA FirstOfNumbers ==
    ASSUME NEW S \in SUBSET Nat, S # {}
    PROVE  \E n \in S : \A m \in S : ~(m < n)
<1>1. \E n \in S : \A m \in S : ~(<<m, n>> \in OpToRel(<, Nat))
  BY NatLessThanWellFounded, WFMin
<1> QED
  BY <1>1 DEF OpToRel

LEMMA StopFound ==
    ASSUME NEW q, RingTyped(q)
    PROVE  LET p == q["priority"]
               n == PriorityStop(q)
           IN  n \in 0..PrioritySize /\ Ends(p, n) /\ \A j \in 0..(n - 1) : ~Ends(p, j)
<1> DEFINE p == q["priority"]
           n == PriorityStop(q)
           first(i) == Ends(p, i) /\ \A j \in 0..(i - 1) : ~Ends(p, j)
           last == IF p.read = p.write THEN PrioritySize ELSE Ahead(p.read, p.write)
<1>1. /\ p \in RingType /\ p.read \in Places /\ p.write \in Places
      /\ PrioritySize \in Nat /\ PrioritySize > 1
  BY PriorityPlaces DEF RingTyped, RingType
<1>2. last \in 0..PrioritySize /\ last > 0 /\ (p.read + last) % PrioritySize = p.write
  <2>1. CASE p.read = p.write
    <3>1. PrioritySize \in 0..PrioritySize
      BY <1>1
    <3>2. (p.read + PrioritySize) % PrioritySize = p.read
      BY <1>1, <3>1, StepsOn
    <3> QED
      BY <1>1, <2>1, <3>1, <3>2
  <2>2. CASE p.read # p.write
    <3>1. /\ Ahead(p.read, p.write) \in Places /\ Ahead(p.read, p.write) # 0
          /\ (p.read + Ahead(p.read, p.write)) % PrioritySize = p.write
      BY <1>1, <2>2, AheadType
    <3> QED
      BY <1>1, <2>2, <3>1 DEF Places
  <2> QED
    BY <2>1, <2>2
<1> HIDE DEF last
<1>3. Ends(p, last)
  BY <1>2 DEF Ends
<1>4. \E i \in 0..PrioritySize : first(i)
  <2> DEFINE S == {i \in 0..PrioritySize : Ends(p, i)}
  <2>1. S \in SUBSET Nat /\ S # {}
    BY <1>1, <1>2, <1>3
  <2>2. PICK i \in S : \A m \in S : ~(m < i)
    BY <2>1, FirstOfNumbers
  <2>3. ASSUME NEW j \in 0..(i - 1) PROVE ~Ends(p, j)
    <3>1. j \in 0..PrioritySize /\ j < i
      BY <1>1, <2>1, <2>2
    <3> QED
      BY <2>2, <3>1
  <2> QED
    BY <2>2, <2>3
<1>5. n = CHOOSE i \in 0..PrioritySize : first(i)
  BY DEF PriorityStop, Ends
<1> HIDE DEF first, n
<1>6. n \in 0..PrioritySize /\ first(n)
  BY <1>4, <1>5
<1> QED
  BY <1>6 DEF n, first

\* Of a ring in line the search passes only slots in use.
LEMMA StopPasses ==
    ASSUME NEW q, PriorityOK(q)
    PROVE  \A i \in Places :
              Ahead(q["priority"].read, i) < PriorityStop(q) => InUse(q["priority"], i)
<1> DEFINE p == q["priority"]
           n == PriorityStop(q)
           far == Ahead(p.read, p.write)
<1>1. /\ p \in RingType /\ p.read \in Places /\ p.write \in Places /\ Aligned(p)
      /\ PrioritySize \in Nat /\ PrioritySize > 1
  BY PriorityPlaces DEF PriorityOK, RingTyped, RingType
<1>2. n \in 0..PrioritySize /\ \A j \in 0..(n - 1) : ~Ends(p, j)
  BY StopFound DEF PriorityOK
<1>3. /\ far \in Places /\ (p.read + far) % PrioritySize = p.write
      /\ far = 0 => p.write = p.read
  BY <1>1, AheadType
<1> HIDE DEF n
<1> SUFFICES ASSUME NEW i \in Places, Ahead(p.read, i) < n, ~InUse(p, i)
             PROVE  FALSE
  BY DEF n
<1>4. \A j \in Places : InUse(p, j) <=> Ahead(p.read, j) < far
  BY <1>1 DEF Aligned
<1>5. Ahead(p.read, i) \in Places /\ ~(Ahead(p.read, i) < far)
  BY <1>1, <1>4, AheadType
<1>6. far \in 0..(n - 1)
  BY <1>1, <1>2, <1>3, <1>5 DEF Places
<1>7. p.slot[p.write].d = IDLE \/ far > 0
  <2>1. CASE far = 0
    <3>1. ~InUse(p, p.write)
      BY <1>1, <1>3, <1>4, <2>1
    <3> QED
      BY <3>1 DEF InUse
  <2> QED
    BY <1>1, <1>3, <2>1 DEF Places
<1> HIDE DEF far
<1>8. Ends(p, far)
  BY <1>3, <1>7 DEF Ends
<1> QED
  BY <1>2, <1>6, <1>8

LEMMA SearchedFrees ==
    ASSUME NEW q, RingTyped(q)
    PROVE  LET r == Searched(q)
           IN  DOMAIN r = Queues /\ Frees(q["priority"], r["priority"], PriorityStop(q))
<1> DEFINE p == q["priority"]
           n == PriorityStop(q)
           passed == {(p.read + i) % PrioritySize : i \in 0..(n - 1)}
           s == [i \in Slots("priority") |-> IF i \in passed THEN FreeSlot ELSE p.slot[i]]
           t == Searched(q)["priority"]
<1>1. /\ p \in RingType /\ p.slot \in [Places -> SlotType] /\ p.read \in Places
      /\ p.write \in Places /\ PrioritySize \in Nat /\ PrioritySize > 1
  BY PriorityPlaces DEF RingTyped, RingType
<1>2. n \in 0..PrioritySize
  BY StopFound
<1>3. ASSUME NEW i \in Places
      PROVE  i \in passed <=> Ahead(p.read, i) < n
  <2>1. ASSUME NEW j \in 0..(n - 1), i = (p.read + j) % PrioritySize
        PROVE  Ahead(p.read, i) < n
    <3>1. j \in 0..PrioritySize /\ j < PrioritySize /\ j < n
      BY <1>1, <1>2
    <3> QED
      BY <1>1, <2>1, <3>1, StepsOn
  <2>2. ASSUME Ahead(p.read, i) < n
        PROVE  i \in passed
    <3>1. Ahead(p.read, i) \in Places /\ (p.read + Ahead(p.read, i)) % PrioritySize = i
      BY <1>1, AheadType
    <3>2. Ahead(p.read, i) \in 0..(n - 1)
      BY <1>1, <1>2, <2>2, <3>1 DEF Places
    <3> QED
      BY <3>1, <3>2
  <2> QED
    BY <2>1, <2>2
<1> HIDE DEF passed
<1>4. s \in [Places -> SlotType]
  BY <1>1, Freed, PriorityPlaces
<1>5. \A i \in Places : s[i] = IF Ahead(p.read, i) < n THEN FreeSlot ELSE p.slot[i]
  BY <1>3, PriorityPlaces
<1>6. DOMAIN Searched(q) = Queues
      /\ t = [[p EXCEPT !.read = (p.read + n) % PrioritySize] EXCEPT !.slot = s]
  BY DEF Searched, RingTyped, Queues, FreeSlot, passed
<1> HIDE DEF n, s, t
<1>7. (p.read + n) % PrioritySize \in Places
  BY <1>1, <1>2, StepsOn
<1>8. t.slot = s /\ t.read = (p.read + n) % PrioritySize /\ t.write = p.write /\ t \in RingType
  BY <1>1, <1>4, <1>6, <1>7 DEF RingType
<1>9. Frees(p, t, n)
  BY <1>5, <1>8 DEF Frees
<1> QED
  BY <1>6, <1>9 DEF t, n

LEMMA SearchedRing ==
    ASSUME NEW q, RingTyped(q)
    PROVE  RingTyped(Searched(q)) /\ (PriorityOK(q) => PriorityOK(Searched(q)))
<1> DEFINE p == q["priority"]
           n == PriorityStop(q)
           t == Searched(q)["priority"]
<1>1. p \in RingType /\ n \in 0..PrioritySize
  BY StopFound DEF RingTyped
<1>2. PriorityOK(q) => \A i \in Places : Ahead(p.read, i) < n => InUse(p, i)
  BY StopPasses
<1>3. DOMAIN Searched(q) = Queues /\ Frees(p, t, n)
  BY SearchedFrees
<1>4. PriorityOK(q) => Aligned(p)
  BY DEF PriorityOK
<1> HIDE DEF p, n, t
<1>5. PriorityOK(q) => Aligned(t)
  BY <1>1, <1>2, <1>3, <1>4, FreesRing
<1> QED
  BY <1>3, <1>5 DEF PriorityOK, RingTyped, Frees, t

\* From p to t the slot at the write index is filled with y.
Fills(p, t, y) ==
    /\ t \in RingType
    /\ t.read = p.read
    /\ ~InUse(p, p.write)
    /\ \A i \in Places : t.slot[i] = IF i = p.write THEN y ELSE p.slot[i]
    /\ \A i \in Places : InUse(t, i) <=> InUse(p, i) \/ i = p.write

\* A message is queued, or reserved and left so.
LEMMA RequestFills ==
    ASSUME RingTyped(queue), PriorityRequest
    PROVE  /\ DOMAIN queue' = Queues
           /\ Aligned(queue["priority"]) => Aligned(queue'["priority"])
           /\ \E m \in UrgentRequests : \E d \in {QUEUED, SET} :
                 Fills(queue["priority"], queue'["priority"], [d |-> d, msg |-> m])
<1> DEFINE p == queue["priority"]
           t == queue'["priority"]
           w == p.write
<1>1. /\ p \in RingType /\ p.slot \in [Places -> SlotType] /\ p.read \in Places
      /\ w \in Places /\ PrioritySize \in Nat /\ PrioritySize > 1
  BY PriorityPlaces DEF RingTyped, RingType
<1>2. p.slot[w].d = IDLE
  BY DEF PriorityRequest, SlotState
<1>0. PICK m \in UrgentRequests : \E d \in Queued(m) :
          queue' = [Fill("priority", w, m) EXCEPT !["priority"].slot[w].d = d]
  BY DEF PriorityRequest
<1>3. PICK d \in Queued(m) :
          queue' = [Fill("priority", w, m) EXCEPT !["priority"].slot[w].d = d]
  BY <1>0
<1> DEFINE z == [d |-> QUEUED, msg |-> m]
           y == [d |-> d, msg |-> m]
           a == [p.slot EXCEPT ![w] = z]
           b == [a EXCEPT ![w].d = d]
<1>4. d \in {QUEUED, SET} /\ d \in 0..SET /\ d # IDLE /\ m \in Messages
  <2>1. d \in {QUEUED, SET}
    BY DEF Queued
  <2>2. m \in Messages
    BY RevealConstants
  <2> QED
    BY <2>1, <2>2, Numbers
<1>5. z \in SlotType /\ y \in SlotType /\ [z EXCEPT !.d = d] = y /\ y.d = d
  BY <1>4, Numbers DEF SlotType
<1> HIDE DEF z, y
<1>6. a \in [Places -> SlotType] /\ a[w] = z /\ \A i \in Places : i # w => a[i] = p.slot[i]
  BY <1>1, <1>5
<1>7. b = [a EXCEPT ![w] = y]
  BY <1>1, <1>5, <1>6
<1> HIDE DEF a
<1>8. b \in [Places -> SlotType] /\ b[w] = y /\ \A i \in Places : i # w => b[i] = p.slot[i]
  BY <1>1, <1>5, <1>6, <1>7
<1>9. DOMAIN queue' = Queues
      /\ t = [[p EXCEPT !.slot = b] EXCEPT !.write = NextItem("priority", w)]
  <2>1. Fill("priority", w, m)["priority"]
            = [[p EXCEPT !.slot = a] EXCEPT !.write = NextItem("priority", w)]
        /\ DOMAIN Fill("priority", w, m) = Queues
    BY DEF Fill, RingTyped, Queues, a, z
  <2>2. t = [Fill("priority", w, m)["priority"] EXCEPT !.slot[w].d = d] /\ DOMAIN queue' = Queues
    BY <1>3, <2>1 DEF Queues
  <2> HIDE DEF t
  <2>3. t.slot = b /\ t = [[p EXCEPT !.slot = b] EXCEPT !.write = NextItem("priority", w)]
    BY <1>1, <2>1, <2>2 DEF RingType
  <2> QED
    BY <2>2, <2>3
<1>10. NextItem("priority", w) = (w + 1) % PrioritySize /\ (w + 1) % PrioritySize \in Places
  <2>1. 1 \in 0..PrioritySize
    BY <1>1
  <2> QED
    BY <1>1, <2>1, PriorityPlaces, StepsOn
<1> HIDE DEF b, t
<1>11. t.slot = b /\ t.read = p.read /\ t.write = (w + 1) % PrioritySize /\ t \in RingType
  BY <1>1, <1>8, <1>9, <1>10 DEF RingType
<1>12. \A i \in Places : InUse(t, i) <=> InUse(p, i) \/ i = w
  BY <1>4, <1>5, <1>8, <1>11 DEF InUse
<1>13. Aligned(p) => Aligned(t)
  BY <1>1, <1>2, <1>11, <1>12, RingFilled DEF InUse
<1>14. Fills(p, t, y)
  BY <1>2, <1>8, <1>11, <1>12 DEF Fills, InUse
<1> QED
  BY <1>4, <1>9, <1>13, <1>14 DEF t, y

LEMMA RequestRing ==
    ASSUME RingTyped(queue), PriorityRequest
    PROVE  /\ RingTyped(queue') /\ (PriorityOK(queue) => PriorityOK(queue'))
           /\ HeadQueued(queue) => HeadQueued(queue')
<1> DEFINE p == queue["priority"]
           t == queue'["priority"]
<1>1. /\ DOMAIN queue' = Queues /\ (Aligned(p) => Aligned(t))
      /\ \E m \in UrgentRequests : \E d \in {QUEUED, SET} : Fills(p, t, [d |-> d, msg |-> m])
  BY RequestFills
<1>2. PICK y : Fills(p, t, y)
  BY <1>1
<1>3. p.read \in Places /\ p.write \in Places
  BY DEF RingTyped, RingType
<1> HIDE DEF p, t
<1>4. t.slot[t.read] = IF t.read = p.write THEN y ELSE p.slot[p.read]
  BY <1>2, <1>3 DEF Fills
<1>5. p.slot[p.read].d = QUEUED => t.slot[t.read].d = QUEUED
  BY <1>2, <1>4, Numbers DEF Fills, InUse
<1>6. HeadQueued(queue) => HeadQueued(queue')
  BY <1>5 DEF HeadQueued, HeadWaits, p, t
<1> QED
  BY <1>1, <1>2, <1>6 DEF PriorityOK, RingTyped, Fills, p, t

\* What a drop leaves in the slots of both rings.
LEMMA DropSlots ==
    ASSUME NEW q, RingOK(q), RingTyped(q), NEW k \in Queues, NEW j \in Queues, NEW i \in Slots(j)
    PROVE  Drop(q, k)[j].slot[i] =
               IF j = k /\ i = q[k].read THEN FreeSlot ELSE q[j].slot[i]
<1>1. CASE j # k
  <2>1. Drop(q, k)[j] = q[j]
    BY <1>1 DEF Drop, RingTyped
  <2> QED
    BY <1>1, <2>1
<1>2. CASE j = k
  <2> DEFINE p == q[k]
             s == [p.slot EXCEPT ![p.read] = FreeSlot]
  <2>1. p \in [slot : [Slots(k) -> SlotType], read : Slots(k), write : Slots(k)]
    <3>1. CASE k = "normal"
      BY <3>1 DEF RingOK
    <3>2. CASE k = "priority"
      BY <3>2, PriorityPlaces DEF RingTyped, RingType
    <3> QED
      BY <3>1, <3>2 DEF Queues
  <2>2. Drop(q, k)[k] = [[p EXCEPT !.slot = s] EXCEPT !.read = NextItem(k, p.read)]
    BY DEF Drop, RingTyped, FreeSlot
  <2>3. Drop(q, k)[k].slot = s
    BY <2>1, <2>2
  <2> QED
    BY <1>2, <2>1, <2>3
<1> QED
  BY <1>1, <1>2

\* The rings as they are while a step of the handler goes on: a message that
\* waits in one has waited before.
Passed == {queue, Aged(queue), Searched(Aged(queue))}
Stands(q) ==
    /\ q \in Passed
    /\ RingOK(q) /\ RingTyped(q)
    /\ PriorityOK(queue) => PriorityOK(q)
    /\ \A k \in Queues : \A i \in Slots(k) :
          q[k].slot[i].d = QUEUED => q[k].slot[i] = queue[k].slot[i]

LEMMA QueueStands == ASSUME RingOK(queue), RingTyped(queue) PROVE Stands(queue)
BY DEF Stands, Passed

LEMMA AgedStands ==
    ASSUME RingOK(queue), RingTyped(queue)
    PROVE  Stands(Aged(queue))
<1> DEFINE q == Aged(queue)
<1>1. RingOK(q) /\ RingTyped(q) /\ (PriorityOK(queue) => PriorityOK(q))
  BY AgedFades, AgedRing DEF Fades
<1>2. ASSUME NEW k \in Queues, NEW i \in Slots(k), q[k].slot[i].d = QUEUED
      PROVE  q[k].slot[i] = queue[k].slot[i]
  <2>1. queue[k] \in [slot : [Slots(k) -> SlotType], read : Slots(k), write : Slots(k)]
    <3>1. CASE k = "normal"
      BY <3>1 DEF RingOK
    <3>2. CASE k = "priority"
      BY <3>2, PriorityPlaces DEF RingTyped, RingType
    <3> QED
      BY <3>1, <3>2 DEF Queues
  <2>2. q[k].slot = [a \in Slots(k) |-> AgedSlot(queue[k].slot[a])]
    BY <2>1 DEF Aged
  <2>3. q[k].slot[i] = AgedSlot(queue[k].slot[i]) /\ queue[k].slot[i] \in SlotType
    BY <2>1, <2>2
  <2>4. ~Pending(queue[k].slot[i].d)
    <3> DEFINE z == queue[k].slot[i]
    <3> SUFFICES ASSUME Pending(z.d) PROVE FALSE
      OBVIOUS
    <3>1. z.d \in Nat /\ z.d > 2
      BY <2>3, Numbers DEF SlotType, Pending, TIMEOUT
    <3>2. AgedSlot(z) = [z EXCEPT !.d = z.d - 1]
      BY DEF AgedSlot
    <3>3. AgedSlot(z).d = z.d - 1
      BY <2>3, <3>2 DEF SlotType
    <3> QED
      BY <1>2, <2>3, <3>1, <3>3 DEF QUEUED
  <2> QED
    BY <2>3, <2>4 DEF AgedSlot
<1> QED
  BY <1>1, <1>2 DEF Stands, Passed

LEMMA SearchedStands ==
    ASSUME RingOK(queue), RingTyped(queue)
    PROVE  /\ Stands(Searched(Aged(queue)))
           /\ Searched(Aged(queue))["normal"] = Aged(queue)["normal"]
<1> DEFINE q == Aged(queue)
           r == Searched(q)
           p == q["priority"]
           t == r["priority"]
<1>1. Stands(q)
  BY AgedStands
<1>2. r["normal"] = q["normal"] /\ DOMAIN r = Queues
  BY <1>1 DEF Searched, Stands, RingTyped, Queues
<1>3. RingTyped(r) /\ (PriorityOK(q) => PriorityOK(r)) /\ RingOK(r)
  BY <1>1, <1>2, SearchedRing DEF Stands, RingOK
<1>4. Frees(p, t, PriorityStop(q))
  BY <1>1, SearchedFrees DEF Stands
<1> HIDE DEF q, r
<1>5. ASSUME NEW i \in Places, t.slot[i].d = QUEUED
      PROVE  t.slot[i] = p.slot[i]
  BY <1>4, <1>5, Numbers DEF Frees, FreeSlot
<1>6. ASSUME NEW k \in Queues, NEW i \in Slots(k), r[k].slot[i].d = QUEUED
      PROVE  r[k].slot[i] = q[k].slot[i]
  BY <1>2, <1>5, <1>6, PriorityPlaces DEF Queues
<1>7. \A k \in Queues : \A i \in Slots(k) :
          r[k].slot[i].d = QUEUED => r[k].slot[i] = queue[k].slot[i]
  BY <1>1, <1>6 DEF Stands
<1> QED
  BY <1>1, <1>2, <1>3, <1>7 DEF Stands, Passed, q, r

\* A report to the board itself is first in a ring.
OwnHead(q, k) == HeadWaits(q, k) /\ ~HeadMessage(q, k).cmd /\ HeadMessage(q, k).to = "own"
DoubleDrop(q, k) == Drop(Drop(q, k), "priority")

\* It is gone after the step.
LEMMA StrayLeaves ==
    ASSUME NEW q, Stands(q), NEW k \in Queues, OwnHead(q, k), queue' = DoubleDrop(q, k)
    PROVE  ~(OwnReports \subseteq OwnReports')
<1> DEFINE i == q[k].read
           z == queue[k].slot[i]
           r == Drop(q, k)
<1>1. q[k] \in [slot : [Slots(k) -> SlotType], read : Slots(k), write : Slots(k)]
  <2>1. CASE k = "normal"
    BY <2>1 DEF Stands, RingOK
  <2>2. CASE k = "priority"
    BY <2>2, PriorityPlaces DEF Stands, RingTyped, RingType
  <2> QED
    BY <2>1, <2>2 DEF Queues
<1>2. i \in Slots(k) /\ q[k].slot[i] \in SlotType
  BY <1>1
<1>3. z = q[k].slot[i] /\ z \in SlotType /\ z.d = QUEUED /\ ~z.msg.cmd /\ z.msg.to = "own"
  BY <1>2 DEF Stands, OwnHead, HeadWaits, HeadMessage
<1>4. z = [d |-> QUEUED, msg |-> OwnReport]
  <2>1. z.msg \in Messages /\ z = [d |-> z.d, msg |-> z.msg]
    BY <1>3 DEF SlotType
  <2>2. z.msg.cmd = FALSE
    BY <1>3, <2>1 DEF Messages
  <2>3. z.msg = OwnReport
    BY <1>3, <2>1, <2>2 DEF Messages, OwnReport
  <2> QED
    BY <1>3, <2>1, <2>3
<1>5. RingOK(r) /\ RingTyped(r)
  BY DropFades, DropTyped DEF Stands, Fades
<1>6. r[k].slot[i] = FreeSlot
  BY <1>2, DropSlots DEF Stands
<1>7. queue'[k].slot[i] = FreeSlot
  <2>1. "priority" \in Queues
    BY DEF Queues
  <2> QED
    BY <1>2, <1>5, <1>6, <2>1, DropSlots DEF DoubleDrop
<1> HIDE DEF z
<1>8. <<k, i>> \in OwnReports
  BY <1>2, <1>4 DEF OwnReports, z
<1>9. ~(<<k, i>> \in OwnReports')
  BY <1>7, Numbers DEF OwnReports, FreeSlot
<1> QED
  BY <1>8, <1>9

\* The ring in line after both drops, or empty.
LEMMA RefusedRing ==
    ASSUME NEW q, NEW k \in Queues, PriorityOK(q),
           k = "priority" => InUse(q["priority"], q["priority"].read)
    PROVE  \/ PriorityOK(DoubleDrop(q, k))
           \/ \A i \in Places : DoubleDrop(q, k)["priority"].slot[i].d = IDLE
<1> DEFINE r == Drop(q, k)
<1>1. PriorityOK(r) /\ "priority" \in Queues
  BY DropRing DEF Queues
<1> HIDE DEF r
<1>2. CASE InUse(r["priority"], r["priority"].read)
  BY <1>1, <1>2, DropRing DEF DoubleDrop, r
<1>3. CASE ~InUse(r["priority"], r["priority"].read)
  BY <1>1, <1>3, EmptyDrop DEF DoubleDrop, r
<1> QED
  BY <1>2, <1>3

\* The values of Reveal_Outgoing_State and the variables beside it.
OutgoingType ==
    [st : {"IDLE", "SENDING", "TIMING"}, of : Queues, retry : 0..RetryTimes,
     timeout : 0..AckTimeout, drop : BOOLEAN]

\* A message under way is the head of its ring, and stays queued.
HeadSafe(q, o) ==
    /\ RingTyped(q)
    /\ o \in OutgoingType
    /\ o.st # "IDLE" => HeadWaits(q, o.of)

\* What a step may do to the order of the priority ring.
StaysInLine == PriorityOK(queue) => PriorityOK(queue')
Refuses == \E q \in Passed : \E k \in Queues :
               Stands(q) /\ OwnHead(q, k) /\ queue' = DoubleDrop(q, k)
SafeAfter == HeadSafe(queue', outgoing') /\ (StaysInLine \/ Refuses)

LEMMA NoMessageType == NoMessage \in OutgoingType /\ NoMessage.st = "IDLE"
BY RevealConstants DEF NoMessage, OutgoingType, Queues

LEMMA QueuedInUse == ASSUME NEW q, HeadQueued(q) PROVE InUse(q["priority"], q["priority"].read)
BY Numbers DEF HeadQueued, HeadWaits, InUse

LEMMA DropSafe ==
    ASSUME NEW q, NEW o, Stands(q), HeadSafe(q, o), o.st # "IDLE",
           queue' = Drop(q, o.of), outgoing' = NoMessage
    PROVE  SafeAfter
<1>1. o.of \in Queues
  BY DEF HeadSafe, OutgoingType
<1>2. RingTyped(Drop(q, o.of))
  BY <1>1, DropTyped DEF HeadSafe
<1>3. StaysInLine
  <2>1. o.of = "priority" => InUse(q["priority"], q["priority"].read)
    BY QueuedInUse DEF HeadSafe, HeadQueued
  <2> QED
    BY <1>1, <2>1, DropRing DEF StaysInLine, Stands
<1> QED
  BY <1>2, <1>3, NoMessageType DEF SafeAfter, HeadSafe

\* What becomes of a message that is sent, and of its queue.
LEMMA SentWays ==
    ASSUME NEW q, NEW o \in OutgoingType, NEW win \in BOOLEAN, o.st # "IDLE", Sent(q, o, win)
    PROVE  \/ /\ queue' = q
              /\ outgoing' \in OutgoingType /\ outgoing'.st # "IDLE" /\ outgoing'.of = o.of
           \/ queue' = Drop(q, o.of) /\ outgoing' = NoMessage
           \/ /\ queue' = DoubleDrop(q, o.of) /\ outgoing' = NoMessage
              /\ ~HeadMessage(q, o.of).cmd /\ HeadMessage(q, o.of).to = "own"
<1> DEFINE a == [o EXCEPT !.st = "TIMING", !.retry = 1, !.timeout = 0, !.drop = TRUE]
           b == [o EXCEPT !.st = "SENDING", !.drop = FALSE]
           c == [o EXCEPT !.st = "TIMING", !.timeout = AckTimeout, !.drop = FALSE]
           m == HeadMessage(q, o.of)
<1>1. 1 \in 0..RetryTimes /\ 0 \in 0..AckTimeout /\ AckTimeout \in 0..AckTimeout
  BY RevealConstants
<1>2. /\ a \in OutgoingType /\ a.st # "IDLE" /\ a.of = o.of
      /\ b \in OutgoingType /\ b.st # "IDLE" /\ b.of = o.of
      /\ c \in OutgoingType /\ c.st # "IDLE" /\ c.of = o.of
  BY <1>1 DEF OutgoingType
<1> HIDE DEF a, b, c
<1>3. \/ Send(q, o, win) \in {<<q, a>>, <<q, b>>, <<q, c>>, <<Drop(q, o.of), NoMessage>>}
      \/ m.to = "own" /\ Send(q, o, win) = <<RefusedByWin(q, o.of), NoMessage>>
  BY DEF Send, a, b, c
<1>4. \/ RefusedByWin(q, o.of) = Drop(q, o.of)
      \/ ~m.cmd /\ RefusedByWin(q, o.of) = DoubleDrop(q, o.of)
  BY DEF RefusedByWin, DoubleDrop
<1>5. queue' = Send(q, o, win)[1] /\ outgoing' = Send(q, o, win)[2]
  BY DEF Sent
<1> QED
  BY <1>2, <1>3, <1>4, <1>5

LEMMA SentSafe ==
    ASSUME NEW q, NEW o, Stands(q), HeadSafe(q, o), o.st # "IDLE", NEW win \in BOOLEAN,
           Sent(q, o, win)
    PROVE  SafeAfter
<1>1. o \in OutgoingType /\ o.of \in Queues /\ HeadWaits(q, o.of) /\ RingTyped(q)
  BY DEF HeadSafe, OutgoingType
<1>2. CASE /\ queue' = q
           /\ outgoing' \in OutgoingType /\ outgoing'.st # "IDLE" /\ outgoing'.of = o.of
  BY <1>1, <1>2 DEF SafeAfter, HeadSafe, StaysInLine, Stands
<1>3. CASE queue' = Drop(q, o.of) /\ outgoing' = NoMessage
  BY <1>3, DropSafe
<1>4. CASE /\ queue' = DoubleDrop(q, o.of) /\ outgoing' = NoMessage
           /\ ~HeadMessage(q, o.of).cmd /\ HeadMessage(q, o.of).to = "own"
  <2>1. RingTyped(queue')
    BY <1>1, <1>4, DropTyped DEF DoubleDrop, Queues
  <2>2. Refuses
    BY <1>1, <1>4 DEF Refuses, Stands, OwnHead
  <2> QED
    BY <1>4, <2>1, <2>2, NoMessageType DEF SafeAfter, HeadSafe
<1> QED
  BY <1>1, <1>2, <1>3, <1>4, SentWays

LEMMA TimedWays ==
    ASSUME NEW q, outgoing \in OutgoingType, outgoing.st = "TIMING",
           queue' = Timed(q)[1], outgoing' = Timed(q)[2]
    PROVE  \/ /\ queue' = q
              /\ outgoing' \in OutgoingType /\ outgoing'.st # "IDLE" /\ outgoing'.of = outgoing.of
           \/ queue' = Drop(q, outgoing.of) /\ outgoing' = NoMessage
<1> DEFINE a == [outgoing EXCEPT !.timeout = outgoing.timeout - 1]
           b == [outgoing EXCEPT !.st = "SENDING", !.retry = outgoing.retry - 1]
<1>1. outgoing.timeout \in 0..AckTimeout /\ outgoing.retry \in 0..RetryTimes
      /\ RetryTimes \in Nat /\ AckTimeout \in Nat
  BY RevealConstants DEF OutgoingType
<1>2. CASE outgoing.timeout > 0
  <2>1. outgoing.timeout - 1 \in 0..AckTimeout
    BY <1>1, <1>2
  <2>2. a \in OutgoingType /\ a.of = outgoing.of /\ a.st # "IDLE"
    BY <2>1 DEF OutgoingType
  <2>3. Timed(q) = <<q, a>>
    BY <1>2 DEF Timed
  <2> HIDE DEF a
  <2> QED
    BY <2>2, <2>3
<1>3. CASE ~(outgoing.timeout > 0) /\ outgoing.retry > 1
  <2>1. outgoing.retry - 1 \in 0..RetryTimes
    BY <1>1, <1>3
  <2>2. b \in OutgoingType /\ b.of = outgoing.of /\ b.st # "IDLE"
    BY <2>1 DEF OutgoingType
  <2>3. Timed(q) = <<q, b>>
    BY <1>3 DEF Timed
  <2> HIDE DEF b
  <2> QED
    BY <2>2, <2>3
<1>4. CASE ~(outgoing.timeout > 0) /\ ~(outgoing.retry > 1)
  <2>1. Timed(q) = <<Drop(q, outgoing.of), NoMessage>>
    BY <1>4 DEF Timed
  <2> QED
    BY <2>1
<1> QED
  BY <1>2, <1>3, <1>4

LEMMA TimedSafe ==
    ASSUME NEW q, Stands(q), HeadSafe(q, outgoing), outgoing.st = "TIMING",
           queue' = Timed(q)[1], outgoing' = Timed(q)[2]
    PROVE  SafeAfter
<1>1. outgoing \in OutgoingType /\ HeadWaits(q, outgoing.of) /\ RingTyped(q)
  BY DEF HeadSafe
<1>2. CASE /\ queue' = q
           /\ outgoing' \in OutgoingType /\ outgoing'.st # "IDLE" /\ outgoing'.of = outgoing.of
  BY <1>1, <1>2 DEF SafeAfter, HeadSafe, StaysInLine, Stands
<1>3. CASE queue' = Drop(q, outgoing.of) /\ outgoing' = NoMessage
  BY <1>3, DropSafe
<1> QED
  BY <1>1, <1>2, <1>3, TimedWays

\* A queue is picked only with a message at its head.
LEMMA PickedSafe ==
    ASSUME NEW q, NEW k \in Queues, RingTyped(q), outgoing \in OutgoingType, HeadWaits(q, k)
    PROVE  HeadSafe(q, Picked(k)) /\ Picked(k).st # "IDLE" /\ Picked(k).of = k
<1>1. RetryTimes \in 0..RetryTimes
  BY RevealConstants
<1>2. Picked(k) \in OutgoingType /\ Picked(k).of = k /\ Picked(k).st = "SENDING"
  BY <1>1 DEF Picked, OutgoingType
<1> QED
  BY <1>2 DEF HeadSafe

LEMMA OutgoingSafe ==
    ASSUME RingOK(queue), HeadSafe(queue, outgoing), NEW win \in BOOLEAN, Outgoing(win)
    PROVE  SafeAfter
<1> DEFINE q == Aged(queue)
<1>1. RingTyped(queue) /\ Stands(q) /\ Stands(Searched(q)) /\ outgoing \in OutgoingType
  BY AgedStands, SearchedStands DEF HeadSafe
<1>2. HeadSafe(q, outgoing)
  <2>1. outgoing.st # "IDLE" => HeadWaits(q, outgoing.of)
    BY AgedRing, AgedNormal DEF HeadSafe, OutgoingType, Queues, HeadQueued
  <2> QED
    BY <1>1, <2>1 DEF HeadSafe, Stands
<1>3. RingTyped(Searched(q)) /\ (Urgent(q) => HeadWaits(Searched(q), "priority"))
  BY <1>1 DEF Stands, Urgent, HeadWaits
<1>4. \/ queue' = q /\ outgoing' = outgoing
      \/ Urgent(q) /\ Sent(Searched(q), Picked("priority"), win)
      \/ outgoing.st = "IDLE" /\ queue' = Searched(q) /\ outgoing' = outgoing
      \/ outgoing.st = "SENDING" /\ Sent(q, outgoing, win)
      \/ outgoing.st = "TIMING" /\ queue' = Timed(q)[1] /\ outgoing' = Timed(q)[2]
  BY DEF Outgoing
<1> HIDE DEF q
<1>5. CASE queue' = q /\ outgoing' = outgoing
  BY <1>1, <1>2, <1>5 DEF SafeAfter, StaysInLine, Stands
<1>6. CASE Urgent(q) /\ Sent(Searched(q), Picked("priority"), win)
  <2>1. HeadSafe(Searched(q), Picked("priority")) /\ Picked("priority").st # "IDLE"
    BY <1>1, <1>3, <1>6, PickedSafe DEF Queues
  <2> QED
    BY <1>1, <1>6, <2>1, SentSafe
<1>7. CASE outgoing.st = "IDLE" /\ queue' = Searched(q) /\ outgoing' = outgoing
  BY <1>1, <1>3, <1>7 DEF SafeAfter, HeadSafe, StaysInLine, Stands
<1>8. CASE outgoing.st = "SENDING" /\ Sent(q, outgoing, win)
  BY <1>1, <1>2, <1>8, SentSafe
<1>9. CASE outgoing.st = "TIMING" /\ queue' = Timed(q)[1] /\ outgoing' = Timed(q)[2]
  BY <1>1, <1>2, <1>9, TimedSafe
<1> QED
  BY <1>4, <1>5, <1>6, <1>7, <1>8, <1>9

\* What becomes of the normal ring does not concern the other one, unless it
\* is its head that is under way.
LEMMA NormalWritten ==
    ASSUME HeadSafe(queue, outgoing), DOMAIN queue' = Queues, outgoing' = outgoing,
           queue'["priority"] = queue["priority"],
           \/ outgoing.st = "IDLE"
           \/ HeadWaits(queue, "normal") => HeadWaits(queue', "normal")
    PROVE  SafeAfter
<1>1. RingTyped(queue') /\ StaysInLine
  BY DEF HeadSafe, RingTyped, PriorityOK, StaysInLine
<1>2. HeadWaits(queue, "priority") => HeadWaits(queue', "priority")
  BY DEF HeadWaits
<1>3. HeadSafe(queue', outgoing')
  BY <1>1, <1>2 DEF HeadSafe, OutgoingType, Queues
<1> QED
  BY <1>1, <1>3 DEF SafeAfter

\* A task that has found a slot free does not write over the message under way.
CheckedApart ==
    task.pc = "checked" /\ outgoing.st # "IDLE" /\ outgoing.of = "normal"
        => task.slot # queue["normal"].read

\* A slot of the normal ring that does not hold its head is written.
LEMMA HeadKept ==
    ASSUME RingOK(queue), NEW i \in Slots("normal"), NEW z \in SlotType, NEW w \in Slots("normal"),
           queue' \in {Marked(queue, i, z), Written(queue, i, z, w)},
           i # queue["normal"].read
    PROVE  /\ DOMAIN queue' = Queues
           /\ queue'["priority"] = queue["priority"]
           /\ HeadWaits(queue, "normal") => HeadWaits(queue', "normal")
<1> DEFINE n == queue["normal"]
<1>1. n.slot \in [Slots("normal") -> SlotType] /\ n.read \in Slots("normal")
  BY DEF RingOK
<1>2. /\ DOMAIN queue' = Queues /\ queue'["priority"] = queue["priority"]
      /\ queue'["normal"].read = n.read
  BY DEF RingOK, Marked, Written, Queues
<1>3. queue'["normal"].slot = [n.slot EXCEPT ![i] = z]
  BY RingMarked, RingWritten
<1> QED
  BY <1>1, <1>2, <1>3 DEF HeadWaits

LEMMA TaskSafe ==
    ASSUME RaceInv, CheckedApart, HeadSafe(queue, outgoing),
           NewReserves \/ NewAdvances \/ HeartbeatInterrupt
    PROVE  SafeAfter
<1>1. RingOK(queue) /\ DOMAIN queue = Queues /\ outgoing' = outgoing
  BY DEF RaceInv, RingOK, NewReserves, NewAdvances, HeartbeatInterrupt
<1>2. HeadWaits(queue, "normal") <=> SlotState("normal", queue["normal"].read) = QUEUED
  BY DEF HeadWaits, SlotState
<1>3. CASE NewReserves
  <2> DEFINE i == task.slot
             z == [queue["normal"].slot[i] EXCEPT !.d = SET]
  <2>1. i \in Slots("normal") /\ queue["normal"].slot[i] \in SlotType
    BY DEF RaceInv, RingOK
  <2>2. z \in SlotType
    BY <2>1, Numbers DEF SlotType
  <2>3. queue' = Marked(queue, i, z)
    BY <1>3 DEF NewReserves, Marked
  <2> HIDE DEF z
  <2>4. CASE i # queue["normal"].read
    <3>1. queue["normal"].write \in Slots("normal")
      BY <1>1 DEF RingOK
    <3> QED
      BY <1>1, <2>1, <2>2, <2>3, <2>4, <3>1, HeadKept, NormalWritten
  <2>5. CASE i = queue["normal"].read
    <3>1. ~(outgoing.st # "IDLE" /\ outgoing.of = "normal")
      BY <1>3, <2>5 DEF CheckedApart, NewReserves
    <3>2. queue'["priority"] = queue["priority"] /\ DOMAIN queue' = Queues
      BY <1>1, <2>3 DEF Marked, Queues
    <3>3. RingTyped(queue') /\ StaysInLine
      BY <3>2 DEF HeadSafe, RingTyped, PriorityOK, StaysInLine
    <3>4. HeadSafe(queue', outgoing')
      BY <1>1, <3>1, <3>2, <3>3 DEF HeadSafe, HeadWaits, OutgoingType, Queues
    <3> QED
      BY <3>3, <3>4 DEF SafeAfter
  <2> QED
    BY <2>4, <2>5
<1>4. CASE NewAdvances
  <2>1. PICK d \in Queued(task.msg) :
            queue' = Written(queue, task.slot, [d |-> d, msg |-> task.msg],
                             NextItem("normal", task.slot))
    BY <1>4 DEF NewAdvances, Written
  <2> DEFINE i == task.slot
             z == [d |-> d, msg |-> task.msg]
  <2>2. /\ i \in Slots("normal") /\ NextItem("normal", i) \in Slots("normal")
        /\ SlotState("normal", i) = SET
    BY <1>4, NextSlot DEF NewAdvances, RaceInv
  <2>3. z \in SlotType
    BY <1>4, <2>1, Numbers DEF SlotType, Queued, NewAdvances, RaceInv
  <2> HIDE DEF z
  <2>4. CASE i # queue["normal"].read
    BY <1>1, <2>1, <2>2, <2>3, <2>4, HeadKept, NormalWritten DEF z
  <2>5. CASE i = queue["normal"].read
    <3>1. ~HeadWaits(queue, "normal")
      BY <1>2, <2>2, <2>5, Numbers
    <3>2. queue'["priority"] = queue["priority"] /\ DOMAIN queue' = Queues
      BY <1>1, <2>1 DEF Written, Queues
    <3> QED
      BY <1>1, <3>1, <3>2, NormalWritten
  <2> QED
    BY <2>4, <2>5
<1>5. CASE HeartbeatInterrupt
  <2> DEFINE i == queue["normal"].write
             z == [d |-> QUEUED, msg |-> Heartbeat]
  <2>1. CASE SlotState("normal", i) = IDLE
    <3>1. i \in Slots("normal") /\ NextItem("normal", i) \in Slots("normal")
      BY NextSlot DEF RaceInv, RingOK
    <3>2. z \in SlotType
      BY Numbers, MessageTypes DEF SlotType
    <3>3. queue' = Written(queue, i, z, NextItem("normal", i))
      BY <1>5, <2>1 DEF HeartbeatInterrupt, Fill, Written
    <3> HIDE DEF z
    <3>4. CASE i # queue["normal"].read
      BY <1>1, <3>1, <3>2, <3>3, <3>4, HeadKept, NormalWritten
    <3>5. CASE i = queue["normal"].read
      <4>1. ~HeadWaits(queue, "normal")
        BY <1>2, <2>1, <3>5, Numbers
      <4>2. queue'["priority"] = queue["priority"] /\ DOMAIN queue' = Queues
        BY <1>1, <3>3 DEF Written, Queues
      <4> QED
        BY <1>1, <4>1, <4>2, NormalWritten
    <3> QED
      BY <3>4, <3>5
  <2>2. CASE SlotState("normal", i) # IDLE
    <3>1. queue' = queue
      BY <1>5, <2>2 DEF HeartbeatInterrupt
    <3> QED
      BY <1>1, <3>1, NormalWritten
  <2> QED
    BY <2>1, <2>2
<1> QED
  BY <1>3, <1>4, <1>5

Turning(k) == k.pc \in {"scanning", "comparing"}

\* No message is under way while the normal queue is searched.
ScanIdle == Turning(task) => outgoing.st = "IDLE"

LEMMA ScanSafe ==
    ASSUME RingOK(queue), ScanIdle, HeadSafe(queue, outgoing), NEW win \in BOOLEAN, ScanNormal(win)
    PROVE  SafeAfter
<1>1. \/ HeadWaits(queue, "normal") /\ Sent(queue, Picked("normal"), win)
      \/ queue' = Drop(queue, "normal") /\ outgoing' = outgoing
      \/ queue' = queue /\ outgoing' = outgoing
  BY DEF ScanNormal, HeadWaits, SlotState
<1>2. outgoing.st = "IDLE" /\ Stands(queue) /\ DOMAIN queue = Queues
  BY QueueStands DEF ScanIdle, ScanNormal, Turning, HeadSafe, RingOK
<1>3. CASE HeadWaits(queue, "normal") /\ Sent(queue, Picked("normal"), win)
  <2>1. HeadSafe(queue, Picked("normal")) /\ Picked("normal").st # "IDLE"
    BY <1>3, PickedSafe DEF HeadSafe, Queues
  <2> QED
    BY <1>2, <1>3, <2>1, SentSafe
<1>4. CASE queue' = Drop(queue, "normal") /\ outgoing' = outgoing
  <2>1. DOMAIN queue' = Queues /\ queue'["priority"] = queue["priority"]
    BY <1>2, <1>4 DEF Drop, Queues
  <2> QED
    BY <1>2, <1>4, <2>1, NormalWritten
<1>5. CASE queue' = queue /\ outgoing' = outgoing
  BY <1>2, <1>5, NormalWritten
<1> QED
  BY <1>1, <1>3, <1>4, <1>5

LEMMA SafeStep ==
    ASSUME RaceInv, ScanIdle, CheckedApart, HeadSafe(queue, outgoing), [RevealNext]_queueVars
    PROVE  SafeAfter
<1>1. DOMAIN queue = Queues /\ RingOK(queue) /\ RingTyped(queue)
  BY DEF HeadSafe, RingTyped, RaceInv
<1>2. CASE NewChecks \/ NodeLost \/ UNCHANGED queueVars
  BY <1>1, <1>2, NormalWritten DEF NewChecks, NodeLost, queueVars
<1>3. CASE NewReserves \/ NewAdvances \/ HeartbeatInterrupt
  BY <1>3, TaskSafe
<1>4. CASE PriorityRequest
  <2>1. RingTyped(queue') /\ StaysInLine /\ (HeadQueued(queue) => HeadQueued(queue'))
    BY <1>1, <1>4, RequestRing DEF StaysInLine
  <2>2. outgoing' = outgoing
    BY <1>4 DEF PriorityRequest
  <2>3. queue'["normal"] = queue["normal"]
    BY <1>1, <1>4 DEF PriorityRequest, Fill, Queues
  <2>4. HeadSafe(queue', outgoing')
    BY <2>1, <2>2, <2>3 DEF HeadSafe, HeadQueued, HeadWaits, OutgoingType, Queues
  <2> QED
    BY <2>1, <2>4 DEF SafeAfter
<1>5. CASE HandlerIncoming
  <2>1. \/ outgoing.st = "TIMING" /\ queue' = Drop(queue, outgoing.of) /\ outgoing' = NoMessage
        \/ queue' = queue /\ outgoing' = outgoing
    BY <1>5 DEF HandlerIncoming, Incoming
  <2> QED
    BY <1>1, <2>1, QueueStands, DropSafe, NormalWritten
<1>6. CASE HandlerOutgoing
  BY <1>1, <1>6, OutgoingSafe DEF HandlerOutgoing
<1>7. CASE ScanHead
  BY <1>1, <1>7, ScanSafe DEF ScanHead
<1>8. CASE ScanCompares
  <2>1. queue'["priority"] = queue["priority"] /\ DOMAIN queue' = Queues /\ outgoing' = outgoing
    BY <1>1, <1>8 DEF ScanCompares, Skipped, Queues
  <2>2. outgoing.st = "IDLE"
    BY <1>8 DEF ScanIdle, ScanCompares, Turning
  <2> QED
    BY <2>1, <2>2, NormalWritten
<1> QED
  BY <1>2, <1>3, <1>4, <1>5, <1>6, <1>7, <1>8 DEF RevealNext

LEMMA CheckedStep ==
    ASSUME RaceInv, CheckedApart, HeadSafe(queue, outgoing), [RevealNext]_queueVars
    PROVE  CheckedApart'
<1>1. NoTask.pc = "free"
  BY DEF NoTask
<1>2. \A s : [task EXCEPT !.pc = s].pc = s
  BY DEF RaceInv
<1>3. CASE NewChecks
  <2>1. /\ task'.slot = queue["normal"].write /\ queue' = queue /\ outgoing' = outgoing
        /\ SlotState("normal", queue["normal"].write) = IDLE
    BY <1>3 DEF NewChecks
  <2> QED
    BY <2>1, Numbers DEF CheckedApart, HeadSafe, HeadWaits, SlotState
<1>4. CASE PriorityRequest \/ HeartbeatInterrupt \/ NodeLost \/ UNCHANGED queueVars
  <2>1. DOMAIN queue = Queues
    BY DEF RaceInv, RingOK
  <2>2. task' = task /\ outgoing' = outgoing
    BY <1>4 DEF PriorityRequest, HeartbeatInterrupt, NodeLost, queueVars
  <2>3. queue'["normal"].read = queue["normal"].read
    <3>1. CASE PriorityRequest
      BY <2>1, <3>1 DEF PriorityRequest, Fill, Queues
    <3>2. CASE HeartbeatInterrupt
      BY <2>1, <3>2 DEF HeartbeatInterrupt, Fill, Queues, RaceInv, RingOK
    <3>3. CASE NodeLost \/ UNCHANGED queueVars
      BY <3>3 DEF NodeLost, queueVars
    <3> QED
      BY <1>4, <3>1, <3>2, <3>3
  <2> QED
    BY <2>2, <2>3 DEF CheckedApart
<1>5. CASE NewReserves \/ NewAdvances \/ ScanHead \/ ScanCompares
  <2>1. task'.pc # "checked"
    BY <1>1, <1>2, <1>5
       DEF NewReserves, NewAdvances, ScanHead, ScanNormal, ScanGoesOn, ScanCompares
  <2> QED
    BY <2>1 DEF CheckedApart
<1>6. CASE HandlerIncoming \/ HandlerOutgoing
  <2>1. task.pc = "free" /\ task' \in {task, [task EXCEPT !.pc = "scanning"]}
    BY <1>6 DEF HandlerIncoming, Incoming, HandlerOutgoing, Outgoing
  <2>2. task'.pc # "checked"
    BY <1>2, <2>1
  <2> QED
    BY <2>2 DEF CheckedApart
<1> QED
  BY <1>3, <1>4, <1>5, <1>6 DEF RevealNext

\* What is left of the state has its types.
RestTyped ==
    /\ acks \in 0..(AckFifo - 1)
    /\ nodes \in SUBSET Nodes
    /\ tick \in [phase : {"incoming", "outgoing"}, beat : BOOLEAN]

LEMMA RestStep == RestTyped /\ [RevealNext]_queueVars => RestTyped'
<1> SUFFICES ASSUME RestTyped, [RevealNext]_queueVars PROVE RestTyped'
  OBVIOUS
<1> DEFINE phased(s) == [tick EXCEPT !.phase = s]
           ended == [tick EXCEPT !.phase = "incoming", !.beat = FALSE]
           beaten == [tick EXCEPT !.beat = TRUE]
           TickType == [phase : {"incoming", "outgoing"}, beat : BOOLEAN]
<1>1. AckFifo \in Nat /\ AckFifo > 0
  BY RevealConstants
<1>2. phased("outgoing") \in TickType /\ ended \in TickType /\ beaten \in TickType
  BY DEF RestTyped
<1>3. CASE NewChecks \/ NewReserves \/ NewAdvances \/ PriorityRequest \/ UNCHANGED queueVars
  BY <1>3 DEF NewChecks, NewReserves, NewAdvances, PriorityRequest, queueVars, RestTyped
<1>4. CASE HeartbeatInterrupt \/ NodeLost
  BY <1>2, <1>4 DEF HeartbeatInterrupt, NodeLost, RestTyped
<1>5. CASE HandlerIncoming
  <2>1. PICK kind \in {"nothing", "answer", "command", "wake-up", "other"},
             from \in Nodes, woken \in Nodes : Incoming(kind, from, woken)
    BY <1>5 DEF HandlerIncoming
  <2>2. acks' \in 0..(AckFifo - 1)
    BY <1>1, <2>1 DEF Incoming, AckOwed, RestTyped
  <2>3. nodes' \in SUBSET Nodes
    BY <2>1 DEF Incoming, RestTyped
  <2> QED
    BY <1>2, <2>1, <2>2, <2>3 DEF Incoming, RestTyped
<1>6. CASE HandlerOutgoing
  <2>1. acks' \in {acks, acks - 1} /\ (acks' # acks => acks > 0)
    BY <1>6 DEF HandlerOutgoing, Outgoing
  <2>2. nodes' = nodes \/ \E lost \in GivenUp : nodes' = nodes \ lost
    BY <1>6 DEF HandlerOutgoing, Outgoing
  <2>3. tick' \in {tick, ended}
    BY <1>6 DEF HandlerOutgoing, Outgoing, HandlerEnds
  <2> HIDE DEF ended
  <2>4. acks' \in 0..(AckFifo - 1)
    BY <1>1, <2>1 DEF RestTyped
  <2> QED
    BY <1>2, <2>2, <2>3, <2>4 DEF RestTyped
<1>7. CASE ScanHead \/ ScanCompares
  <2>1. acks' = acks /\ nodes' = nodes
    BY <1>7 DEF ScanHead, ScanNormal, ScanCompares
  <2>2. tick' \in {tick, ended}
    BY <1>7 DEF ScanHead, ScanNormal, ScanCompares, ScanGoesOn, HandlerEnds
  <2> HIDE DEF ended
  <2> QED
    BY <1>2, <2>1, <2>2 DEF RestTyped
<1> QED
  BY <1>3, <1>4, <1>5, <1>6, <1>7 DEF RevealNext

LEMMA ScanIdleStep == RaceInv /\ ScanIdle /\ [RevealNext]_queueVars => ScanIdle'
<1> SUFFICES ASSUME RaceInv, ScanIdle, [RevealNext]_queueVars PROVE ScanIdle'
  OBVIOUS
<1>1. ~Turning(NoTask) /\ ~Turning([task EXCEPT !.pc = "reserved"])
  BY DEF NoTask, Turning, RaceInv
<1>2. CASE NewChecks
  BY <1>2 DEF NewChecks, ScanIdle, Turning
<1>3. CASE NewReserves \/ NewAdvances
  BY <1>1, <1>3 DEF NewReserves, NewAdvances, ScanIdle
<1>4. CASE PriorityRequest \/ HeartbeatInterrupt \/ NodeLost \/ UNCHANGED queueVars
  BY <1>4 DEF PriorityRequest, HeartbeatInterrupt, NodeLost, queueVars, ScanIdle
<1>5. CASE HandlerIncoming
  <2>1. task' = task /\ task.pc = "free"
    BY <1>5 DEF HandlerIncoming, Incoming
  <2> QED
    BY <2>1 DEF ScanIdle, Turning
<1>6. CASE HandlerOutgoing
  <2>1. task.pc = "free" /\ (task' = task \/ (outgoing.st = "IDLE" /\ UNCHANGED outgoing))
    BY <1>6 DEF HandlerOutgoing, Outgoing
  <2> QED
    BY <2>1 DEF ScanIdle, Turning
<1>7. CASE ScanHead
  <2>1. Turning(task) /\ (task' = NoTask \/ UNCHANGED outgoing)
    BY <1>7 DEF ScanHead, ScanNormal, Turning
  <2> QED
    BY <1>1, <2>1 DEF ScanIdle
<1>8. CASE ScanCompares
  <2>1. Turning(task) /\ UNCHANGED outgoing
    BY <1>8 DEF ScanCompares, Turning
  <2> QED
    BY <2>1 DEF ScanIdle
<1> QED
  BY <1>2, <1>3, <1>4, <1>5, <1>6, <1>7, <1>8 DEF RevealNext

QueueInv ==
    /\ RaceInv
    /\ ScanIdle
    /\ CheckedApart
    /\ HeadSafe(queue, outgoing)
    /\ RestTyped

LEMMA InitQueue == RevealInit => QueueInv /\ PriorityOK(queue)
<1> SUFFICES ASSUME RevealInit PROVE QueueInv /\ PriorityOK(queue)
  OBVIOUS
<1> DEFINE s == [i \in Places |-> [d |-> IDLE, msg |-> Blank]]
           p == queue["priority"]
<1>1. PrioritySize \in Nat /\ 0 \in Places /\ Slots("priority") = Places
  BY PriorityPlaces DEF Places
<1>2. s \in [Places -> SlotType]
  BY Freed DEF FreeSlot
<1>3. p = [slot |-> s, read |-> 0, write |-> 0] /\ DOMAIN queue = Queues
  BY <1>1 DEF RevealInit, Queues
<1>4. p \in RingType
  BY <1>1, <1>2, <1>3 DEF RingType
<1>5. \A i \in Places : ~InUse(p, i)
  BY <1>3 DEF InUse
<1>6. ASSUME NEW i \in Places PROVE ~(Ahead(p.read, i) < Ahead(p.read, p.write))
  <2>1. Ahead(0, 0) = 0 /\ Ahead(0, i) \in Places
    BY <1>1, AheadType
  <2> QED
    BY <1>1, <1>3, <2>1 DEF Places
<1>7. PriorityOK(queue) /\ HeadSafe(queue, outgoing) /\ ScanIdle /\ CheckedApart
  BY <1>3, <1>4, <1>5, <1>6, NoMessageType
     DEF HeadSafe, PriorityOK, RingTyped, Aligned, RevealInit, ScanIdle, CheckedApart
<1>8. RestTyped
  BY RevealConstants DEF RestTyped, RevealInit, Nodes
<1> QED
  BY <1>7, <1>8, InitRace DEF QueueInv

LEMMA QueueStep == QueueInv /\ [RevealNext]_queueVars => QueueInv'
BY RaceStep, ScanIdleStep, CheckedStep, SafeStep, RestStep DEF QueueInv, SafeAfter

THEOREM QueueInvariant == RevealSpec => []QueueInv
<1>1. QueueInv /\ [RevealNext]_queueVars => QueueInv'
  BY QueueStep
<1> QED
  BY <1>1, InitQueue, PTL DEF RevealSpec

LEMMA AlignedNow ==
    ASSUME RingTyped(queue)
    PROVE  (PriorityAligned <=> PriorityOK(queue)) /\ PriorityAligned \in BOOLEAN
BY AlignedMeans DEF PriorityAligned, RingTyped, PriorityOK

LEMMA AlignedNext ==
    ASSUME RingTyped(queue')
    PROVE  (PriorityAligned' <=> PriorityOK(queue')) /\ PriorityAligned' \in BOOLEAN
BY AlignedMeans DEF PriorityAligned, RingTyped, PriorityOK

\* A report to the board itself was first in line, or first in the normal
\* ring, and nothing else was.
LEMMA RefusesEmpty ==
    ASSUME PriorityOK(queue), ~PriorityOK(queue'), Refuses
    PROVE  /\ ~(OwnReports \subseteq OwnReports')
           /\ \A i \in Slots("priority") : queue'["priority"].slot[i].d = IDLE
<1>1. PICK q \in Passed, k \in Queues : Stands(q) /\ OwnHead(q, k) /\ queue' = DoubleDrop(q, k)
  BY DEF Refuses
<1>2. PriorityOK(q) /\ (k = "priority" => InUse(q["priority"], q["priority"].read))
  BY <1>1, QueuedInUse DEF Stands, OwnHead, HeadQueued
<1>3. \A i \in Places : queue'["priority"].slot[i].d = IDLE
  BY <1>1, <1>2, RefusedRing
<1> QED
  BY <1>1, <1>3, StrayLeaves, PriorityPlaces

(* Whatever the tasks ask for, the bus refuses and the peers answer, and   *)
(* for rings of any length: the search, the drops and the requests keep    *)
(* the indexes of the priority ring in line with its slots, and the second *)
(* drop of a refused report to the board itself takes them out of line     *)
(* only when it leaves the ring empty.                                     *)
THEOREM PriorityStaysInLine == RevealSpec => PriorityKeepsLine
<1>1. QueueInv /\ [RevealNext]_queueVars =>
          [PriorityAligned /\ ~PriorityAligned' =>
              /\ ~(OwnReports \subseteq OwnReports')
              /\ \A i \in Slots("priority") : queue'["priority"].slot[i].d = IDLE]_queueVars
  <2> SUFFICES ASSUME QueueInv, [RevealNext]_queueVars, PriorityAligned, ~PriorityAligned'
               PROVE  /\ ~(OwnReports \subseteq OwnReports')
                      /\ \A i \in Slots("priority") : queue'["priority"].slot[i].d = IDLE
    OBVIOUS
  <2>1. SafeAfter /\ RingTyped(queue)
    BY SafeStep DEF QueueInv, HeadSafe
  <2>2. PriorityOK(queue) /\ ~PriorityOK(queue')
    BY <2>1, AlignedNow, AlignedNext DEF SafeAfter, HeadSafe
  <2>3. Refuses
    BY <2>1, <2>2 DEF SafeAfter, StaysInLine
  <2> QED
    BY <2>2, <2>3, RefusesEmpty
<1> QED
  BY <1>1, QueueInvariant, PTL DEF RevealSpec, PriorityKeepsLine

LEMMA QueueTyped == QueueInv => RevealTypeOK
<1> SUFFICES ASSUME QueueInv PROVE RevealTypeOK
  OBVIOUS
<1>1. DOMAIN queue = Queues
  BY DEF QueueInv, RaceInv, RingOK
<1>2. ASSUME NEW k \in Queues
      PROVE  queue[k] \in [slot : [Slots(k) -> [d : 0..SET, msg : Messages]],
                           read : Slots(k), write : Slots(k)]
  <2>1. CASE k = "normal"
    BY <2>1 DEF QueueInv, RaceInv, RingOK, SlotType
  <2>2. CASE k = "priority"
    BY <2>2, PriorityPlaces DEF QueueInv, HeadSafe, RingTyped, RingType, SlotType
  <2> QED
    BY <2>1, <2>2 DEF Queues
<1>3. outgoing \in [st : {"IDLE", "SENDING", "TIMING"}, of : Queues, retry : 0..RetryTimes,
                    timeout : 0..AckTimeout, drop : BOOLEAN]
  BY DEF QueueInv, HeadSafe, OutgoingType
<1>4. task \in [pc : {"free", "checked", "reserved", "scanning", "comparing"},
                slot : Slots("normal"), msg : Messages]
  BY DEF QueueInv, RaceInv
<1>5. /\ acks \in 0..(AckFifo - 1) /\ nodes \subseteq Nodes
      /\ tick \in [phase : {"incoming", "outgoing"}, beat : BOOLEAN]
  BY DEF QueueInv, RestTyped
<1> QED
  BY <1>1, <1>2, <1>3, <1>4, <1>5 DEF RevealTypeOK

--------------------------------------------------------------------------------
(* The priority queue as a line: what its ring holds, in order.            *)

Count(p) ==
    IF p.read = p.write /\ InUse(p, p.read) THEN PrioritySize ELSE Ahead(p.read, p.write)
At(p, k) == (p.read + k) % PrioritySize
Line(p) == [k \in 1..Count(p) |-> EntryOf(p.slot[At(p, k - 1)])]
Entries == [msg : Messages, ready : BOOLEAN, left : 0..SET]

\* The slots in use are the first ones from the read index on.
LEMMA LineCounted ==
    ASSUME NEW p \in RingType, Aligned(p)
    PROVE  /\ Count(p) \in 0..PrioritySize
           /\ \A i \in Places : InUse(p, i) <=> Ahead(p.read, i) < Count(p)
<1>1. p.read \in Places /\ p.write \in Places /\ PrioritySize \in Nat
  BY PriorityPlaces DEF RingType
<1>2. \A i \in Places : Ahead(p.read, i) \in 0..(PrioritySize - 1)
  BY <1>1, AheadType DEF Places
<1>3. CASE p.read = p.write /\ InUse(p, p.read)
  <2>1. \A i \in Places : InUse(p, i)
    <3>1. ~(Ahead(p.read, p.read) < Ahead(p.read, p.read))
      BY <1>1, <1>2
    <3> QED
      BY <1>1, <1>3, <3>1 DEF Aligned
  <2>2. Count(p) = PrioritySize
    BY <1>3 DEF Count
  <2>3. \A i \in Places : Ahead(p.read, i) < PrioritySize
    BY <1>1, <1>2
  <2> QED
    BY <1>1, <2>1, <2>2, <2>3
<1>4. CASE ~(p.read = p.write /\ InUse(p, p.read))
  <2>1. Count(p) = Ahead(p.read, p.write)
    BY <1>4 DEF Count
  <2>2. Ahead(p.read, p.write) \in 0..PrioritySize
    BY <1>1, <1>2
  <2> QED
    BY <1>1, <1>4, <2>1, <2>2 DEF Aligned
<1> QED
  BY <1>3, <1>4

LEMMA AtType ==
    ASSUME NEW p \in RingType, NEW k \in Places
    PROVE  At(p, k) \in Places /\ Ahead(p.read, At(p, k)) = k
<1>1. p.read \in Places /\ k \in 0..PrioritySize /\ k < PrioritySize
  BY PriorityPlaces DEF RingType, Places
<1> QED
  BY <1>1, StepsOn DEF At

\* How many they are is all there is to know of which they are.
LEMMA CountIs ==
    ASSUME NEW p \in RingType, Aligned(p), NEW c \in 0..PrioritySize,
           \A i \in Places : InUse(p, i) <=> Ahead(p.read, i) < c
    PROVE  Count(p) = c
<1>1. PrioritySize \in Nat /\ Count(p) \in 0..PrioritySize
  BY LineCounted, PriorityPlaces
<1>2. \A i \in Places : InUse(p, i) <=> Ahead(p.read, i) < Count(p)
  BY LineCounted
<1>3. ASSUME NEW k \in Places PROVE k < c <=> k < Count(p)
  <2>1. At(p, k) \in Places /\ Ahead(p.read, At(p, k)) = k
    BY AtType
  <2> QED
    BY <1>2, <2>1
<1>4. ~(Count(p) < c)
  <2>1. Count(p) < c => Count(p) \in Places
    BY <1>1 DEF Places
  <2> QED
    BY <1>1, <1>3, <2>1
<1>5. ~(c < Count(p))
  <2>1. c < Count(p) => c \in Places
    BY <1>1 DEF Places
  <2> QED
    BY <1>1, <1>3, <2>1
<1> QED
  BY <1>1, <1>4, <1>5

LEMMA EntryType ==
    ASSUME NEW z \in SlotType
    PROVE  EntryOf(z) \in Entries
<1>1. z.msg \in Messages /\ z.d \in 0..SET
  BY DEF SlotType
<1>2. Pending(z.d) => z.d - TIMEOUT \in 0..SET
  BY <1>1, Numbers DEF Pending, TIMEOUT
<1>3. 0 \in 0..SET
  BY Numbers
<1> QED
  BY <1>1, <1>2, <1>3 DEF EntryOf, Entries

LEMMA LineType ==
    ASSUME NEW p \in RingType, Aligned(p)
    PROVE  /\ Line(p) \in Seq(Entries) /\ Len(Line(p)) = Count(p)
           /\ \A k \in 1..Count(p) : Line(p)[k] = EntryOf(p.slot[At(p, k - 1)])
<1>1. Count(p) \in 0..PrioritySize /\ PrioritySize \in Nat
  BY LineCounted, PriorityPlaces
<1>2. ASSUME NEW k \in 1..Count(p)
      PROVE  EntryOf(p.slot[At(p, k - 1)]) \in Entries
  <2>1. k - 1 \in Places
    BY <1>1 DEF Places
  <2>2. At(p, k - 1) \in Places
    BY <2>1, AtType
  <2>3. p.slot[At(p, k - 1)] \in SlotType
    BY <2>2 DEF RingType
  <2> QED
    BY <2>3, EntryType
<1>3. Line(p) \in [1..Count(p) -> Entries]
  BY <1>2 DEF Line
<1>4. Line(p) \in Seq(Entries)
  <2>1. Count(p) \in Nat
    BY <1>1
  <2> QED
    BY <1>3, <2>1, SeqDef
<1>5. Len(Line(p)) = Count(p)
  <2>1. DOMAIN Line(p) = 1..Len(Line(p)) /\ Len(Line(p)) \in Nat
    BY <1>4, LenProperties
  <2>2. DOMAIN Line(p) = 1..Count(p)
    BY DEF Line
  <2> QED
    BY <1>1, <2>1, <2>2
<1>6. \A k \in 1..Count(p) : Line(p)[k] = EntryOf(p.slot[At(p, k - 1)])
  BY DEF Line
<1> QED
  BY <1>4, <1>5, <1>6

\* The mapping in these words.
LEMMA LineReads ==
    ASSUME NEW p \in RingType, Aligned(p)
    PROVE  LET n == IF p.read = p.write /\ p.slot[p.read].d # IDLE THEN PrioritySize
                    ELSE (PrioritySize + p.write - p.read) % PrioritySize
           IN  [i \in 1..n |-> EntryOf(p.slot[(p.read + i - 1) % PrioritySize])] = Line(p)
<1> DEFINE n == IF p.read = p.write /\ p.slot[p.read].d # IDLE THEN PrioritySize
                ELSE (PrioritySize + p.write - p.read) % PrioritySize
<1>1. p.read \in Places /\ p.write \in Places
  BY DEF RingType
<1>2. Ahead(p.read, p.write) = (PrioritySize + p.write - p.read) % PrioritySize
  BY <1>1, AheadType
<1>3. n = Count(p)
  BY <1>2 DEF Count, InUse
<1>4. p.read \in Nat /\ Count(p) \in Nat
  BY <1>1, LineCounted, PriorityPlaces DEF Places
<1> HIDE DEF n
<1>5. ASSUME NEW i \in 1..Count(p)
      PROVE  (p.read + i - 1) % PrioritySize = At(p, i - 1)
  <2>1. p.read + i - 1 = p.read + (i - 1)
    BY <1>4
  <2> QED
    BY <2>1 DEF At
<1> QED
  BY <1>3, <1>5 DEF Line, n

\* One more run of the handler.
OlderLine(s) == [i \in 1..Len(s) |-> Urgents!Older(s[i])]

LEMMA OlderType ==
    ASSUME NEW e \in Entries
    PROVE  /\ Urgents!Older(e) \in Entries
           /\ Urgents!Older(e).msg = e.msg /\ Urgents!Older(e).ready = e.ready
           /\ Urgents!Older(e).left = IF e.ready \/ e.left = 0 THEN e.left ELSE e.left - 1
<1>1. CASE e.ready \/ e.left = 0
  BY <1>1 DEF Urgents!Older
<1>2. CASE ~(e.ready \/ e.left = 0)
  <2>1. e.left - 1 \in 0..SET
    BY <1>2, Numbers DEF Entries
  <2>2. Urgents!Older(e) = [e EXCEPT !.left = e.left - 1]
    BY <1>2 DEF Urgents!Older
  <2> QED
    BY <1>2, <2>1, <2>2 DEF Entries
<1> QED
  BY <1>1, <1>2

LEMMA SameEntry ==
    ASSUME NEW e \in Entries, NEW f \in Entries,
           e.msg = f.msg, e.ready = f.ready, e.left = f.left
    PROVE  e = f
BY DEF Entries

LEMMA EntryFields ==
    ASSUME NEW z
    PROVE  /\ EntryOf(z).msg = z.msg /\ EntryOf(z).ready = (z.d = QUEUED)
           /\ EntryOf(z).left = IF Pending(z.d) THEN z.d - TIMEOUT ELSE 0
BY DEF EntryOf

LEMMA OlderEntry ==
    ASSUME NEW z \in SlotType
    PROVE  EntryOf(AgedSlot(z)) = Urgents!Older(EntryOf(z))
<1>1. z.d \in Nat
  BY Numbers DEF SlotType
<1>2. CASE Pending(z.d)
  <2> DEFINE e == EntryOf(AgedSlot(z))
             f == Urgents!Older(EntryOf(z))
  <2>1. z.d > 2 /\ z.d # QUEUED /\ z.d - 1 # QUEUED /\ TIMEOUT = 2
    BY <1>1, <1>2 DEF Pending, TIMEOUT, QUEUED
  <2>2. AgedSlot(z).d = z.d - 1 /\ AgedSlot(z).msg = z.msg
    BY <1>2 DEF AgedSlot, SlotType
  <2>3. EntryOf(z).msg = z.msg /\ ~EntryOf(z).ready /\ EntryOf(z).left = z.d - 2
    BY <1>2, <2>1, EntryFields
  <2>4. e.msg = z.msg /\ ~e.ready /\ e.left = IF z.d - 1 > 2 THEN (z.d - 1) - 2 ELSE 0
    BY <2>1, <2>2, EntryFields DEF Pending
  <2>5. e \in Entries /\ EntryOf(z) \in Entries
    BY AgedType, EntryType
  <2>6. f \in Entries /\ f.msg = z.msg /\ f.ready = EntryOf(z).ready
        /\ f.left = IF z.d - 2 = 0 THEN z.d - 2 ELSE (z.d - 2) - 1
    BY <2>3, <2>5, OlderType
  <2> HIDE DEF e, f
  <2>7. e.left = f.left
    BY <1>1, <2>1, <2>4, <2>6
  <2>8. e.ready = f.ready
    BY <2>3, <2>4, <2>5, <2>6 DEF Entries
  <2>9. e = f
    BY <2>4, <2>5, <2>6, <2>7, <2>8, SameEntry
  <2> QED
    BY <2>9 DEF e, f
<1>3. CASE ~Pending(z.d)
  <2>1. AgedSlot(z) = z
    BY <1>3 DEF AgedSlot
  <2>2. EntryOf(z).left = 0
    BY <1>3 DEF EntryOf
  <2> QED
    BY <2>1, <2>2 DEF Urgents!Older
<1> QED
  BY <1>2, <1>3

LEMMA LineAged ==
    ASSUME NEW q, PriorityOK(q)
    PROVE  Line(Aged(q)["priority"]) = OlderLine(Line(q["priority"]))
<1> DEFINE p == q["priority"]
           t == Aged(q)["priority"]
<1>1. p \in RingType /\ Aligned(p) /\ p.slot \in [Places -> SlotType] /\ p.read \in Places
  BY DEF PriorityOK, RingTyped, RingType
<1>2. /\ t.slot = [i \in Places |-> AgedSlot(p.slot[i])]
      /\ t.read = p.read /\ t.write = p.write
  BY <1>1, PriorityPlaces DEF Aged, Queues, RingType
<1> HIDE DEF p, t
<1>3. \A i \in Places : /\ InUse(t, i) <=> InUse(p, i)
                        /\ EntryOf(t.slot[i]) = Urgents!Older(EntryOf(p.slot[i]))
  BY <1>1, <1>2, AgedType, OlderEntry DEF InUse
<1>4. Count(t) = Count(p)
  BY <1>1, <1>2, <1>3 DEF Count
<1>5. Count(p) \in 0..PrioritySize /\ PrioritySize \in Nat
  BY <1>1, LineCounted, PriorityPlaces
<1>6. Len(Line(p)) = Count(p) /\ \A k \in 1..Count(p) : Line(p)[k] = EntryOf(p.slot[At(p, k - 1)])
  BY <1>1, LineType
<1>7. ASSUME NEW k \in 1..Count(p)
      PROVE  EntryOf(t.slot[At(t, k - 1)]) = Urgents!Older(Line(p)[k])
  <2>1. k - 1 \in Places
    BY <1>5 DEF Places
  <2>2. At(p, k - 1) \in Places /\ At(t, k - 1) = At(p, k - 1)
    BY <1>1, <1>2, <2>1, AtType DEF At
  <2>3. Line(p)[k] = EntryOf(p.slot[At(p, k - 1)])
    BY <1>6
  <2> QED
    BY <1>3, <2>2, <2>3
<1>8. Line(t) = [k \in 1..Count(p) |-> EntryOf(t.slot[At(t, k - 1)])]
  BY <1>4 DEF Line
<1>9. OlderLine(Line(p)) = [k \in 1..Count(p) |-> Urgents!Older(Line(p)[k])]
  BY <1>6 DEF OlderLine
<1>10. Line(t) = OlderLine(Line(p))
  BY <1>7, <1>8, <1>9
<1> QED
  BY <1>10 DEF p, t

\* Those from the read index on are freed: the first in line leave.
LEMMA LineFreed ==
    ASSUME NEW p \in RingType, Aligned(p), NEW n \in 0..Count(p), NEW t, Aligned(t), Frees(p, t, n)
    PROVE  /\ Count(t) = Count(p) - n
           /\ Line(t) = SubSeq(Line(p), n + 1, Count(p))
<1> DEFINE r == p.read
           c == Count(p)
           L == Line(p)
           R == SubSeq(L, n + 1, c)
<1>1. PrioritySize \in Nat /\ r \in Places /\ c \in 0..PrioritySize /\ n \in 0..PrioritySize
  <2>1. PrioritySize \in Nat /\ r \in Places /\ c \in 0..PrioritySize
    BY LineCounted, PriorityPlaces DEF RingType
  <2> QED
    BY <2>1
<1>2. /\ t \in RingType /\ t.read = (r + n) % PrioritySize
      /\ \A i \in Places : t.slot[i] = IF Ahead(r, i) < n THEN FreeSlot ELSE p.slot[i]
  BY DEF Frees
<1>3. \A i \in Places : Ahead(r, i) \in 0..(PrioritySize - 1)
  BY <1>1, AheadType DEF Places
<1>4. \A i \in Places : InUse(t, i) <=> ~(Ahead(r, i) < n) /\ Ahead(r, i) < c
  <2>1. \A i \in Places : InUse(p, i) <=> Ahead(r, i) < c
    BY LineCounted
  <2> QED
    BY <1>2, <2>1 DEF InUse, FreeSlot
<1>5. ASSUME n < PrioritySize, NEW i \in Places
      PROVE  Ahead(t.read, i) = IF Ahead(r, i) >= n THEN Ahead(r, i) - n
                                ELSE PrioritySize - (n - Ahead(r, i))
  BY <1>1, <1>2, <1>5, StepsOn
<1>6. t.read \in Places /\ \A i \in Places : Ahead(t.read, i) \in 0..(PrioritySize - 1)
  <2>1. t.read \in Places
    BY <1>2 DEF RingType
  <2> QED
    BY <2>1, AheadType DEF Places
<1> HIDE DEF r, c
<1>7. c - n \in 0..PrioritySize /\ c \in Nat /\ n \in Nat /\ n <= c
  BY <1>1 DEF c
<1>8. \A i \in Places : InUse(t, i) <=> Ahead(t.read, i) < c - n
  <2> SUFFICES ASSUME NEW i \in Places PROVE InUse(t, i) <=> Ahead(t.read, i) < c - n
    OBVIOUS
  <2>1. Ahead(r, i) \in 0..(PrioritySize - 1) /\ Ahead(t.read, i) \in 0..(PrioritySize - 1)
    BY <1>3, <1>6
  <2>2. CASE n < PrioritySize
    <3>1. Ahead(t.read, i) = IF Ahead(r, i) >= n THEN Ahead(r, i) - n
                             ELSE PrioritySize - (n - Ahead(r, i))
      BY <1>5, <2>2
    <3> QED
      BY <1>1, <1>4, <1>7, <2>1, <3>1
  <2>3. CASE n >= PrioritySize
    <3>1. n = PrioritySize /\ c = PrioritySize
      BY <1>1, <1>7, <2>3
    <3> QED
      BY <1>1, <1>4, <2>1, <3>1
  <2> QED
    BY <1>1, <2>2, <2>3
<1>9. Count(t) = c - n
  BY <1>2, <1>7, <1>8, CountIs
<1>10. L \in Seq(Entries) /\ Len(L) = c /\ \A k \in 1..c : L[k] = EntryOf(p.slot[At(p, k - 1)])
  BY LineType DEF c
<1> HIDE DEF L
<1>11. /\ R \in Seq(Entries) /\ Len(R) = c - n
       /\ \A k \in 1..(c - n) : R[k] = L[n + k]
  <2>1. \A k \in (n + 1)..c : L[k] \in Entries
    <3>1. \A k \in 1..c : L[k] \in Entries
      BY <1>10, ElementOfSeq
    <3> QED
      BY <1>7, <3>1
  <2>2. n + 1 \in Int /\ c \in Int
    BY <1>7
  <2>3. /\ R \in Seq(Entries) /\ Len(R) = IF n + 1 <= c THEN c - (n + 1) + 1 ELSE 0
        /\ \A k \in 1..(c - (n + 1) + 1) : R[k] = L[(n + 1) + k - 1]
    BY <2>1, <2>2, SubSeqProperties
  <2>4. c - (n + 1) + 1 = c - n /\ (n + 1 > c => c - n = 0)
    BY <1>7
  <2>5. \A k \in 1..(c - n) : (n + 1) + k - 1 = n + k
    BY <1>7
  <2>6. Len(R) = c - n
    BY <1>7, <2>3, <2>4
  <2> HIDE DEF R
  <2> QED
    BY <2>3, <2>4, <2>5, <2>6
<1> HIDE DEF R
<1>12. /\ Line(t) \in Seq(Entries) /\ Len(Line(t)) = c - n
       /\ \A k \in 1..(c - n) : Line(t)[k] = EntryOf(t.slot[At(t, k - 1)])
  BY <1>2, <1>9, LineType
<1>13. ASSUME NEW k \in 1..(c - n)
       PROVE  Line(t)[k] = R[k]
  <2> DEFINE i == At(t, k - 1)
  <2>1. k \in Nat /\ k - 1 \in Places /\ k - 1 < c - n /\ n < PrioritySize
    BY <1>1, <1>7 DEF Places
  <2>2. i \in Places /\ Ahead(t.read, i) = k - 1
    BY <1>2, <2>1, AtType
  <2> HIDE DEF i
  <2>3. Ahead(r, i) = n + (k - 1)
    <3>1. Ahead(r, i) \in 0..(PrioritySize - 1)
      BY <1>3, <2>2
    <3>2. k - 1 = IF Ahead(r, i) >= n THEN Ahead(r, i) - n ELSE PrioritySize - (n - Ahead(r, i))
      BY <1>5, <2>1, <2>2
    <3> QED
      BY <1>1, <1>7, <2>1, <3>1, <3>2
  <2>4. i = At(p, (n + k) - 1)
    <3>1. (r + Ahead(r, i)) % PrioritySize = i
      BY <1>1, <2>2, AheadType
    <3>2. n + (k - 1) = (n + k) - 1
      BY <1>7, <2>1
    <3> QED
      BY <2>3, <3>1, <3>2 DEF At, r
  <2>5. t.slot[i] = p.slot[i]
    <3>1. ~(Ahead(r, i) < n)
      BY <1>7, <2>1, <2>3
    <3> QED
      BY <1>2, <2>2, <3>1
  <2>6. n + k \in 1..c
    BY <1>7
  <2>7. L[n + k] = EntryOf(p.slot[At(p, (n + k) - 1)])
    BY <1>10, <2>6
  <2> QED
    BY <1>11, <1>12, <2>4, <2>5, <2>7 DEF i
<1>14. Line(t) = R
  BY <1>11, <1>12, <1>13, SeqEqual
<1> QED
  BY <1>9, <1>14 DEF c, R, L


\* The slot at the write index is filled: one more at the end of the line.
LEMMA LineFilled ==
    ASSUME NEW p \in RingType, Aligned(p), NEW y \in SlotType, NEW t, Fills(p, t, y), Aligned(t)
    PROVE  Count(p) < PrioritySize /\ Line(t) = Append(Line(p), EntryOf(y))
<1> DEFINE r == p.read
           w == p.write
           c == Count(p)
           L == Line(p)
           M == Append(L, EntryOf(y))
<1>1. PrioritySize \in Nat /\ r \in Places /\ w \in Places /\ c \in 0..PrioritySize
  BY LineCounted, PriorityPlaces DEF RingType
<1>2. /\ t \in RingType /\ t.read = r /\ ~InUse(p, w)
      /\ \A i \in Places : t.slot[i] = IF i = w THEN y ELSE p.slot[i]
      /\ \A i \in Places : InUse(t, i) <=> InUse(p, i) \/ i = w
  BY DEF Fills
<1>3. \A i \in Places : Ahead(r, i) \in 0..(PrioritySize - 1)
  BY <1>1, AheadType DEF Places
<1>4. c = Ahead(r, w)
  <2>1. ~(r = w /\ InUse(p, r))
    BY <1>2
  <2> QED
    BY <2>1 DEF Count
<1>5. \A i \in Places : i = w <=> Ahead(r, i) = c
  <2>1. \A i \in Places : (r + Ahead(r, i)) % PrioritySize = i
    BY <1>1, AheadType
  <2> QED
    BY <1>1, <1>4, <2>1
<1>6. \A i \in Places : InUse(p, i) <=> Ahead(r, i) < c
  BY LineCounted
<1>7. Ahead(r, w) \in 0..(PrioritySize - 1)
  BY <1>1, <1>3
<1> HIDE DEF r, w, c
<1>8. c < PrioritySize /\ c \in Nat /\ c + 1 \in 0..PrioritySize
  BY <1>1, <1>4, <1>7
<1>9. \A i \in Places : InUse(t, i) <=> Ahead(r, i) < c + 1
  <2> SUFFICES ASSUME NEW i \in Places PROVE InUse(t, i) <=> Ahead(r, i) < c + 1
    OBVIOUS
  <2>1. InUse(t, i) <=> Ahead(r, i) < c \/ Ahead(r, i) = c
    BY <1>2, <1>5, <1>6
  <2>2. Ahead(r, i) \in Int
    BY <1>3
  <2> QED
    BY <1>8, <2>1, <2>2
<1>10. Count(t) = c + 1
  BY <1>2, <1>8, <1>9, CountIs
<1>11. L \in Seq(Entries) /\ Len(L) = c /\ \A k \in 1..c : L[k] = EntryOf(p.slot[At(p, k - 1)])
  BY LineType DEF c
<1> HIDE DEF L
<1>12. /\ M \in Seq(Entries) /\ Len(M) = c + 1
       /\ \A k \in 1..c : M[k] = L[k]
       /\ M[c + 1] = EntryOf(y)
  BY <1>11, EntryType, AppendProperties
<1> HIDE DEF M
<1>13. /\ Line(t) \in Seq(Entries) /\ Len(Line(t)) = c + 1
       /\ \A k \in 1..(c + 1) : Line(t)[k] = EntryOf(t.slot[At(t, k - 1)])
  BY <1>2, <1>10, LineType
<1>14. ASSUME NEW k \in 1..(c + 1)
       PROVE  Line(t)[k] = M[k]
  <2> DEFINE i == At(t, k - 1)
  <2>1. k - 1 \in Places /\ k \in Nat
    BY <1>1, <1>8 DEF Places
  <2>2. i \in Places /\ Ahead(r, i) = k - 1 /\ i = At(p, k - 1)
    BY <1>2, <2>1, AtType DEF At, r
  <2> HIDE DEF i
  <2>3. CASE k = c + 1
    <3>1. i = w
      BY <1>5, <1>8, <2>2, <2>3
    <3> QED
      BY <1>2, <1>12, <1>13, <2>2, <2>3, <3>1 DEF i
  <2>4. CASE k \in 1..c
    <3>1. i # w
      <4>1. k - 1 # c
        BY <1>8, <2>4
      <4> QED
        BY <1>5, <2>2, <4>1
    <3>2. t.slot[i] = p.slot[i]
      BY <1>2, <2>2, <3>1
    <3>3. Line(t)[k] = EntryOf(t.slot[i])
      BY <1>13 DEF i
    <3> QED
      BY <1>11, <1>12, <2>2, <2>4, <3>2, <3>3
  <2> QED
    BY <1>8, <2>3, <2>4
<1>15. Line(t) = M
  BY <1>12, <1>13, <1>14, SeqEqual
<1> QED
  BY <1>8, <1>15 DEF c, M, L

\* What the search passes are messages given up; where it ends there is none,
\* or one that is not given up; and it finds every message that is complete.
LEMMA SearchPasses ==
    ASSUME NEW q, PriorityOK(q)
    PROVE  LET p == q["priority"]
               n == PriorityStop(q)
           IN  /\ n \in 0..Count(p)
               /\ \A j \in 0..(n - 1) : p.slot[At(p, j)].d = TIMEOUT
               /\ n < Count(p) => p.slot[At(p, n)].d = QUEUED \/ Pending(p.slot[At(p, n)].d)
               /\ Urgent(q) <=> n < Count(p) /\ p.slot[At(p, n)].d = QUEUED
<1> DEFINE p == q["priority"]
           n == PriorityStop(q)
           c == Count(p)
           t == Searched(q)["priority"]
<1>1. /\ p \in RingType /\ Aligned(p) /\ p.slot \in [Places -> SlotType]
      /\ p.read \in Places /\ p.write \in Places
      /\ PrioritySize \in Nat /\ PrioritySize > 1 /\ c \in 0..PrioritySize
  BY LineCounted, PriorityPlaces DEF PriorityOK, RingTyped, RingType
<1>2. /\ n \in 0..PrioritySize /\ Ends(p, n) /\ \A j \in 0..(n - 1) : ~Ends(p, j)
      /\ \A i \in Places : Ahead(p.read, i) < n => InUse(p, i)
  BY StopFound, StopPasses DEF PriorityOK
<1>3. Urgent(q) <=> t.slot[t.read].d = QUEUED /\ (n = 0 \/ t.read # t.write)
  BY DEF Urgent
<1>4. Frees(p, t, n) /\ PriorityOK(Searched(q))
  BY SearchedFrees, SearchedRing DEF PriorityOK
<1>5. Aligned(t)
  BY <1>4 DEF PriorityOK
<1> HIDE DEF p, n, t, c
<1>6. n \in 0..c
  <2>1. ~(c < n)
    <3> SUFFICES ASSUME c < n PROVE FALSE
      OBVIOUS
    <3>1. c \in Places
      BY <1>1, <1>2 DEF Places
    <3>2. At(p, c) \in Places /\ Ahead(p.read, At(p, c)) = c
      BY <1>1, <3>1, AtType
    <3>3. InUse(p, At(p, c))
      BY <1>2, <3>2
    <3>4. Ahead(p.read, At(p, c)) < c
      BY <1>1, <3>2, <3>3, LineCounted DEF c
    <3> QED
      BY <1>1, <3>2, <3>4
  <2> QED
    BY <1>1, <1>2, <2>1
<1>7. ASSUME NEW j \in 0..(n - 1)
      PROVE  p.slot[At(p, j)].d = TIMEOUT
  <2>1. j \in Places /\ j < n
    BY <1>1, <1>2 DEF Places
  <2>2. At(p, j) \in Places /\ Ahead(p.read, At(p, j)) = j
    BY <1>1, <2>1, AtType
  <2>3. InUse(p, At(p, j))
    BY <1>2, <2>1, <2>2
  <2>4. ~Ends(p, j)
    BY <1>2
  <2>5. p.slot[At(p, j)].d # QUEUED /\ ~Pending(p.slot[At(p, j)].d)
    BY <2>4 DEF Ends, At
  <2>6. p.slot[At(p, j)].d \in Nat /\ p.slot[At(p, j)].d # IDLE
    <3>1. p.slot[At(p, j)] \in SlotType
      BY <1>1, <2>2
    <3> QED
      BY <2>3, <3>1, Numbers DEF SlotType, InUse
  <2> QED
    BY <2>5, <2>6 DEF Pending, TIMEOUT, QUEUED, IDLE
<1>8. ASSUME n < c
      PROVE  /\ At(p, n) \in Places /\ Ahead(p.read, At(p, n)) = n /\ InUse(p, At(p, n))
             /\ n > 0 => At(p, n) # p.write
  <2>1. n \in Places /\ n \in Nat
    BY <1>1, <1>2, <1>8 DEF Places
  <2>2. At(p, n) \in Places /\ Ahead(p.read, At(p, n)) = n
    BY <1>1, <2>1, AtType
  <2>3. InUse(p, At(p, n))
    BY <1>1, <1>8, <2>2, LineCounted DEF c
  <2>4. ASSUME n > 0 PROVE At(p, n) # p.write
    <3>1. CASE p.read = p.write /\ InUse(p, p.read)
      <4>1. Ahead(p.read, p.write) = 0
        BY <1>1, <3>1, AheadType
      <4> QED
        BY <2>1, <2>2, <2>4, <4>1
    <3>2. CASE ~(p.read = p.write /\ InUse(p, p.read))
      <4>1. Ahead(p.read, p.write) = c
        BY <3>2 DEF Count, c
      <4> QED
        BY <1>1, <1>8, <2>1, <2>2, <4>1
    <3> QED
      BY <3>1, <3>2
  <2> QED
    BY <2>2, <2>3, <2>4
<1>9. ASSUME n < c
      PROVE  p.slot[At(p, n)].d = QUEUED \/ Pending(p.slot[At(p, n)].d)
  <2>1. ~(At(p, n) = p.write /\ n > 0) /\ p.slot[At(p, n)].d # IDLE
    BY <1>8, <1>9 DEF InUse
  <2> QED
    BY <1>2, <2>1 DEF Ends, At
<1>10. t.read = At(p, n) /\ t.write = p.write /\ t \in RingType
  BY <1>4 DEF Frees, At
<1>11. n < c => t.slot[t.read] = p.slot[At(p, n)]
  <2>1. n < c => ~(Ahead(p.read, At(p, n)) < n)
    BY <1>1, <1>2, <1>8
  <2> QED
    BY <1>4, <1>8, <1>10, <2>1 DEF Frees
<1>12. t.slot[t.read].d = QUEUED => n < c
  <2> SUFFICES ASSUME t.slot[t.read].d = QUEUED PROVE n < c
    OBVIOUS
  <2>1. t.read \in Places /\ InUse(t, t.read)
    BY <1>10, Numbers DEF RingType, InUse
  <2>2. Ahead(t.read, t.read) = 0
    BY <2>1, AheadType
  <2>3. 0 < Count(t)
    BY <1>5, <1>10, <2>1, <2>2, LineCounted
  <2>4. Count(t) = c - n
    BY <1>1, <1>4, <1>5, <1>6, LineFreed DEF c
  <2> QED
    BY <1>1, <1>2, <2>3, <2>4
<1>13. Urgent(q) <=> n < c /\ p.slot[At(p, n)].d = QUEUED
  <2>1. n = 0 \/ n > 0
    BY <1>1, <1>2
  <2> QED
    BY <1>3, <1>8, <1>10, <1>11, <1>12, <2>1
<1> QED
  BY <1>6, <1>7, <1>9, <1>13 DEF p, n, c

\* The same of the line: what the search passes and where it ends.
LEMMA SearchLine ==
    ASSUME NEW q, PriorityOK(q)
    PROVE  LET L == Line(q["priority"])
               n == PriorityStop(q)
           IN  /\ n \in 0..Len(L)
               /\ \A i \in 1..n : Urgents!GivenUp(L[i])
               /\ n < Len(L) => ~Urgents!GivenUp(L[n + 1])
               /\ Urgent(q) <=> n < Len(L) /\ L[n + 1].ready
               /\ Line(Searched(q)["priority"]) = SubSeq(L, n + 1, Len(L))
<1> DEFINE p == q["priority"]
           n == PriorityStop(q)
           c == Count(p)
           L == Line(p)
<1>1. p \in RingType /\ Aligned(p) /\ PriorityOK(Searched(q))
  BY SearchedRing DEF PriorityOK, RingTyped
<1>2. c \in 0..PrioritySize /\ PrioritySize \in Nat
  BY <1>1, LineCounted, PriorityPlaces
<1>3. Len(L) = c /\ \A k \in 1..c : L[k] = EntryOf(p.slot[At(p, k - 1)])
  BY <1>1, LineType
<1>4. /\ n \in 0..c
      /\ \A j \in 0..(n - 1) : p.slot[At(p, j)].d = TIMEOUT
      /\ n < c => p.slot[At(p, n)].d = QUEUED \/ Pending(p.slot[At(p, n)].d)
      /\ Urgent(q) <=> n < c /\ p.slot[At(p, n)].d = QUEUED
  BY SearchPasses
<1>5. Line(Searched(q)["priority"]) = SubSeq(L, n + 1, c)
  <2>1. Frees(p, Searched(q)["priority"], n)
    BY SearchedFrees DEF PriorityOK
  <2> QED
    BY <1>1, <1>4, <2>1, LineFreed DEF PriorityOK, RingTyped
<1> HIDE DEF p, n, c, L
<1>6. ASSUME NEW i \in 1..n PROVE Urgents!GivenUp(L[i])
  <2>1. i - 1 \in 0..(n - 1) /\ i \in 1..c
    BY <1>2, <1>4
  <2>2. p.slot[At(p, i - 1)].d = TIMEOUT /\ L[i] = EntryOf(p.slot[At(p, i - 1)])
    BY <1>3, <1>4, <2>1
  <2> DEFINE z == p.slot[At(p, i - 1)]
  <2> HIDE DEF z
  <2>3. z.d = 2 /\ L[i] = EntryOf(z)
    BY <2>2 DEF z, TIMEOUT
  <2>4. ~(z.d = QUEUED) /\ ~Pending(z.d)
    BY <2>3 DEF QUEUED, Pending, TIMEOUT
  <2>5. ~L[i].ready /\ L[i].left = 0
    BY <2>3, <2>4, EntryFields
  <2> QED
    BY <2>5 DEF Urgents!GivenUp
<1>7. ASSUME n < c
      PROVE  ~Urgents!GivenUp(L[n + 1]) /\ (L[n + 1].ready <=> p.slot[At(p, n)].d = QUEUED)
  <2>1. n + 1 \in 1..c /\ (n + 1) - 1 = n
    BY <1>2, <1>4, <1>7
  <2>2. L[n + 1] = EntryOf(p.slot[At(p, n)])
    BY <1>3, <2>1
  <2>3. L[n + 1].ready <=> p.slot[At(p, n)].d = QUEUED
    BY <2>2, EntryFields
  <2>4. CASE Pending(p.slot[At(p, n)].d)
    <3>1. At(p, n) \in Places
      <4>1. n \in Places
        BY <1>2, <1>4, <1>7 DEF Places
      <4> QED
        BY <1>1, <4>1, AtType
    <3>2. p.slot[At(p, n)] \in SlotType
      BY <1>1, <3>1 DEF RingType
    <3>3. p.slot[At(p, n)].d \in Nat
      BY <3>2, Numbers DEF SlotType
    <3>4. L[n + 1].left = p.slot[At(p, n)].d - TIMEOUT
      BY <2>2, <2>4, EntryFields
    <3>5. L[n + 1].left # 0
      BY <2>4, <3>3, <3>4 DEF Pending, TIMEOUT
    <3> QED
      BY <2>3, <3>5 DEF Urgents!GivenUp
  <2>5. CASE p.slot[At(p, n)].d = QUEUED
    BY <2>3, <2>5 DEF Urgents!GivenUp
  <2> QED
    BY <1>4, <1>7, <2>3, <2>4, <2>5
<1>8. Urgent(q) <=> n < c /\ L[n + 1].ready
  BY <1>4, <1>7
<1> QED
  BY <1>3, <1>4, <1>5, <1>6, <1>7, <1>8 DEF p, n, c, L

\* Its head leaves a ring in line, in use or not.
LEMMA DropLine ==
    ASSUME NEW q, PriorityOK(q), InUse(q["priority"], q["priority"].read)
    PROVE  LET L == Line(q["priority"])
           IN  /\ L # <<>>
               /\ Line(Drop(q, "priority")["priority"]) = Tail(L)
<1> DEFINE p == q["priority"]
           t == Drop(q, "priority")["priority"]
           L == Line(p)
<1>1. p \in RingType /\ Aligned(p) /\ p.read \in Places /\ InUse(p, p.read)
  BY DEF PriorityOK, RingTyped, RingType
<1>2. PriorityOK(Drop(q, "priority"))
  BY <1>1, DropRing DEF Queues
<1>3. Frees(p, t, 1) /\ Aligned(t)
  BY <1>2, DropFrees DEF PriorityOK
<1> HIDE DEF t, p
<1>4. Count(p) \in 0..PrioritySize /\ PrioritySize \in Nat /\ 0 < Count(p)
  <2>1. Ahead(p.read, p.read) = 0
    BY <1>1, AheadType
  <2> QED
    BY <1>1, <2>1, LineCounted, PriorityPlaces
<1>5. 1 \in 0..Count(p)
  BY <1>4
<1>6. Line(t) = SubSeq(L, 2, Count(p))
  <2>1. Line(t) = SubSeq(L, 1 + 1, Count(p))
    BY <1>1, <1>3, <1>5, LineFreed
  <2>2. 1 + 1 = 2
    OBVIOUS
  <2> HIDE DEF L
  <2> QED
    BY <2>1, <2>2
<1>7. L \in Seq(Entries) /\ Len(L) = Count(p)
  BY <1>1, LineType
<1> HIDE DEF L
<1>8. L # <<>>
  BY <1>4, <1>7
<1>9. Tail(L) = SubSeq(L, 2, Count(p))
  BY <1>7, <1>8, TailIsSubSeq
<1> QED
  BY <1>6, <1>8, <1>9 DEF p, t, L

LEMMA EmptyLine ==
    ASSUME NEW p \in RingType, Aligned(p), ~InUse(p, p.read)
    PROVE  Line(p) = <<>>
<1>1. p.write = p.read /\ p.read \in Places
  BY EmptyRing DEF RingType
<1>2. Count(p) = 0
  BY <1>1, AheadType DEF Count
<1> QED
  BY <1>2, LineType, EmptySeq

Taking(o) == o.st # "IDLE" /\ o.of = "priority"

\* While the ring is in line, the mapped line is what it holds.
LEMMA LineNow ==
    ASSUME PriorityOK(queue)
    PROVE  PriorityLineOf = Line(queue["priority"]) /\ PriorityAligned = TRUE
<1>1. queue["priority"] \in RingType /\ Aligned(queue["priority"]) /\ RingTyped(queue)
  BY DEF PriorityOK, RingTyped
<1>2. PriorityLineOf = Line(queue["priority"])
  BY <1>1, LineReads DEF PriorityLineOf, LineLength
<1> QED
  BY <1>1, <1>2, AlignedNow

LEMMA LineNext ==
    ASSUME PriorityOK(queue')
    PROVE  PriorityLineOf' = Line(queue'["priority"]) /\ PriorityAligned' = TRUE
<1>1. queue'["priority"] \in RingType /\ Aligned(queue'["priority"]) /\ RingTyped(queue')
  BY DEF PriorityOK, RingTyped
<1>2. PriorityLineOf' = Line(queue'["priority"])
  BY <1>1, LineReads DEF PriorityLineOf, LineLength
<1> QED
  BY <1>1, <1>2, AlignedNext

\* What is left of the line when the head of a ring is dropped, once or twice.
Drops(q, k) == queue' = Drop(q, k) \/ (OwnHead(q, k) /\ queue' = DoubleDrop(q, k))

LEMMA DropsLine ==
    ASSUME NEW q, Stands(q), PriorityOK(queue), NEW k \in Queues, HeadWaits(q, k), Drops(q, k)
    PROVE  Urgents!Leaves(Line(Drop(q, k)["priority"]))
<1> DEFINE r == Drop(q, k)
           p == r["priority"]
<1>1. PriorityOK(q) /\ (k = "priority" => InUse(q["priority"], q["priority"].read))
  BY QueuedInUse DEF Stands, HeadQueued
<1>2. PriorityOK(r)
  BY <1>1, DropRing
<1>3. p \in RingType /\ Aligned(p) /\ RingTyped(r)
  BY <1>2 DEF PriorityOK, RingTyped
<1>4. CASE queue' = r
  BY <1>2, <1>4, LineNext DEF Urgents!Leaves
<1>5. CASE OwnHead(q, k) /\ queue' = DoubleDrop(q, k)
  <2>1. ~(OwnReports \subseteq OwnReports')
    BY <1>5, StrayLeaves
  <2>2. queue' = Drop(r, "priority") /\ "priority" \in Queues
    BY <1>5 DEF DoubleDrop, Queues
  <2> HIDE DEF r
  <2>3. CASE InUse(p, p.read)
    <3>1. Line(p) # <<>> /\ Line(queue'["priority"]) = Tail(Line(p))
      BY <1>2, <2>2, <2>3, DropLine
    <3>2. PriorityOK(queue')
      BY <1>2, <2>2, <2>3, DropRing
    <3>3. PriorityLineOf' = Tail(Line(p)) /\ PriorityAligned' = TRUE
      BY <3>1, <3>2, LineNext
    <3> QED
      BY <2>1, <3>1, <3>3 DEF Urgents!Leaves, r
  <2>4. CASE ~InUse(p, p.read)
    <3>1. Line(p) = <<>>
      BY <1>3, <2>4, EmptyLine
    <3>2. RingTyped(queue') /\ ~PriorityOK(queue')
      BY <1>2, <1>3, <2>2, <2>4, EmptyDrop, DropTyped DEF PriorityOK
    <3>3. PriorityAligned' = FALSE
      BY <3>2, AlignedNext
    <3> QED
      BY <2>1, <3>1, <3>3 DEF Urgents!Leaves, r
  <2> QED
    BY <2>3, <2>4
<1> QED
  BY <1>4, <1>5 DEF Drops

\* The line after one more run, and without its first n.
LEMMA AgedLine ==
    ASSUME PriorityOK(queue)
    PROVE  LET A == Line(Aged(queue)["priority"])
           IN  /\ PriorityOK(Aged(queue)) /\ A \in Seq(Entries)
               /\ Urgents!Aged = A /\ Len(PriorityLineOf) = Len(A)
               /\ \A n : Urgents!After(n) = SubSeq(A, n + 1, Len(A))
<1> DEFINE A == Line(Aged(queue)["priority"])
           P == Line(queue["priority"])
<1>1. PriorityOK(Aged(queue)) /\ PriorityOK(queue)
  BY AgedRing DEF PriorityOK
<1>2. A \in Seq(Entries) /\ P \in Seq(Entries)
  BY <1>1, LineType DEF PriorityOK, RingTyped
<1>3. A = OlderLine(P)
  BY <1>1, LineAged
<1>4. PriorityLineOf = P
  BY LineNow
<1> HIDE DEF A, P
<1>5. Len(P) = Len(A)
  <2>1. DOMAIN A = 1..Len(P)
    BY <1>3 DEF OlderLine
  <2>2. DOMAIN A = 1..Len(A) /\ Len(A) \in Nat /\ Len(P) \in Nat
    BY <1>2, LenProperties
  <2> QED
    BY <2>1, <2>2
<1>6. Urgents!Aged = A
  BY <1>3, <1>4 DEF Urgents!Aged, OlderLine
<1>7. \A n : Urgents!After(n) = SubSeq(A, n + 1, Len(A))
  BY <1>4, <1>5, <1>6 DEF Urgents!After
<1> QED
  BY <1>1, <1>2, <1>4, <1>5, <1>6, <1>7 DEF A

\* The steps of the line, in terms of the ring.
LEMMA StandsStill ==
    ASSUME PriorityOK(queue), DOMAIN queue' = Queues, queue'["priority"] = queue["priority"],
           Taking(outgoing') <=> Taking(outgoing)
    PROVE  /\ (Turning(task') <=> Turning(task)) => Urgents!Aside
           /\ Turning(task) /\ ~Turning(task') => Urgents!TurnBack
<1>1. PriorityOK(queue')
  BY DEF PriorityOK, RingTyped
<1>2. PriorityLineOf' = PriorityLineOf /\ PriorityAligned' = TRUE /\ PriorityAligned = TRUE
  BY <1>1, LineNow, LineNext
<1> QED
  BY <1>2 DEF Urgents!Aside, Urgents!TurnBack, Urgents!Leaves, Taking, Turning

\* A run that leaves the line alone, but for a report to the board itself.
LEMMA Waits ==
    ASSUME PriorityOK(queue), Urgents!Leaves(Line(Aged(queue)["priority"])),
           Taking(outgoing') <=> Taking(outgoing), ~Turning(task), ~Turning(task')
    PROVE  Urgents!Wait
<1>1. Urgents!Leaves(Urgents!Aged)
  BY AgedLine
<1> QED
  BY <1>1 DEF Urgents!Wait, Taking, Turning

\* A priority message under way is the first in line, and leaves it.
LEMMA Leaves ==
    ASSUME PriorityOK(queue), NEW q, q = queue \/ q = Aged(queue), Stands(q),
           HeadWaits(q, "priority"), Drops(q, "priority"),
           Taking(outgoing), ~Taking(outgoing'), ~Turning(task), ~Turning(task')
    PROVE  Urgents!Leave
<1> DEFINE A == Line(Aged(queue)["priority"])
           T == Line(Drop(q, "priority")["priority"])
<1>1. PriorityOK(q) /\ InUse(q["priority"], q["priority"].read)
  BY QueuedInUse DEF Stands, HeadQueued
<1>2. Line(q["priority"]) # <<>> /\ T = Tail(Line(q["priority"]))
  BY <1>1, DropLine
<1>3. Urgents!Leaves(T)
  BY DropsLine DEF Queues
<1> HIDE DEF T
<1>4. CASE q = queue
  <2>1. T = Tail(PriorityLineOf)
    BY <1>2, <1>4, LineNow
  <2> QED
    BY <1>3, <2>1 DEF Urgents!Leave, Taking, Turning
<1>5. CASE q = Aged(queue)
  <2>1. A \in Seq(Entries) /\ Urgents!After(1) = SubSeq(A, 1 + 1, Len(A))
    BY AgedLine
  <2>2. A # <<>> /\ T = Tail(A)
    BY <1>2, <1>5
  <2> HIDE DEF A
  <2>3. 1 + 1 = 2
    OBVIOUS
  <2>4. T = Urgents!After(1)
    BY <2>1, <2>2, <2>3, TailIsSubSeq
  <2> QED
    BY <1>3, <2>4 DEF Urgents!Leave, Taking, Turning
<1> QED
  BY <1>4, <1>5

\* The search, with a message found or not.
LEMMA Looks ==
    ASSUME PriorityOK(queue), Stands(Searched(Aged(queue))),
           ~Taking(outgoing), ~Turning(task),
           LET q == Aged(queue)
           IN  IF Urgent(q)
               THEN /\ ~Turning(task')
                    /\ \/ queue' = Searched(q) /\ Taking(outgoing')
                       \/ Drops(Searched(q), "priority") /\ ~Taking(outgoing')
               ELSE queue' = Searched(q) /\ ~Taking(outgoing') /\ Turning(task')
    PROVE  Urgents!Look
<1> DEFINE q == Aged(queue)
           A == Line(q["priority"])
           n == PriorityStop(q)
<1>1. PriorityOK(q) /\ A \in Seq(Entries) /\ Urgents!Aged = A /\ Len(PriorityLineOf) = Len(A)
  BY AgedLine
<1>2. Urgents!After(n) = SubSeq(A, n + 1, Len(A))
      /\ Urgents!After(n + 1) = SubSeq(A, (n + 1) + 1, Len(A))
  BY AgedLine
<1>3. /\ n \in 0..Len(A)
      /\ \A i \in 1..n : Urgents!GivenUp(A[i])
      /\ n < Len(A) => ~Urgents!GivenUp(A[n + 1])
      /\ Urgent(q) <=> n < Len(A) /\ A[n + 1].ready
      /\ Line(Searched(q)["priority"]) = SubSeq(A, n + 1, Len(A))
  BY <1>1, SearchLine
<1>4. /\ Urgent(q) => /\ ~Turning(task')
                      /\ \/ queue' = Searched(q) /\ Taking(outgoing')
                         \/ Drops(Searched(q), "priority") /\ ~Taking(outgoing')
      /\ ~Urgent(q) => queue' = Searched(q) /\ ~Taking(outgoing') /\ Turning(task')
  OBVIOUS
<1>5. PriorityOK(Searched(q)) /\ (Urgent(q) => HeadWaits(Searched(q), "priority"))
  BY <1>1, SearchedRing DEF Urgent, HeadWaits, PriorityOK
<1>6. Stands(Searched(q))
  OBVIOUS
<1> HIDE DEF q, A, n
<1>7. ASSUME Urgent(q), Drops(Searched(q), "priority")
      PROVE  Urgents!Leaves(Urgents!After(n + 1))
  <2> DEFINE T == Line(Drop(Searched(q), "priority")["priority"])
  <2>1. InUse(Searched(q)["priority"], Searched(q)["priority"].read)
    BY <1>5, <1>7, QueuedInUse DEF HeadQueued
  <2>2. T = Tail(SubSeq(A, n + 1, Len(A)))
    BY <1>3, <1>5, <2>1, DropLine
  <2>3. n + 1 \in 1..Len(A) /\ Len(A) \in (n + 1)..Len(A)
    <3>1. Len(A) \in Nat /\ n < Len(A)
      BY <1>1, <1>3, <1>7, LenProperties
    <3> QED
      BY <1>3, <3>1
  <2>4. T = Urgents!After(n + 1)
    BY <1>1, <1>2, <2>2, <2>3, HeadTailOfSubSeq
  <2>5. Urgents!Leaves(T)
    BY <1>5, <1>6, <1>7, DropsLine DEF Queues
  <2> HIDE DEF T
  <2> QED
    BY <2>4, <2>5
<1>8. queue' = Searched(q) => PriorityLineOf' = Urgents!After(n) /\ PriorityAligned' = TRUE
  BY <1>2, <1>3, <1>5, LineNext
<1>9. IF n < Len(PriorityLineOf) /\ Urgents!Aged[n + 1].ready
      THEN /\ \/ PriorityLineOf' = Urgents!After(n) /\ PriorityAligned' = TRUE /\ Taking(outgoing')
              \/ Urgents!Leaves(Urgents!After(n + 1)) /\ ~Taking(outgoing')
           /\ ~Turning(task')
      ELSE /\ PriorityLineOf' = Urgents!After(n) /\ PriorityAligned' = TRUE
           /\ ~Taking(outgoing') /\ Turning(task')
  BY <1>1, <1>3, <1>4, <1>7, <1>8
<1>10. /\ n \in 0..Len(PriorityLineOf)
       /\ \A i \in 1..n : Urgents!GivenUp(Urgents!Aged[i])
       /\ n < Len(PriorityLineOf) => ~Urgents!GivenUp(Urgents!Aged[n + 1])
  BY <1>1, <1>3
<1> QED
  BY <1>9, <1>10 DEF Urgents!Look, Taking, Turning

\* What is under way goes on, or ends with its head dropped.
LEMMA UnderWay ==
    ASSUME NEW q, NEW o \in OutgoingType, HeadWaits(q, o.of),
           \/ /\ queue' = q
              /\ outgoing' \in OutgoingType /\ outgoing'.st # "IDLE" /\ outgoing'.of = o.of
           \/ queue' = Drop(q, o.of) /\ outgoing' = NoMessage
           \/ /\ queue' = DoubleDrop(q, o.of) /\ outgoing' = NoMessage
              /\ ~HeadMessage(q, o.of).cmd /\ HeadMessage(q, o.of).to = "own"
    PROVE  \/ queue' = q /\ (Taking(outgoing') <=> o.of = "priority")
           \/ Drops(q, o.of) /\ ~Taking(outgoing')
<1>1. ~Taking(NoMessage)
  BY DEF NoMessage, Taking
<1> QED
  BY <1>1 DEF Taking, Drops, OwnHead

\* A run of the handler.
LEMMA OutgoingLine ==
    ASSUME QueueInv, PriorityOK(queue), NEW win \in BOOLEAN, Outgoing(win)
    PROVE  Urgents!Wait \/ Urgents!Look \/ Urgents!Leave
<1> DEFINE q == Aged(queue)
           A == Line(q["priority"])
<1>1. /\ HeadSafe(queue, outgoing) /\ outgoing \in OutgoingType /\ RingOK(queue)
      /\ task.pc = "free" /\ ~Turning(task)
  BY DEF QueueInv, RaceInv, HeadSafe, Outgoing, Turning
<1>2. /\ Stands(q) /\ Stands(Searched(q)) /\ RingTyped(Searched(q)) /\ PriorityOK(q)
      /\ DOMAIN q = Queues
  BY <1>1, AgedStands, SearchedStands DEF HeadSafe, Stands, RingTyped
<1>3. Turning([task EXCEPT !.pc = "scanning"])
  BY DEF QueueInv, RaceInv, Turning
<1>4. outgoing.st # "IDLE" => HeadWaits(q, outgoing.of)
  BY <1>1, AgedRing, AgedNormal DEF HeadSafe, OutgoingType, Queues, HeadQueued
<1>5. \/ queue' = q /\ outgoing' = outgoing /\ task' = task
      \/ /\ outgoing.st = "IDLE" /\ Urgent(q) /\ task' = task
         /\ Sent(Searched(q), Picked("priority"), win)
      \/ /\ outgoing.st = "IDLE" /\ ~Urgent(q) /\ queue' = Searched(q) /\ outgoing' = outgoing
         /\ task' = [task EXCEPT !.pc = "scanning"]
      \/ outgoing.st = "SENDING" /\ Sent(q, outgoing, win) /\ task' = task
      \/ outgoing.st = "TIMING" /\ queue' = Timed(q)[1] /\ outgoing' = Timed(q)[2] /\ task' = task
  BY DEF Outgoing
<1>6. queue' = q => Urgents!Leaves(A)
  BY <1>2, LineNext DEF Urgents!Leaves
<1>7. CASE queue' = q /\ outgoing' = outgoing /\ task' = task
  BY <1>1, <1>6, <1>7, Waits
<1>8. CASE /\ outgoing.st = "IDLE" /\ Urgent(q) /\ task' = task
           /\ Sent(Searched(q), Picked("priority"), win)
  <2>1. HeadWaits(Searched(q), "priority")
    BY <1>8 DEF Urgent, HeadWaits
  <2>2. /\ Picked("priority") \in OutgoingType /\ Picked("priority").st # "IDLE"
        /\ Picked("priority").of = "priority"
    BY <1>1, <1>2, <2>1, PickedSafe DEF HeadSafe, Queues
  <2>3. \/ queue' = Searched(q) /\ Taking(outgoing')
        \/ Drops(Searched(q), "priority") /\ ~Taking(outgoing')
    BY <1>8, <2>1, <2>2, SentWays, UnderWay
  <2> QED
    BY <1>1, <1>2, <1>8, <2>3, Looks DEF Taking
<1>9. CASE /\ outgoing.st = "IDLE" /\ ~Urgent(q) /\ queue' = Searched(q) /\ outgoing' = outgoing
           /\ task' = [task EXCEPT !.pc = "scanning"]
  BY <1>1, <1>2, <1>3, <1>9, Looks DEF Taking
<1> HIDE DEF q
<1>10. ASSUME outgoing.st # "IDLE", task' = task,
              \/ queue' = q /\ (Taking(outgoing') <=> outgoing.of = "priority")
              \/ Drops(q, outgoing.of) /\ ~Taking(outgoing')
       PROVE  Urgents!Wait \/ Urgents!Leave
  <2>1. Taking(outgoing) <=> outgoing.of = "priority"
    BY <1>10 DEF Taking
  <2>2. CASE queue' = q /\ (Taking(outgoing') <=> outgoing.of = "priority")
    BY <1>1, <1>6, <1>10, <2>1, <2>2, Waits DEF q
  <2>3. CASE Drops(q, outgoing.of) /\ ~Taking(outgoing')
    <3>1. CASE outgoing.of = "priority"
      BY <1>1, <1>2, <1>4, <1>10, <2>1, <2>3, <3>1, Leaves DEF q
    <3>2. CASE outgoing.of # "priority"
      <4>1. outgoing.of = "normal" /\ "normal" \in Queues
        BY <1>1, <3>2 DEF OutgoingType, Queues
      <4>2. Drop(q, "normal")["priority"] = q["priority"]
        BY <1>2, <4>1, DropTyped DEF Stands
      <4>3. Urgents!Leaves(Line(Drop(q, "normal")["priority"]))
        BY <1>2, <1>4, <1>10, <2>3, <4>1, DropsLine
      <4>4. Urgents!Leaves(Line(q["priority"]))
        BY <4>2, <4>3
      <4> QED
        BY <1>1, <1>10, <2>1, <2>3, <3>2, <4>4, Waits DEF q
    <3> QED
      BY <3>1, <3>2
  <2> QED
    BY <1>10, <2>2, <2>3
<1>11. CASE outgoing.st = "SENDING" /\ Sent(q, outgoing, win) /\ task' = task
  <2>1. \/ queue' = q /\ (Taking(outgoing') <=> outgoing.of = "priority")
        \/ Drops(q, outgoing.of) /\ ~Taking(outgoing')
    BY <1>1, <1>4, <1>11, SentWays, UnderWay
  <2> QED
    BY <1>10, <1>11, <2>1
<1>12. CASE outgoing.st = "TIMING" /\ queue' = Timed(q)[1] /\ outgoing' = Timed(q)[2] /\ task' = task
  <2>1. \/ queue' = q /\ (Taking(outgoing') <=> outgoing.of = "priority")
        \/ Drops(q, outgoing.of) /\ ~Taking(outgoing')
    BY <1>1, <1>4, <1>12, TimedWays, UnderWay
  <2> QED
    BY <1>10, <1>12, <2>1
<1> QED
  BY <1>5, <1>7, <1>8, <1>9, <1>11, <1>12

LEMMA IncomingLine ==
    ASSUME QueueInv, PriorityOK(queue), HandlerIncoming
    PROVE  Urgents!Leave \/ Urgents!Aside
<1>1. /\ HeadSafe(queue, outgoing) /\ outgoing \in OutgoingType /\ DOMAIN queue = Queues
      /\ task' = task /\ ~Turning(task) /\ ~Taking(NoMessage) /\ Stands(queue)
  BY QueueStands
     DEF QueueInv, RaceInv, RingOK, HeadSafe, HandlerIncoming, Incoming, Turning, Taking, NoMessage
<1>2. \/ outgoing.st = "TIMING" /\ queue' = Drop(queue, outgoing.of) /\ outgoing' = NoMessage
      \/ queue' = queue /\ outgoing' = outgoing
  BY DEF HandlerIncoming, Incoming
<1>3. CASE outgoing.st = "TIMING" /\ queue' = Drop(queue, outgoing.of) /\ outgoing' = NoMessage
  <2>1. CASE outgoing.of = "priority"
    <3>1. HeadWaits(queue, "priority") /\ Drops(queue, "priority")
      BY <1>1, <1>3, <2>1 DEF HeadSafe, Drops
    <3>2. Taking(outgoing) /\ ~Taking(outgoing') /\ ~Turning(task')
      BY <1>1, <1>3, <2>1 DEF Taking
    <3> QED
      BY <1>1, <3>1, <3>2, Leaves
  <2>2. CASE outgoing.of # "priority"
    <3>1. outgoing.of = "normal"
      BY <1>1, <2>2 DEF OutgoingType, Queues
    <3>2. queue'["priority"] = queue["priority"] /\ DOMAIN queue' = Queues
      BY <1>1, <1>3, <3>1 DEF Drop, Queues
    <3> QED
      BY <1>1, <1>3, <2>2, <3>2, StandsStill DEF Taking
  <2> QED
    BY <2>1, <2>2
<1>4. CASE queue' = queue /\ outgoing' = outgoing
  BY <1>1, <1>4, StandsStill
<1> QED
  BY <1>2, <1>3, <1>4

\* The search of the normal queue leaves the line alone, but for a report to
\* the board itself.
LEMMA ScanLine ==
    ASSUME QueueInv, PriorityOK(queue), ScanHead \/ ScanCompares
    PROVE  Urgents!TurnBack \/ Urgents!Aside
<1>1. /\ DOMAIN queue = Queues /\ Turning(task) /\ ~Taking(outgoing) /\ ~Taking(NoMessage)
      /\ Stands(queue) /\ outgoing \in OutgoingType /\ RingTyped(queue)
  BY QueueStands
     DEF QueueInv, RaceInv, RingOK, HeadSafe, ScanHead, ScanNormal, ScanCompares, ScanIdle,
         Turning, Taking, NoMessage
<1>2. CASE ScanHead
  <2>1. PICK win \in BOOLEAN : ScanNormal(win)
    BY <1>2 DEF ScanHead
  <2>2. \/ HeadWaits(queue, "normal") /\ Sent(queue, Picked("normal"), win) /\ task' = NoTask
        \/ queue' \in {queue, Drop(queue, "normal")} /\ outgoing' = outgoing
    BY <2>1 DEF ScanNormal, HeadWaits, SlotState
  <2>3. Drop(queue, "normal")["priority"] = queue["priority"]
        /\ DOMAIN Drop(queue, "normal") = Queues
    BY <1>1 DEF Drop, Queues
  <2>4. CASE HeadWaits(queue, "normal") /\ Sent(queue, Picked("normal"), win) /\ task' = NoTask
    <3>1. /\ Picked("normal") \in OutgoingType /\ Picked("normal").st # "IDLE"
          /\ Picked("normal").of = "normal" /\ "normal" \in Queues
      <4>1. "normal" \in Queues
        BY DEF Queues
      <4>2. HeadSafe(queue, Picked("normal"))
            /\ Picked("normal").st # "IDLE" /\ Picked("normal").of = "normal"
        BY <1>1, <2>4, <4>1, PickedSafe
      <4> QED
        BY <4>1, <4>2 DEF HeadSafe
    <3>2. \/ queue' = queue /\ ~Taking(outgoing')
          \/ Drops(queue, "normal") /\ ~Taking(outgoing')
      BY <2>4, <3>1, SentWays, UnderWay
    <3>3. ~Turning(task')
      BY <2>4 DEF Turning, NoTask
    <3>4. CASE queue' = queue /\ ~Taking(outgoing')
      BY <1>1, <3>3, <3>4, StandsStill
    <3>5. CASE Drops(queue, "normal") /\ ~Taking(outgoing')
      <4>1. Urgents!Leaves(Line(Drop(queue, "normal")["priority"]))
        BY <1>1, <2>4, <3>1, <3>5, DropsLine
      <4>2. Urgents!Leaves(PriorityLineOf)
        BY <2>3, <4>1, LineNow
      <4> QED
        BY <1>1, <3>3, <3>5, <4>2 DEF Urgents!TurnBack, Taking, Turning
    <3> QED
      BY <3>2, <3>4, <3>5
  <2>5. CASE queue' \in {queue, Drop(queue, "normal")} /\ outgoing' = outgoing
    BY <1>1, <2>3, <2>5, StandsStill
  <2> QED
    BY <2>2, <2>4, <2>5
<1>3. CASE ScanCompares
  <2>1. queue' \in {queue, Skipped} /\ outgoing' = outgoing
    BY <1>3 DEF ScanCompares
  <2>2. Skipped["priority"] = queue["priority"] /\ DOMAIN Skipped = Queues
    BY <1>1 DEF Skipped, Queues
  <2> QED
    BY <1>1, <2>1, <2>2, StandsStill
<1> QED
  BY <1>2, <1>3

LEMMA RequestLine ==
    ASSUME PriorityOK(queue), PriorityRequest
    PROVE  Urgents!Enter
<1> DEFINE p == queue["priority"]
           t == queue'["priority"]
<1>1. RingTyped(queue) /\ p \in RingType /\ Aligned(p)
  BY DEF PriorityOK, RingTyped
<1>2. \E m \in UrgentRequests : \E d \in {QUEUED, SET} : Fills(p, t, [d |-> d, msg |-> m])
  BY <1>1, RequestFills
<1>3. PICK m \in UrgentRequests : \E d \in {QUEUED, SET} : Fills(p, t, [d |-> d, msg |-> m])
  BY <1>2
<1>4. PICK d \in {QUEUED, SET} : Fills(p, t, [d |-> d, msg |-> m])
  BY <1>3
<1> DEFINE y == [d |-> d, msg |-> m]
<1>5. y \in SlotType /\ y.d = d /\ y.msg = m
  <2>1. m \in Messages /\ d \in 0..SET
    BY RevealConstants, Numbers
  <2> QED
    BY <2>1 DEF SlotType
<1>6. EntryOf(y) \in {Urgents!Ready(m), Urgents!Incomplete(m)}
  <2>1. CASE d = QUEUED
    <3>1. ~Pending(QUEUED)
      BY DEF Pending, QUEUED, TIMEOUT
    <3> QED
      BY <2>1, <3>1 DEF EntryOf, Urgents!Ready
  <2>2. CASE d = SET
    <3>1. SET # QUEUED /\ Pending(SET) /\ SET - TIMEOUT = DebounceCount
      BY RevealConstants DEF SET, QUEUED, Pending, TIMEOUT
    <3> QED
      BY <2>2, <3>1 DEF EntryOf, Urgents!Incomplete
  <2> QED
    BY <2>1, <2>2
<1>7. Fills(p, t, y)
  BY <1>4
<1>8. outgoing' = outgoing /\ task' = task
  BY DEF PriorityRequest
<1>9. PriorityOK(queue')
  BY <1>1, RequestRing
<1>10. PriorityLineOf = Line(p) /\ PriorityLineOf' = Line(t) /\ PriorityAligned' = TRUE
  BY <1>9, LineNow, LineNext
<1>11. Aligned(t)
  BY <1>9 DEF PriorityOK
<1> HIDE DEF p, t, y
<1>12. Count(p) < PrioritySize /\ Line(t) = Append(Line(p), EntryOf(y))
  BY <1>1, <1>5, <1>7, <1>11, LineFilled
<1>13. Len(PriorityLineOf) < PrioritySize
  BY <1>1, <1>10, <1>12, LineType
<1> QED
  BY <1>6, <1>8, <1>10, <1>12, <1>13 DEF Urgents!Enter

LEMMA InLineStep ==
    ASSUME QueueInv, PriorityOK(queue), [RevealNext]_queueVars
    PROVE  Urgents!Enter \/ Urgents!Wait \/ Urgents!Look \/ Urgents!TurnBack \/ Urgents!Leave
           \/ Urgents!Aside
<1>1. DOMAIN queue = Queues
  BY DEF PriorityOK, RingTyped
<1>2. CASE NewChecks \/ NewReserves \/ NewAdvances
  <2>1. outgoing' = outgoing /\ queue'["priority"] = queue["priority"] /\ DOMAIN queue' = Queues
    BY <1>1, <1>2 DEF NewChecks, NewReserves, NewAdvances, Queues
  <2>2. ~Turning(task) /\ ~Turning(task')
    <3>1. ~Turning([task EXCEPT !.pc = "reserved"]) /\ ~Turning(NoTask)
      BY DEF QueueInv, RaceInv, Turning, NoTask
    <3>2. task.pc \in {"free", "checked", "reserved"}
      BY <1>2 DEF NewChecks, NewReserves, NewAdvances
    <3>3. task'.pc = "checked" \/ task' \in {[task EXCEPT !.pc = "reserved"], NoTask}
      BY <1>2 DEF NewChecks, NewReserves, NewAdvances
    <3> QED
      BY <3>1, <3>2, <3>3 DEF Turning
  <2> QED
    BY <2>1, <2>2, StandsStill
<1>3. CASE HeartbeatInterrupt \/ NodeLost \/ UNCHANGED queueVars
  <2>1. outgoing' = outgoing /\ task' = task /\ queue'["priority"] = queue["priority"]
        /\ DOMAIN queue' = Queues
    BY <1>1, <1>3 DEF HeartbeatInterrupt, Fill, NodeLost, queueVars, Queues
  <2> QED
    BY <2>1, StandsStill
<1>4. CASE PriorityRequest
  BY <1>4, RequestLine
<1>5. CASE HandlerIncoming
  BY <1>5, IncomingLine
<1>6. CASE HandlerOutgoing
  BY <1>6, OutgoingLine DEF HandlerOutgoing
<1>7. CASE ScanHead \/ ScanCompares
  BY <1>7, ScanLine
<1> QED
  BY <1>2, <1>3, <1>4, <1>5, <1>6, <1>7 DEF RevealNext

LEMMA LineStep ==
    ASSUME QueueInv, [RevealNext]_queueVars
    PROVE  [Urgents!Next]_(Urgents!vars)
<1>1. CASE PriorityOK(queue)
  BY <1>1, InLineStep, LineNow DEF Urgents!Next
<1>2. CASE ~PriorityOK(queue)
  BY <1>2, AlignedNow DEF Urgents!Next, Urgents!OutOfOrder, QueueInv, HeadSafe
<1> QED
  BY <1>1, <1>2

LEMMA InitLine == RevealInit => Urgents!Init
<1> SUFFICES ASSUME RevealInit PROVE Urgents!Init
  OBVIOUS
<1> DEFINE p == queue["priority"]
<1>1. PriorityOK(queue)
  BY InitQueue
<1>2. p \in RingType /\ Aligned(p) /\ ~InUse(p, p.read)
  <2>1. "priority" # "normal" /\ "priority" \in Queues /\ 0 \in Slots("priority")
    BY PriorityPlaces DEF Queues, Places
  <2>2. p.read = 0 /\ p.slot[0].d = IDLE
    BY <2>1 DEF RevealInit
  <2> QED
    BY <1>1, <2>2 DEF PriorityOK, RingTyped, InUse
<1>3. PriorityLineOf = <<>> /\ PriorityAligned = TRUE
  BY <1>1, <1>2, LineNow, EmptyLine
<1>4. OwnReports = {}
  <2>1. ASSUME NEW k \in Queues, NEW i \in Slots(k)
        PROVE  queue[k].slot[i] # [d |-> QUEUED, msg |-> OwnReport]
    <3>1. queue[k].slot[i] \in {[d |-> QUEUED, msg |-> Heartbeat], [d |-> IDLE, msg |-> Blank]}
      BY DEF RevealInit
    <3>2. Heartbeat # OwnReport /\ IDLE # QUEUED
      BY Numbers DEF Heartbeat, OwnReport
    <3> QED
      BY <3>1, <3>2
  <2>2. ASSUME NEW s \in OwnReports PROVE FALSE
    <3>1. PICK k \in Queues : s \in {k} \X Slots(k)
      BY DEF OwnReports
    <3>2. s[1] = k /\ s[2] \in Slots(k)
      BY <3>1
    <3> QED
      BY <2>1, <3>2 DEF OwnReports
  <2> QED
    BY <2>2
<1> QED
  BY <1>3, <1>4, NoMessageType DEF Urgents!Init, RevealInit, NoTask

(* The ring, its two indexes and its counters implement a line, whatever   *)
(* its length and the patience with an incomplete message: what a task has *)
(* completed leaves in the order it came, only from the head and only when *)
(* it was taken up, and it is always taken before a normal message.  Only  *)
(* a report to the board itself, when Win refuses it, takes the head with  *)
(* it or the order of a line that is empty.                                *)
THEOREM PriorityIsLine == RevealSpec => UrgentLine
<1>1. QueueInv /\ [RevealNext]_queueVars => [Urgents!Next]_(Urgents!vars)
  BY LineStep
<1> QED
  BY <1>1, InitLine, QueueInvariant, PTL DEF RevealSpec, UrgentLine, Urgents!Spec
--------------------------------------------------------------------------------
(* The safety channel: how far the receiver can be behind.                 *)

Ordinary == 1..SequenceLast
Message == [seq : 0..SeqLost, gap : Gaps, copy : BOOLEAN]

\* b is the number n messages after a, as long as n does not say that the
\* numbers have come round.
After(a, b, n) == b \in Ordinary /\ (n >= SequenceLast \/ b = a + n \/ b = a + n - SequenceLast)

\* The number of messages at the head of the wire that the receiver has heard,
\* and the gap before the others.
Copies == IF wire # <<>> /\ wire[1].copy THEN 1 ELSE 0
Gap == IF wire = <<>> THEN unheard ELSE wire[1].gap

\* Between two messages of the wire the count was not begun anew.
Counted(w, i, j) == \A l \in (i + 1)..j : w[l].seq \in Ordinary

(* The wire: the numbers of its messages follow each other; only the first *)
(* can follow a gap or be heard twice.                                     *)
WireInv ==
    /\ \A i \in 1..Len(wire) : i > 1 => wire[i].gap = "none" /\ ~wire[i].copy
    /\ wire # <<>> => unheard = "none" /\ (wire[1].copy => wire[1].gap = "none")
    /\ \A i, j \in 1..Len(wire) :
          i < j /\ Counted(wire, i, j) => After(NextSequence(wire[i].seq), wire[j].seq, j - i - 1)
    /\ \A i \in 1..Len(wire) :
          Counted(wire, i, Len(wire)) /\ sender.next \in Ordinary =>
             After(NextSequence(wire[i].seq), sender.next, Len(wire) - i)

(* k messages were lost since the one heard last, and none of them began   *)
(* the count anew: the numbers say how many, and it has taken its time.    *)
Enough(age, n, rest) == age > RxPeriod \/ age >= (n - WireSize) * (TxTimer + 1) + rest

Behind(k) ==
    /\ Gap = "none" => k = 0
    /\ Gap = "lost" => k > 0
    /\ \A j \in (Copies + 1)..Len(wire) :
          Counted(wire, Copies, j) => /\ After(receiver.expected, wire[j].seq, k + j - Copies - 1)
                                /\ Enough(receiver.age, k + j - Copies, 0)
    /\ Counted(wire, Copies, Len(wire)) /\ sender.next \in Ordinary =>
          /\ After(receiver.expected, sender.next, k + Len(wire) - Copies)
          /\ Enough(receiver.age, k + Len(wire) - Copies, TxTimer - sender.timer)

ReceiverInv ==
    receiver.expected \in Ordinary /\ Gap # "anew" => \E k \in Nat : Behind(k)

ChannelInv == ChannelTypeOK /\ WireInv /\ ReceiverInv /\ TrustedInSequence

\* Arithmetic of the counts: n calls of the sender's period more or fewer.
LEMMA PeriodsAdd ==
    ASSUME NEW n \in Int
    PROVE  ((n + 1) - WireSize) * (TxTimer + 1) = (n - WireSize) * (TxTimer + 1) + (TxTimer + 1)
BY ChannelConstants

LEMMA FewPeriods ==
    ASSUME NEW n \in Int, n < WireSize
    PROVE  (n - WireSize) * (TxTimer + 1) + TxTimer < 0
BY ChannelConstants

LEMMA ManyPeriods ==
    ASSUME NEW n \in Int, n >= SequenceLast
    PROVE  (n - WireSize) * (TxTimer + 1) > RxPeriod
BY ChannelConstants

\* The sizes without the product of two of them, which few steps need.
LEMMA ChannelSizes ==
    /\ SequenceLast \in Nat /\ TxTimer \in Nat /\ TxPeriod \in Nat
    /\ RxPeriod \in Nat /\ WireSize \in Nat
    /\ TxTimer > 0 /\ WireSize > 0 /\ SequenceLast > WireSize
    /\ TxTimer + 1 < TxPeriod /\ TxTimer + 1 < RxPeriod
BY ChannelConstants

\* The numbers go round, 1 after the last one.
LEMMA NumbersFollow ==
    ASSUME NEW s \in 0..SeqLost
    PROVE  NextSequence(s) \in Ordinary
BY ChannelSizes DEF NextSequence, Ordinary, SeqLost, SeqFirst

LEMMA AfterNext ==
    ASSUME NEW a \in Ordinary, NEW b \in Ordinary, NEW n \in Nat, After(a, b, n)
    PROVE  After(a, NextSequence(b), n + 1)
BY ChannelSizes DEF NextSequence, Ordinary, SeqFirst, After

LEMMA AfterItself ==
    ASSUME NEW a \in Ordinary
    PROVE  After(a, a, 0)
BY ChannelSizes DEF Ordinary, After

\* The values of the variables, put together.
Receivers ==
    [expected : (1..SequenceLast) \cup {SeqInvalid}, age : 0..(RxPeriod + 1), valid : BOOLEAN,
     gap : Gaps]

LEMMA SomeReceiver ==
    ASSUME NEW e \in (1..SequenceLast) \cup {SeqInvalid}, NEW a \in 0..(RxPeriod + 1),
           NEW v \in BOOLEAN, NEW g \in Gaps
    PROVE  [expected |-> e, age |-> a, valid |-> v, gap |-> g] \in Receivers
BY DEF Receivers

LEMMA SomeMessage ==
    ASSUME NEW s \in 0..SeqLost, NEW g \in Gaps, NEW c \in BOOLEAN
    PROVE  [seq |-> s, gap |-> g, copy |-> c] \in Message
BY DEF Message

LEMMA InitChannel == ChannelInit => ChannelInv
<1> SUFFICES ASSUME ChannelInit PROVE ChannelInv
  OBVIOUS
<1>1. receiver \in Receivers
  <2>1. SeqInvalid \in (1..SequenceLast) \cup {SeqInvalid} /\ 0 \in 0..(RxPeriod + 1) /\ "none" \in Gaps
    BY ChannelSizes DEF Gaps
  <2> QED
    BY <2>1, SomeReceiver DEF ChannelInit, RxInit
<1>2. sender \in [next : 0..SequenceLast, age : 0..TxPeriod, timer : 0..TxTimer]
  BY ChannelSizes DEF ChannelInit, TxInit, SeqReset
<1>3. wire = <<>> /\ wire \in Seq(Message) /\ Len(wire) = 0
  BY DEF ChannelInit
<1>4. ChannelTypeOK
  <2>1. Len(wire) <= WireSize /\ unheard \in Gaps
    BY <1>3, ChannelSizes DEF ChannelInit, Gaps
  <2>2. calm \in BOOLEAN
    BY DEF ChannelInit
  <2> QED
    BY <1>1, <1>2, <1>3, <2>1, <2>2 DEF ChannelTypeOK, Receivers, Message
<1>5. WireInv
  BY DEF ChannelInit, WireInv
<1>6. ReceiverInv /\ TrustedInSequence
  BY ChannelSizes DEF ChannelInit, ReceiverInv, TrustedInSequence, RxInit, SeqInvalid, Ordinary
<1> QED
  BY <1>4, <1>5, <1>6 DEF ChannelInv

\* One call of each board's handler.
LEMMA ReceiverWaits ==
    ASSUME receiver \in Receivers, MonitorRx
    PROVE  /\ receiver' \in Receivers
           /\ receiver'.expected \in {SeqInvalid, receiver.expected}
           /\ receiver'.gap = receiver.gap
           /\ receiver'.valid => receiver.valid
           /\ receiver'.age = Later(receiver.age, RxPeriod + 1)
<1> DEFINE a == Later(receiver.age, RxPeriod + 1)
           r == [receiver EXCEPT !.age = Later(@, RxPeriod + 1)]
<1>1. a \in 0..(RxPeriod + 1)
  BY ChannelSizes DEF Receivers, Later
<1>2. /\ r \in Receivers /\ r.age = a /\ r.expected = receiver.expected
      /\ r.gap = receiver.gap /\ r.valid = receiver.valid
  <2> HIDE DEF a
  <2>1. r = [receiver EXCEPT !.age = a]
    BY DEF a
  <2> QED
    BY <2>1, <1>1 DEF Receivers
<1> DEFINE q == [r EXCEPT !.expected = SeqInvalid, !.valid = FALSE]
<1>3. /\ q \in Receivers /\ q.expected = SeqInvalid /\ q.gap = r.gap /\ ~q.valid /\ q.age = r.age
  <2> HIDE DEF r
  <2> QED
    BY <1>2 DEF Receivers
<1>4. receiver' = q \/ receiver' = r
  BY DEF MonitorRx
<1> HIDE DEF q, r
<1>5. CASE receiver' = q
  BY <1>5, <1>2, <1>3
<1>6. CASE receiver' = r
  BY <1>6, <1>2
<1> QED
  BY <1>4, <1>5, <1>6

Senders == [next : 0..SequenceLast, age : 0..TxPeriod, timer : 0..TxTimer]

LEMMA SenderGoesOn ==
    ASSUME sender \in Senders, NEW accepted \in BOOLEAN, MonitorTx(accepted)
    PROVE  \/ /\ sender' \in Senders /\ sender'.next = sender.next
              /\ UNCHANGED <<wire, unheard>>
              /\ sender'.timer = sender.timer \/ sender'.timer = sender.timer - 1
           \/ /\ sender.timer = 0 /\ Len(wire) < WireSize
              /\ unheard' = "none" /\ sender' \in Senders /\ sender'.timer = TxTimer
              /\ \E q \in {sender.next, SeqLost} :
                    /\ sender'.next = NextSequence(q)
                    /\ wire' = Append(wire, [seq |-> q, gap |-> unheard, copy |-> FALSE])
<1> DEFINE a == Later(sender.age, TxPeriod)
           t == [sender EXCEPT !.age = Later(@, TxPeriod)]
<1>1. a \in 0..TxPeriod
  BY ChannelSizes DEF Senders, Later
<1>2. t \in Senders /\ t.next = sender.next /\ t.timer = sender.timer
  <2> HIDE DEF a
  <2>1. t = [sender EXCEPT !.age = a]
    BY DEF a
  <2> QED
    BY <2>1, <1>1 DEF Senders
<1>3. CASE sender.timer > 0 /\ sender' = [t EXCEPT !.timer = @ - 1] /\ UNCHANGED <<wire, unheard>>
  <2> HIDE DEF t
  <2>1. t.timer \in 0..TxTimer /\ t.timer > 0
    BY <1>2, <1>3 DEF Senders
  <2>2. t.timer - 1 \in 0..TxTimer
    BY <2>1, ChannelSizes
  <2> QED
    BY <1>2, <1>3, <2>2 DEF Senders
<1>4. CASE sender' = t /\ UNCHANGED <<wire, unheard>>
  <2> HIDE DEF t
  <2> QED
    BY <1>2, <1>4
<1>5. CASE /\ sender.timer = 0 /\ Len(wire) < WireSize
           /\ wire' = Append(wire, [seq |-> Sequence(t), gap |-> unheard, copy |-> FALSE])
           /\ unheard' = "none" /\ sender' = GivenOut(t)
  <2> HIDE DEF t
  <2>1. Sequence(t) \in {sender.next, SeqLost}
    BY <1>2 DEF Sequence
  <2>2. NextSequence(Sequence(t)) \in 0..SequenceLast
    BY <1>2, <2>1, NumbersFollow, ChannelSizes DEF Senders, Ordinary, SeqLost
  <2>3. sender'.next = NextSequence(Sequence(t)) /\ sender'.timer = TxTimer /\ sender' \in Senders
    BY <1>5, <2>2, ChannelSizes DEF GivenOut, Senders
  <2> QED
    BY <1>5, <2>1, <2>3
<1> QED
  BY <1>3, <1>4, <1>5 DEF MonitorTx

\* The receiver has waited long enough for a message and the rest of a period.
LEMMA EnoughWaits ==
    ASSUME NEW a \in 0..(RxPeriod + 1), NEW n \in Int, NEW r \in Nat, Enough(a, n, r)
    PROVE  Enough(Later(a, RxPeriod + 1), n, r) /\ Enough(Later(a, RxPeriod + 1), n, r + 1)
<1> DEFINE x == (n - WireSize) * (TxTimer + 1)
<1>1. x \in Int
  BY ChannelSizes
<1>2. Enough(Later(a, RxPeriod + 1), n, r) <=>
        (Later(a, RxPeriod + 1) > RxPeriod \/ Later(a, RxPeriod + 1) >= x + r)
  BY DEF Enough
<1>3. Enough(Later(a, RxPeriod + 1), n, r + 1) <=>
        (Later(a, RxPeriod + 1) > RxPeriod \/ Later(a, RxPeriod + 1) >= x + (r + 1))
  BY DEF Enough
<1>4. a > RxPeriod \/ a >= x + r
  BY DEF Enough
<1> HIDE DEF x
<1>5. Later(a, RxPeriod + 1) > RxPeriod \/ Later(a, RxPeriod + 1) = a + 1
  BY ChannelSizes DEF Later
<1> QED
  BY <1>1, <1>2, <1>3, <1>4, <1>5, ChannelSizes

LEMMA EnoughNext ==
    ASSUME NEW a \in Nat, NEW n \in Int, Enough(a, n, TxTimer + 1)
    PROVE  Enough(a, n + 1, 0)
<1> DEFINE x == (n - WireSize) * (TxTimer + 1)
<1>1. x \in Int /\ (a > RxPeriod \/ a >= x + (TxTimer + 1))
  BY ChannelSizes DEF Enough
<1>2. ((n + 1) - WireSize) * (TxTimer + 1) = x + (TxTimer + 1)
  BY PeriodsAdd
<1> HIDE DEF x
<1>3. a > RxPeriod \/ a >= ((n + 1) - WireSize) * (TxTimer + 1) + 0
  BY <1>1, <1>2, ChannelSizes
<1> QED
  BY <1>3 DEF Enough

LEMMA EnoughSoon ==
    ASSUME NEW n \in Int, n < WireSize, NEW r \in 0..TxTimer
    PROVE  Enough(0, n, r)
<1> DEFINE x == (n - WireSize) * (TxTimer + 1)
<1>1. x \in Int /\ x + TxTimer < 0
  BY FewPeriods, ChannelSizes
<1>2. Enough(0, n, r) <=> 0 > RxPeriod \/ 0 >= x + r
  BY DEF Enough
<1> HIDE DEF x
<1> QED
  BY <1>1, <1>2, ChannelSizes

\* The messages of the wire.
LEMMA OnTheWire ==
    ASSUME ChannelTypeOK
    PROVE  /\ wire \in Seq(Message) /\ Len(wire) \in 0..WireSize
           /\ \A i \in 1..Len(wire) : wire[i] \in Message /\ wire[i].seq \in 0..SeqLost
           /\ Copies \in {0, 1} /\ Copies <= Len(wire)
           /\ sender \in Senders /\ receiver \in Receivers
<1>1. wire \in Seq(Message) /\ sender \in Senders /\ receiver \in Receivers
  BY DEF ChannelTypeOK, Message, Senders, Receivers
<1>2. Len(wire) \in 0..WireSize
  BY <1>1, ChannelSizes DEF ChannelTypeOK
<1>3. \A i \in 1..Len(wire) : wire[i] \in Message
  BY <1>1
<1>4. \A i \in 1..Len(wire) : wire[i].seq \in 0..SeqLost
  BY <1>3 DEF Message
<1>5. wire # <<>> => Len(wire) > 0
  BY <1>1
<1>6. Copies \in {0, 1} /\ Copies <= Len(wire)
  BY <1>1, <1>2, <1>5 DEF Copies
<1> QED
  BY <1>1, <1>2, <1>3, <1>4, <1>6

\* A call of the slow handlers that sends nothing.
LEMMA QuietCall ==
    ASSUME ChannelTypeOK, WireInv, ReceiverInv, ChannelTypeOK', MonitorRx,
           UNCHANGED <<wire, unheard>>, sender'.next = sender.next,
           sender'.timer = sender.timer \/ sender'.timer = sender.timer - 1
    PROVE  WireInv' /\ ReceiverInv'
<1> USE OnTheWire
<1>1. WireInv'
  BY DEF WireInv, Counted
<1>2. Gap' = Gap /\ Copies' = Copies /\ wire' = wire
  BY DEF Gap, Copies
<1>4. SUFFICES ASSUME receiver'.expected \in Ordinary, Gap' # "anew"
               PROVE  \E k \in Nat : Behind(k)'
  BY <1>1 DEF ReceiverInv
<1>5. receiver'.expected = receiver.expected /\ receiver'.age = Later(receiver.age, RxPeriod + 1)
  BY <1>4, ReceiverWaits, ChannelSizes DEF Ordinary, SeqInvalid
<1>6. PICK k \in Nat : Behind(k)
  BY <1>2, <1>4, <1>5 DEF ReceiverInv
<1>7. Copies \in Int /\ Len(wire) \in Int /\ receiver.age \in 0..(RxPeriod + 1)
  BY DEF Receivers
<1>8. ASSUME NEW j \in (Copies + 1)..Len(wire), Counted(wire, Copies, j)
      PROVE  /\ After(receiver'.expected, wire[j].seq, k + j - Copies - 1)
             /\ Enough(receiver'.age, k + j - Copies, 0)
  <2>1. After(receiver.expected, wire[j].seq, k + j - Copies - 1) /\ Enough(receiver.age, k + j - Copies, 0)
    BY <1>6, <1>8 DEF Behind
  <2>2. k + j - Copies \in Int
    BY <1>7
  <2>3. Enough(Later(receiver.age, RxPeriod + 1), k + j - Copies, 0)
    BY <2>1, <2>2, <1>7, EnoughWaits
  <2> QED
    BY <2>1, <2>3, <1>5
<1>9. ASSUME Counted(wire, Copies, Len(wire)), sender.next \in Ordinary
      PROVE  /\ After(receiver'.expected, sender.next, k + Len(wire) - Copies)
             /\ Enough(receiver'.age, k + Len(wire) - Copies, TxTimer - sender'.timer)
  <2> DEFINE n == k + Len(wire) - Copies
             r == TxTimer - sender.timer
  <2>1. After(receiver.expected, sender.next, n) /\ Enough(receiver.age, n, r)
    BY <1>6, <1>9 DEF Behind
  <2>2. n \in Int /\ r \in Nat /\ TxTimer - sender'.timer \in {r, r + 1}
    <3>1. TxTimer \in Nat /\ sender.timer \in 0..TxTimer
      BY ChannelSizes DEF Senders
    <3>2. n \in Int
      BY <1>7
    <3>3. r \in Nat
      BY <3>1
    <3>4. sender'.timer = sender.timer => TxTimer - sender'.timer = r
      OBVIOUS
    <3>5. sender'.timer = sender.timer - 1 => TxTimer - sender'.timer = r + 1
      BY <3>1
    <3> HIDE DEF n, r
    <3> QED
      BY <3>2, <3>3, <3>4, <3>5
  <2>3. Enough(receiver'.age, n, r) /\ Enough(receiver'.age, n, r + 1)
    <3> HIDE DEF n, r
    <3> QED
      BY <2>1, <2>2, <1>7, <1>5, EnoughWaits
  <2>4. Enough(receiver'.age, n, TxTimer - sender'.timer)
    <3> HIDE DEF n, r
    <3> QED
      BY <2>2, <2>3
  <2> QED
    BY <2>1, <2>4, <1>5
<1>10. Gap' = "none" => k = 0
  BY <1>2, <1>6 DEF Behind
<1>11. Gap' = "lost" => k > 0
  BY <1>2, <1>6 DEF Behind
<1> QED
  BY <1>2, <1>8, <1>9, <1>10, <1>11 DEF Behind

\* One message q more on the wire.
LEMMA LongerWire ==
    ASSUME ChannelTypeOK, NEW q \in 0..SeqLost,
           wire' = Append(wire, [seq |-> q, gap |-> unheard, copy |-> FALSE])
    PROVE  /\ Len(wire') = Len(wire) + 1 /\ wire' # <<>> /\ wire' \in Seq(Message)
           /\ \A i \in 1..Len(wire) : wire'[i] = wire[i]
           /\ wire'[Len(wire) + 1].seq = q /\ wire'[Len(wire) + 1].gap = unheard
           /\ ~wire'[Len(wire) + 1].copy
           /\ \A i \in Nat, j \in 1..Len(wire) : Counted(wire', i, j) <=> Counted(wire, i, j)
           /\ \A i \in 0..Len(wire) :
                 Counted(wire', i, Len(wire) + 1) <=> Counted(wire, i, Len(wire)) /\ q \in Ordinary
<1> DEFINE m == [seq |-> q, gap |-> unheard, copy |-> FALSE]
<1>1. m \in Message /\ m.seq = q /\ m.gap = unheard /\ ~m.copy
  BY SomeMessage DEF ChannelTypeOK
<1>2. wire \in Seq(Message) /\ wire' = Append(wire, m)
  BY OnTheWire
<1> HIDE DEF m
<1>3. Len(wire') = Len(wire) + 1 /\ wire' # <<>> /\ wire' \in Seq(Message)
  BY <1>1, <1>2
<1>4. \A i \in 1..Len(wire) : wire'[i] = wire[i]
  BY <1>1, <1>2
<1>5. wire'[Len(wire) + 1] = m
  BY <1>1, <1>2
<1>6. \A i \in Nat, j \in 1..Len(wire) : Counted(wire', i, j) <=> Counted(wire, i, j)
  BY <1>2, <1>4 DEF Counted
<1>7. \A i \in 0..Len(wire) :
         Counted(wire', i, Len(wire) + 1) <=> Counted(wire, i, Len(wire)) /\ q \in Ordinary
  BY <1>1, <1>2, <1>4, <1>5 DEF Counted
<1> QED
  BY <1>1, <1>3, <1>4, <1>5, <1>6, <1>7

\* A call of the slow handlers that sends message q.
LEMMA SendingCall ==
    ASSUME ChannelTypeOK, WireInv, ReceiverInv, ChannelTypeOK', MonitorRx,
           sender.timer = 0, sender'.timer = TxTimer, unheard' = "none",
           NEW q \in {sender.next, SeqLost}, sender'.next = NextSequence(q),
           wire' = Append(wire, [seq |-> q, gap |-> unheard, copy |-> FALSE])
    PROVE  WireInv' /\ ReceiverInv'
<1>1. /\ wire \in Seq(Message) /\ Len(wire) \in Nat
      /\ Copies \in {0, 1} /\ Copies <= Len(wire) /\ receiver.age \in 0..(RxPeriod + 1)
      /\ \A i \in 1..Len(wire) : wire[i].seq \in 0..SeqLost
  <2>1. receiver.age \in 0..(RxPeriod + 1)
    BY OnTheWire DEF Receivers
  <2>2. Len(wire) \in Nat
    BY OnTheWire, ChannelSizes
  <2> QED
    BY <2>1, <2>2, OnTheWire
<1> USE <1>1
<1>2. q \in 0..SeqLost /\ SeqLost \notin Ordinary
  BY OnTheWire, ChannelSizes DEF Senders, SeqLost, Ordinary
<1>3. q \in Ordinary => q = sender.next
  BY <1>2
<1> DEFINE L == Len(wire)
<1>4. /\ Len(wire') = L + 1 /\ wire' # <<>>
      /\ \A i \in 1..L : wire'[i] = wire[i]
      /\ wire'[L + 1].seq = q /\ wire'[L + 1].gap = unheard /\ ~wire'[L + 1].copy
      /\ \A i \in Nat, j \in 1..L : Counted(wire', i, j) <=> Counted(wire, i, j)
      /\ \A i \in 0..L : Counted(wire', i, L + 1) <=> Counted(wire, i, L) /\ q \in Ordinary
  BY <1>2, LongerWire
<1>5. (L = 0 <=> wire = <<>>) /\ Copies \in 0..L /\ Copies \in Int
  <2>1. L = 0 <=> wire = <<>>
    OBVIOUS
  <2>2. Copies \in 0..L
    OBVIOUS
  <2> QED
    BY <2>1, <2>2
<1>6. Copies' = Copies /\ Gap' = Gap
  BY <1>4, <1>5 DEF Copies, Gap
<1>7. \A i \in 1..L + 1 : i > 1 => wire'[i].gap = "none" /\ ~wire'[i].copy
  BY <1>4, <1>5 DEF WireInv
<1>8. wire' # <<>> => unheard' = "none" /\ (wire'[1].copy => wire'[1].gap = "none")
  BY <1>4, <1>5 DEF WireInv
<1>9. ASSUME NEW i \in 1..L, Counted(wire, i, L), q \in Ordinary
      PROVE  /\ After(NextSequence(wire[i].seq), q, L - i)
             /\ After(NextSequence(wire[i].seq), sender'.next, (L + 1) - i)
  <2>1. After(NextSequence(wire[i].seq), q, L - i)
    BY <1>3, <1>9 DEF WireInv
  <2>2. NextSequence(wire[i].seq) \in Ordinary /\ L - i \in Nat
    BY NumbersFollow
  <2>3. After(NextSequence(wire[i].seq), NextSequence(q), (L - i) + 1)
    BY <1>9, <2>1, <2>2, AfterNext
  <2>4. (L - i) + 1 = (L + 1) - i
    OBVIOUS
  <2> QED
    BY <2>1, <2>3, <2>4
<1>10. ASSUME NEW i \in 1..L + 1, NEW j \in 1..L + 1, i < j, Counted(wire', i, j)
       PROVE  After(NextSequence(wire'[i].seq), wire'[j].seq, j - i - 1)
  <2>1. CASE j <= L
    <3>1. i \in 1..L /\ j \in 1..L
      BY <1>10, <2>1
    <3>4. i \in Nat /\ Counted(wire', i, j)
      BY <1>10
    <3>5. Counted(wire, i, j)
      BY <3>1, <3>4, <1>4
    <3>2. Counted(wire, i, j) /\ wire'[i] = wire[i] /\ wire'[j] = wire[j]
      BY <3>1, <3>5, <1>4
    <3>3. After(NextSequence(wire[i].seq), wire[j].seq, j - i - 1)
      BY <3>1, <3>2, <1>10 DEF WireInv
    <3> QED
      BY <3>2, <3>3
  <2>2. CASE j = L + 1
    <3>1. i \in 1..L /\ Counted(wire, i, L) /\ q \in Ordinary /\ L - i = j - i - 1
      BY <1>4, <1>10, <2>2
    <3>2. After(NextSequence(wire[i].seq), q, L - i)
      BY <3>1, <1>9
    <3> QED
      BY <3>1, <3>2, <1>4, <2>2
  <2> QED
    BY <2>1, <2>2, <1>1
<1>11. ASSUME NEW i \in 1..L + 1, Counted(wire', i, L + 1)
       PROVE  After(NextSequence(wire'[i].seq), sender'.next, (L + 1) - i)
  <2>1. CASE i \in 1..L
    <3>2. i \in 0..L
      BY <2>1
    <3>1. Counted(wire, i, L) /\ q \in Ordinary
      BY <3>2, <1>4, <1>11
    <3>3. wire'[i] = wire[i]
      BY <1>4, <2>1
    <3> QED
      BY <3>1, <3>3, <2>1, <1>9
  <2>2. CASE i = L + 1
    <3>1. After(sender'.next, sender'.next, 0)
      BY <1>2, NumbersFollow, AfterItself
    <3>2. NextSequence(wire'[i].seq) = sender'.next /\ (L + 1) - i = 0
      BY <1>4, <2>2
    <3> QED
      BY <3>1, <3>2
  <2> QED
    BY <2>1, <2>2, <1>1
<1>12. WireInv'
  <2> DEFINE M == Len(wire')
  <2>1. \A i \in 1..M : i > 1 => wire'[i].gap = "none" /\ ~wire'[i].copy
    BY <1>4, <1>7
  <2>2. \A i, j \in 1..M :
           i < j /\ Counted(wire', i, j) => After(NextSequence(wire'[i].seq), wire'[j].seq, j - i - 1)
    BY <1>4, <1>10
  <2>3. \A i \in 1..M :
           Counted(wire', i, M) /\ sender'.next \in Ordinary =>
              After(NextSequence(wire'[i].seq), sender'.next, M - i)
    <3>1. M = L + 1
      <4>1. L \in Nat /\ Len(wire') = L + 1
        BY <1>4
      <4> QED
        BY <4>1
    <3> HIDE DEF L, M
    <3> SUFFICES ASSUME NEW i \in 1..L + 1, Counted(wire', i, L + 1)
                 PROVE  After(NextSequence(wire'[i].seq), sender'.next, (L + 1) - i)
      BY <3>1
    <3> QED
      BY <1>11
  <2> QED
    BY <1>8, <2>1, <2>2, <2>3 DEF WireInv
<1>13. SUFFICES ASSUME receiver'.expected \in Ordinary, Gap' # "anew"
                PROVE  \E k \in Nat : Behind(k)'
  BY <1>12 DEF ReceiverInv
<1>14. receiver'.expected = receiver.expected /\ receiver'.age = Later(receiver.age, RxPeriod + 1)
  <2>1. SeqInvalid \notin Ordinary
    BY ChannelSizes DEF Ordinary, SeqInvalid
  <2>2. receiver \in Receivers
    BY OnTheWire
  <2> QED
    BY <1>13, <2>1, <2>2, ReceiverWaits
<1>15. PICK k \in Nat : Behind(k)
  BY <1>6, <1>13, <1>14 DEF ReceiverInv
<1> DEFINE n == k + L - Copies
           a == receiver'.age
<1>16. n \in Nat /\ a \in Nat
  <2>1. Copies \in Nat /\ L \in Nat /\ Copies <= L
    BY <1>5
  <2>2. n \in Nat
    <3> HIDE DEF L
    <3> QED
      BY <2>1
  <2>3. receiver.age \in Nat /\ RxPeriod + 1 \in Nat
    BY OnTheWire, ChannelSizes DEF Receivers
  <2>4. a \in Nat
    BY <1>14, <2>3 DEF Later
  <2> QED
    BY <2>2, <2>4
<1>17. ASSUME Counted(wire, Copies, L), q \in Ordinary
       PROVE  /\ After(receiver'.expected, q, n) /\ After(receiver'.expected, sender'.next, n + 1)
              /\ Enough(a, n + 1, 0)
  <2>1. After(receiver.expected, q, n) /\ Enough(receiver.age, n, TxTimer - 0)
    BY <1>3, <1>15, <1>17 DEF Behind
  <2>2. TxTimer - 0 = TxTimer /\ TxTimer \in Nat
    BY ChannelSizes
  <2>3. Enough(a, n, TxTimer + 1)
    <3> HIDE DEF n, L
    <3>1. n \in Int /\ Enough(receiver.age, n, TxTimer)
      BY <1>16, <2>1, <2>2
    <3>2. Enough(Later(receiver.age, RxPeriod + 1), n, TxTimer + 1)
      BY <2>2, <3>1, EnoughWaits
    <3> QED
      BY <3>2, <1>14
  <2>4. Enough(a, n + 1, 0)
    <3> HIDE DEF n, a, L
    <3> QED
      BY <1>16, <2>3, EnoughNext
  <2>5. After(receiver'.expected, sender'.next, n + 1)
    <3> HIDE DEF n, a, L
    <3> QED
      BY <1>13, <1>14, <1>16, <1>17, <2>1, AfterNext
  <2> QED
    BY <2>1, <2>4, <2>5, <1>14
<1>18. ASSUME NEW j \in (Copies + 1)..L + 1, Counted(wire', Copies, j)
       PROVE  /\ After(receiver'.expected, wire'[j].seq, k + j - Copies - 1)
              /\ Enough(a, k + j - Copies, 0)
  <2>1. CASE j <= L
    <3>1. j \in (Copies + 1)..L /\ Counted(wire, Copies, j) /\ wire'[j] = wire[j]
      BY <1>4, <1>18, <2>1
    <3>2. After(receiver.expected, wire[j].seq, k + j - Copies - 1) /\ Enough(receiver.age, k + j - Copies, 0)
      BY <3>1, <1>15 DEF Behind
    <3>3. k + j - Copies \in Int
      BY <1>1
    <3> DEFINE x == k + j - Copies
    <3>5. receiver.age \in 0..(RxPeriod + 1) /\ 0 \in Nat /\ x \in Int /\ Enough(receiver.age, x, 0)
      BY <3>2, <3>3
    <3> HIDE DEF x
    <3>6. Enough(Later(receiver.age, RxPeriod + 1), x, 0)
      BY <3>5, EnoughWaits
    <3>4. Enough(a, x, 0)
      BY <3>6, <1>14
    <3> USE DEF x
    <3> QED
      BY <3>1, <3>2, <3>4, <1>14
  <2>2. CASE j = L + 1
    <3>1. Counted(wire, Copies, L) /\ q \in Ordinary
      BY <1>4, <1>5, <1>18, <2>2
    <3>3. wire'[j].seq = q
      BY <1>4, <2>2
    <3>2. k + j - Copies - 1 = n /\ k + j - Copies = n + 1
      BY <2>2
    <3> HIDE DEF n, a
    <3> QED
      BY <3>1, <3>2, <3>3, <1>17
  <2> QED
    BY <2>1, <2>2, <1>1
<1>19. ASSUME Counted(wire', Copies, L + 1), sender'.next \in Ordinary
       PROVE  /\ After(receiver'.expected, sender'.next, k + (L + 1) - Copies)
              /\ Enough(a, k + (L + 1) - Copies, TxTimer - sender'.timer)
  <2>1. Counted(wire, Copies, L) /\ q \in Ordinary
    BY <1>4, <1>5, <1>19
  <2>2. k + (L + 1) - Copies = n + 1
    BY <1>5
  <2>3. TxTimer - sender'.timer = 0
    BY ChannelSizes
  <2> HIDE DEF n, a
  <2> QED
    BY <2>1, <2>2, <2>3, <1>17
<1>20. (Gap' = "none" => k = 0) /\ (Gap' = "lost" => k > 0)
  BY <1>6, <1>15 DEF Behind
<1>21. Behind(k)'
  BY <1>4, <1>6, <1>18, <1>19, <1>20 DEF Behind
<1> QED
  BY <1>21

\* The first message is gone from the wire.
LEMMA ShorterWire ==
    ASSUME ChannelTypeOK, WireInv, wire # <<>>, wire' \in Seq(Message),
           Len(wire') = Len(wire) - 1, UNCHANGED sender,
           wire' # <<>> => unheard' = "none",
           \A i \in 1..Len(wire') : /\ wire'[i].seq = wire[i + 1].seq
                                    /\ wire'[i].copy = wire[i + 1].copy
                                    /\ i > 1 => wire'[i].gap = wire[i + 1].gap
    PROVE  /\ WireInv' /\ Copies' = 0
           /\ \A i \in Nat, j \in 0..Len(wire') : Counted(wire', i, j) <=> Counted(wire, i + 1, j + 1)
<1> DEFINE L == Len(wire)
           M == Len(wire')
<1>1. L \in Nat /\ M \in Nat /\ L = M + 1 /\ (M = 0 <=> wire' = <<>>)
  BY OnTheWire, ChannelSizes
<1>2. \A i \in 1..M : i + 1 \in 2..L /\ wire[i + 1].gap = "none" /\ ~wire[i + 1].copy
  BY <1>1 DEF WireInv
<1>3. \A i \in Nat, j \in 0..M : Counted(wire', i, j) <=> Counted(wire, i + 1, j + 1)
  <2> SUFFICES ASSUME NEW i \in Nat, NEW j \in 0..M
               PROVE  Counted(wire', i, j) <=> Counted(wire, i + 1, j + 1)
    OBVIOUS
  <2>1. ASSUME Counted(wire, i + 1, j + 1), NEW l \in (i + 1)..j PROVE wire'[l].seq \in Ordinary
    <3>1. l \in 1..M /\ l + 1 \in (i + 1 + 1)..(j + 1)
      BY <1>1
    <3>2. wire[l + 1].seq \in Ordinary
      BY <3>1, <2>1 DEF Counted
    <3> QED
      BY <3>1, <3>2
  <2>2. ASSUME Counted(wire', i, j), NEW l \in (i + 1 + 1)..(j + 1) PROVE wire[l].seq \in Ordinary
    <3>1. l - 1 \in 1..M /\ l - 1 \in (i + 1)..j /\ (l - 1) + 1 = l
      BY <1>1
    <3>2. wire'[l - 1].seq \in Ordinary
      BY <3>1, <2>2 DEF Counted
    <3>3. wire'[l - 1].seq = wire[(l - 1) + 1].seq
      BY <3>1
    <3> QED
      BY <3>1, <3>2, <3>3
  <2> QED
    BY <2>1, <2>2 DEF Counted
<1>4. \A i \in 1..M : i > 1 => wire'[i].gap = "none" /\ ~wire'[i].copy
  BY <1>1, <1>2
<1>5. wire' # <<>> => unheard' = "none" /\ ~wire'[1].copy
  BY <1>1, <1>2
<1>6. \A i, j \in 1..M :
         i < j /\ Counted(wire', i, j) => After(NextSequence(wire'[i].seq), wire'[j].seq, j - i - 1)
  <2> SUFFICES ASSUME NEW i \in 1..M, NEW j \in 1..M, i < j, Counted(wire', i, j)
               PROVE  After(NextSequence(wire'[i].seq), wire'[j].seq, j - i - 1)
    OBVIOUS
  <2>1. i + 1 \in 1..L /\ j + 1 \in 1..L /\ i + 1 < j + 1 /\ (j + 1) - (i + 1) - 1 = j - i - 1
    BY <1>1
  <2>2. i \in Nat /\ j \in 0..M
    BY <1>1
  <2>3. Counted(wire, i + 1, j + 1)
    BY <2>2, <1>3
  <2>4. After(NextSequence(wire[i + 1].seq), wire[j + 1].seq, (j + 1) - (i + 1) - 1)
    BY <2>1, <2>3 DEF WireInv
  <2> QED
    BY <2>1, <2>4
<1>7. \A i \in 1..M :
         Counted(wire', i, M) /\ sender'.next \in Ordinary =>
            After(NextSequence(wire'[i].seq), sender'.next, M - i)
  <2> SUFFICES ASSUME NEW i \in 1..M, Counted(wire', i, M), sender'.next \in Ordinary
               PROVE  After(NextSequence(wire'[i].seq), sender'.next, M - i)
    OBVIOUS
  <2>1. i + 1 \in 1..L /\ L - (i + 1) = M - i
    BY <1>1
  <2>2. i \in Nat /\ M \in 0..M
    BY <1>1
  <2>3. Counted(wire, i + 1, L)
    BY <1>1, <2>2, <1>3
  <2>4. After(NextSequence(wire[i + 1].seq), sender.next, L - (i + 1))
    BY <2>1, <2>3 DEF WireInv
  <2> QED
    BY <2>1, <2>4
<1>8. WireInv'
  BY <1>4, <1>5, <1>6, <1>7 DEF WireInv
<1>9. Copies' = 0
  BY <1>5 DEF Copies
<1> QED
  BY <1>3, <1>8, <1>9

\* A message that the receiver trusts: the numbers have not come round since the
\* one before, so none is missing.
LEMMA TrustedHead ==
    ASSUME ChannelTypeOK, WireInv, ReceiverInv, wire # <<>>, Hears(wire[1])
    PROVE  /\ TrustedInSequence'
           /\ receiver'.expected = NextSequence(wire[1].seq) /\ receiver'.age = 0
<1> DEFINE m == wire[1]
<1>1. /\ receiver'.expected = NextSequence(m.seq) /\ receiver'.age = 0 /\ receiver'.gap = m.gap
      /\ receiver'.valid = Preserved(m.seq)
  BY DEF Hears
<1>2. Len(wire) \in Nat /\ Len(wire) > 0 /\ m.seq \in 0..SeqLost
  BY OnTheWire, ChannelSizes
<1>3. Preserved(m.seq) => m.gap # "lost"
  <2> SUFFICES ASSUME Preserved(m.seq), m.gap = "lost" PROVE FALSE
    OBVIOUS
  <2>1. m.seq = receiver.expected /\ receiver.age <= RxPeriod
    BY DEF Preserved, PeriodValid
  <2>2. receiver.expected \in Ordinary \cup {SeqInvalid} /\ receiver.age \in Nat
    BY OnTheWire, ChannelSizes DEF Receivers, Ordinary
  <2>3. receiver.expected \in Ordinary
    BY <2>1, <2>2, <1>2, ChannelSizes DEF SeqLost, SeqInvalid
  <2>4. Gap = "lost" /\ Copies = 0
    BY DEF Gap, Copies, WireInv
  <2>5. PICK k \in Nat : Behind(k)
    BY <2>3, <2>4 DEF ReceiverInv
  <2>6. k > 0
    BY <2>4, <2>5 DEF Behind
  <2>7. 1 \in (Copies + 1)..Len(wire) /\ Counted(wire, Copies, 1)
    BY <2>1, <2>3, <2>4, <1>2 DEF Counted
  <2>8. After(receiver.expected, m.seq, k + 1 - Copies - 1) /\ Enough(receiver.age, k + 1 - Copies, 0)
    BY <2>5, <2>7 DEF Behind
  <2>9. k + 1 - Copies - 1 = k /\ k + 1 - Copies = k + 1
    BY <2>4
  <2>10. After(receiver.expected, receiver.expected, k) /\ Enough(receiver.age, k + 1, 0)
    BY <2>1, <2>8, <2>9
  <2>11. k >= SequenceLast
    BY <2>3, <2>6, <2>10, ChannelSizes DEF After, Ordinary
  <2> DEFINE x == ((k + 1) - WireSize) * (TxTimer + 1)
  <2>12. x > RxPeriod /\ (receiver.age > RxPeriod \/ receiver.age >= x + 0)
    BY <2>10, <2>11, ManyPeriods, ChannelSizes DEF Enough
  <2>13. x \in Int
    BY ChannelSizes
  <2> HIDE DEF x
  <2> QED
    BY <2>1, <2>2, <2>12, <2>13, ChannelSizes
<1> QED
  BY <1>1, <1>3 DEF TrustedInSequence

LEMMA Positions ==
    ASSUME NEW c \in {0, 1}, NEW M \in Nat, NEW L \in 1..WireSize, M - c = L - 1
    PROVE  /\ 0 + M - c = L - 1 /\ L - 1 \in Int /\ L - 1 < WireSize
           /\ \A j \in (c + 1)..M :
                 /\ (j + 1) - c \in 2..L /\ 1 < (j + 1) - c
                 /\ (j + 1) - c - 1 - 1 = 0 + j - c - 1 /\ (j + 1) - c - 1 = 0 + j - c
                 /\ (j + 1) - c - 1 < WireSize
BY ChannelSizes

\* The receiver has heard the first message, and nothing is lost behind it.
LEMMA HeardHead ==
    ASSUME ChannelTypeOK, WireInv, wire # <<>>, UNCHANGED sender,
           receiver'.expected = NextSequence(wire[1].seq), receiver'.age = 0, Gap' = "none",
           NEW c \in {0, 1}, NEW M \in Nat, M - c = Len(wire) - 1,
           \A j \in (c + 1)..M : wire'[j].seq = wire[(j + 1) - c].seq,
           \A j \in (c + 1)..M : Counted(wire', c, j) => Counted(wire, 1, (j + 1) - c),
           Counted(wire', c, M) => Counted(wire, 1, Len(wire))
    PROVE  Copies' = c /\ Len(wire') = M => ReceiverInv'
<1> DEFINE L == Len(wire)
<1>1. L \in 1..WireSize /\ 1 \in 1..L
  <2>1. L \in 0..WireSize /\ wire \in Seq(Message)
    BY OnTheWire
  <2>2. L > 0
    BY <2>1
  <2> QED
    BY <2>1, <2>2, ChannelSizes
<1>2. /\ 0 + M - c = L - 1 /\ L - 1 \in Int /\ L - 1 < WireSize
      /\ \A j \in (c + 1)..M :
            /\ (j + 1) - c \in 2..L /\ 1 < (j + 1) - c
            /\ (j + 1) - c - 1 - 1 = 0 + j - c - 1 /\ (j + 1) - c - 1 = 0 + j - c
            /\ (j + 1) - c - 1 < WireSize
  <2>1. M - c = L - 1
    OBVIOUS
  <2> HIDE DEF L
  <2> QED
    BY <1>1, <2>1, Positions
<1>3. ASSUME NEW j \in (c + 1)..M, Counted(wire', c, j)
      PROVE  After(receiver'.expected, wire'[j].seq, 0 + j - c - 1) /\ Enough(receiver'.age, 0 + j - c, 0)
  <2> DEFINE i == (j + 1) - c
  <2>1. i \in 2..L /\ 1 < i /\ i - 1 - 1 = 0 + j - c - 1 /\ i - 1 = 0 + j - c /\ i - 1 < WireSize
    BY <1>2
  <2>2. Counted(wire, 1, i) /\ wire'[j].seq = wire[i].seq
    BY <1>3
  <2>3. After(NextSequence(wire[1].seq), wire[i].seq, i - 1 - 1)
    <3> HIDE DEF i, L
    <3>1. i \in 1..L
      BY <2>1, <1>1
    <3> QED
      BY <1>1, <2>1, <2>2, <3>1 DEF WireInv, L
  <2>4. Enough(0, i - 1, 0)
    <3>1. i - 1 \in Int /\ 0 \in 0..TxTimer
      BY <2>1, ChannelSizes
    <3> HIDE DEF i
    <3> QED
      BY <3>1, <2>1, EnoughSoon
  <2> QED
    BY <2>1, <2>2, <2>3, <2>4
<1>4. ASSUME Counted(wire', c, M), sender'.next \in Ordinary
      PROVE  /\ After(receiver'.expected, sender'.next, 0 + M - c)
             /\ Enough(receiver'.age, 0 + M - c, TxTimer - sender'.timer)
  <2>1. 0 + M - c = L - 1 /\ L - 1 \in Int /\ L - 1 < WireSize
    BY <1>2
  <2>2. Counted(wire, 1, L)
    BY <1>4
  <2>3. After(NextSequence(wire[1].seq), sender.next, L - 1)
    BY <1>1, <1>4, <2>2 DEF WireInv
  <2>4. TxTimer - sender.timer \in 0..TxTimer
    <3>1. sender.timer \in 0..TxTimer
      BY OnTheWire DEF Senders
    <3> QED
      BY <3>1, ChannelSizes
  <2>5. Enough(0, L - 1, TxTimer - sender.timer)
    BY <2>1, <2>4, EnoughSoon
  <2> QED
    BY <2>1, <2>3, <2>5
<1>5. Copies' = c /\ Len(wire') = M => Behind(0)'
  BY <1>3, <1>4 DEF Behind
<1> QED
  BY <1>5 DEF ReceiverInv

\* The wire without its first message.
LEMMA WireTail ==
    ASSUME ChannelTypeOK, wire # <<>>
    PROVE  /\ Head(wire) = wire[1] /\ wire[1] \in Message
           /\ Tail(wire) \in Seq(Message) /\ Len(Tail(wire)) = Len(wire) - 1
           /\ \A i \in 1..Len(Tail(wire)) : Tail(wire)[i] = wire[i + 1]
           /\ Len(wire) \in 1..WireSize
<1>1. wire \in Seq(Message) /\ Len(wire) \in 0..WireSize
  BY OnTheWire
<1>2. Len(wire) > 0
  BY <1>1
<1> QED
  BY <1>1, <1>2, ChannelSizes

LEMMA DeliverKeeps ==
    ASSUME ChannelTypeOK, WireInv, ReceiverInv, Deliver
    PROVE  WireInv' /\ ReceiverInv' /\ TrustedInSequence'
<1>1. /\ wire # <<>> /\ Hears(wire[1]) /\ wire' = Tail(wire) /\ UNCHANGED <<sender, unheard>>
      /\ unheard = "none"
  BY WireTail DEF Deliver, WireInv
<1>2. /\ wire' \in Seq(Message) /\ Len(wire') = Len(wire) - 1
      /\ \A i \in 1..Len(wire') : wire'[i] = wire[i + 1]
  BY <1>1, WireTail
<1>3. /\ WireInv' /\ Copies' = 0
      /\ \A i \in Nat, j \in 0..Len(wire') : Counted(wire', i, j) <=> Counted(wire, i + 1, j + 1)
  BY <1>1, <1>2, ShorterWire
<1>4. /\ TrustedInSequence'
      /\ receiver'.expected = NextSequence(wire[1].seq) /\ receiver'.age = 0
  BY <1>1, TrustedHead
<1> DEFINE M == Len(wire')
<1>5. M \in Nat /\ M - 0 = Len(wire) - 1 /\ M + 1 = Len(wire)
  BY <1>1, <1>2, WireTail, ChannelSizes
<1>6. Gap' = "none"
  <2>1. CASE wire' = <<>>
    BY <2>1, <1>1 DEF Gap
  <2>2. CASE wire' # <<>>
    <3>1. 1 \in 1..M /\ 2 \in 1..Len(wire) /\ 2 > 1
      BY <1>2, <1>5, <2>2
    <3>2. wire'[1].gap = "none"
      BY <1>2, <3>1 DEF WireInv
    <3> QED
      BY <2>2, <3>2 DEF Gap
  <2> QED
    BY <2>1, <2>2
<1>7. \A j \in (0 + 1)..M : wire'[j].seq = wire[(j + 1) - 0].seq
  BY <1>2, <1>5
<1>8. \A j \in (0 + 1)..M : Counted(wire', 0, j) => Counted(wire, 1, (j + 1) - 0)
  <2> SUFFICES ASSUME NEW j \in (0 + 1)..M, Counted(wire', 0, j)
               PROVE  Counted(wire, 1, (j + 1) - 0)
    OBVIOUS
  <2>1. 0 \in Nat /\ j \in 0..M /\ 0 + 1 = 1 /\ (j + 1) - 0 = j + 1
    BY <1>5
  <2>2. Counted(wire, 0 + 1, j + 1)
    BY <2>1, <1>3
  <2> QED
    BY <2>1, <2>2
<1>9. Counted(wire', 0, M) => Counted(wire, 1, Len(wire))
  <2>1. 0 \in Nat /\ M \in 0..M /\ 0 + 1 = 1
    BY <1>5
  <2>2. Counted(wire', 0, M) => Counted(wire, 0 + 1, M + 1)
    BY <2>1, <1>3
  <2> QED
    BY <2>1, <2>2, <1>5
<1>10. ReceiverInv'
  <2> HIDE DEF M
  <2>1. Copies' = 0 /\ Len(wire') = M => ReceiverInv'
    BY <1>1, <1>4, <1>5, <1>6, <1>7, <1>8, <1>9, HeardHead
  <2> QED
    BY <2>1, <1>3 DEF M
<1> QED
  BY <1>3, <1>4, <1>10

LEMMA RepeatKeeps ==
    ASSUME ChannelTypeOK, WireInv, ReceiverInv, Repeat
    PROVE  WireInv' /\ ReceiverInv' /\ TrustedInSequence'
<1>1. /\ wire # <<>> /\ Hears(wire[1]) /\ UNCHANGED <<sender, unheard>>
      /\ wire' = [wire EXCEPT ![1].gap = "none", ![1].copy = TRUE]
  BY WireTail DEF Repeat
<1> DEFINE m == [wire[1] EXCEPT !.gap = "none", !.copy = TRUE]
           L == Len(wire)
<1>2. wire[1] \in Message /\ L \in Nat /\ 1 \in 1..L /\ wire \in Seq(Message)
  BY <1>1, WireTail, OnTheWire, ChannelSizes
<1>3. m \in Message /\ m.seq = wire[1].seq /\ m.gap = "none" /\ m.copy
  BY <1>2 DEF Message, Gaps
<1>4. wire' = [wire EXCEPT ![1] = m]
  BY <1>1, <1>2
<1> HIDE DEF m
<1>5. /\ Len(wire') = L /\ wire'[1] = m /\ wire' # <<>>
      /\ \A i \in 1..L : i # 1 => wire'[i] = wire[i]
  BY <1>2, <1>3, <1>4
<1>6. \A i \in 1..L : wire'[i].seq = wire[i].seq
  BY <1>3, <1>5
<1>7. \A i \in Nat, j \in 0..L : Counted(wire', i, j) <=> Counted(wire, i, j)
  BY <1>2, <1>6 DEF Counted
<1>8. WireInv'
  <2>1. \A i \in 1..L : i > 1 => wire'[i].gap = "none" /\ ~wire'[i].copy
    BY <1>2, <1>5 DEF WireInv
  <2>2. unheard' = "none" /\ wire'[1].gap = "none"
    BY <1>1, <1>3, <1>5 DEF WireInv
  <2>3. \A i, j \in 1..L :
           i < j /\ Counted(wire', i, j) => After(NextSequence(wire'[i].seq), wire'[j].seq, j - i - 1)
    <3> SUFFICES ASSUME NEW i \in 1..L, NEW j \in 1..L, i < j, Counted(wire', i, j)
                 PROVE  After(NextSequence(wire'[i].seq), wire'[j].seq, j - i - 1)
      OBVIOUS
    <3>1. Counted(wire, i, j)
      BY <1>2, <1>7
    <3> QED
      BY <3>1, <1>6 DEF WireInv
  <2>4. \A i \in 1..L :
           Counted(wire', i, L) /\ sender'.next \in Ordinary =>
              After(NextSequence(wire'[i].seq), sender'.next, L - i)
    <3> SUFFICES ASSUME NEW i \in 1..L, Counted(wire', i, L), sender'.next \in Ordinary
                 PROVE  After(NextSequence(wire'[i].seq), sender'.next, L - i)
      OBVIOUS
    <3>1. Counted(wire, i, L)
      BY <1>2, <1>7
    <3> QED
      BY <3>1, <1>1, <1>6 DEF WireInv
  <2> QED
    BY <1>5, <2>1, <2>2, <2>3, <2>4 DEF WireInv
<1>9. Copies' = 1 /\ Gap' = "none"
  BY <1>3, <1>5 DEF Copies, Gap
<1>10. /\ TrustedInSequence'
       /\ receiver'.expected = NextSequence(wire[1].seq) /\ receiver'.age = 0
  BY <1>1, TrustedHead
<1>11. \A j \in (1 + 1)..L : wire'[j].seq = wire[(j + 1) - 1].seq
  BY <1>2, <1>6
<1>12. \A j \in (1 + 1)..L : Counted(wire', 1, j) => Counted(wire, 1, (j + 1) - 1)
  <2> SUFFICES ASSUME NEW j \in (1 + 1)..L, Counted(wire', 1, j)
               PROVE  Counted(wire, 1, (j + 1) - 1)
    OBVIOUS
  <2>1. 1 \in Nat /\ j \in 0..L /\ (j + 1) - 1 = j
    BY <1>2
  <2> QED
    BY <2>1, <1>7
<1>13. Counted(wire', 1, L) => Counted(wire, 1, L)
  <2>1. 1 \in Nat /\ L \in 0..L
    BY <1>2
  <2> QED
    BY <2>1, <1>7
<1>14. ReceiverInv'
  <2>1. L - 1 = Len(wire) - 1
    OBVIOUS
  <2>2. Copies' = 1 /\ Len(wire') = L => ReceiverInv'
    <3> DEFINE M == L
    <3>1. M \in Nat /\ M - 1 = Len(wire) - 1
      BY <1>2
    <3>2. \A j \in (1 + 1)..M : wire'[j].seq = wire[(j + 1) - 1].seq
      BY <1>11
    <3>3. \A j \in (1 + 1)..M : Counted(wire', 1, j) => Counted(wire, 1, (j + 1) - 1)
      BY <1>12
    <3>4. Counted(wire', 1, M) => Counted(wire, 1, Len(wire))
      BY <1>13
    <3>5. Copies' = 1 /\ Len(wire') = M => ReceiverInv'
      <4> HIDE DEF M
      <4> QED
        BY <1>1, <1>9, <1>10, <3>1, <3>2, <3>3, <3>4, HeardHead
    <3> QED
      BY <3>5
  <2> QED
    BY <2>2, <1>5, <1>9
<1> QED
  BY <1>8, <1>10, <1>14

\* The first message is lost: the gap before the next one has grown.
LEMMA LostWire ==
    ASSUME ChannelTypeOK, WireInv, Lose
    PROVE  /\ wire # <<>> /\ Len(wire) \in 1..WireSize
           /\ UNCHANGED <<sender, receiver>>
           /\ wire' \in Seq(Message) /\ Len(wire') = Len(wire) - 1
           /\ \A i \in 1..Len(wire') : /\ wire'[i].seq = wire[i + 1].seq
                                       /\ wire'[i].copy = wire[i + 1].copy
                                       /\ i > 1 => wire'[i].gap = wire[i + 1].gap
           /\ wire' # <<>> => unheard' = "none"
           /\ Gap' = LostGap(wire[1])
<1> DEFINE L == Len(wire)
           g == LostGap(wire[1])
           t == Tail(wire)
<1>1. /\ wire # <<>> /\ UNCHANGED <<sender, receiver>> /\ unheard = "none"
      /\ Head(wire) = wire[1]
      /\ wire[1] \in Message /\ L \in 1..WireSize /\ L \in Nat
      /\ t \in Seq(Message) /\ Len(t) = L - 1 /\ \A i \in 1..Len(t) : t[i] = wire[i + 1]
  <2>1. wire # <<>> /\ UNCHANGED <<sender, receiver>>
    BY DEF Lose
  <2>2. L \in 1..WireSize /\ wire[1] \in Message /\ Head(wire) = wire[1]
    BY <2>1, WireTail
  <2>3. t \in Seq(Message) /\ Len(t) = L - 1 /\ \A i \in 1..Len(t) : t[i] = wire[i + 1]
    BY <2>1, WireTail
  <2>4. L \in Nat
    BY <2>2, ChannelSizes
  <2> QED
    BY <2>1, <2>2, <2>3, <2>4 DEF WireInv
<1>2. g \in Gaps /\ Both(g, "none") = g
  BY <1>1 DEF LostGap, Both, Gaps, Message
<1>3. CASE L = 1
  <2>1. wire' = <<>> /\ unheard' = g
    BY <1>1, <1>2, <1>3 DEF Lose
  <2>2. Len(wire') = 0 /\ wire' \in Seq(Message)
    BY <2>1
  <2>3. Gap' = g
    BY <2>1 DEF Gap
  <2> QED
    BY <1>1, <1>3, <2>1, <2>2, <2>3
<1>4. CASE L # 1
  <2>1. 1 \in 1..Len(t) /\ t[1] = wire[2] /\ 2 \in 1..L /\ 2 > 1 /\ t[1] \in Message
    BY <1>1, <1>4
  <2>2. t[1].gap = "none"
    BY <2>1 DEF WireInv
  <2>3. wire' = [t EXCEPT ![1].gap = Both(g, @)] /\ UNCHANGED unheard
    BY <1>1, <1>4 DEF Lose
  <2> DEFINE h == [t[1] EXCEPT !.gap = g]
  <2>4. h \in Message /\ h.seq = t[1].seq /\ h.copy = t[1].copy /\ h.gap = g
    <3> HIDE DEF t, g
    <3> QED
      BY <1>2, <2>1 DEF Message
  <2>5. wire' = [t EXCEPT ![1] = h]
    <3> HIDE DEF t, g
    <3> QED
      BY <1>2, <2>1, <2>2, <2>3
  <2> HIDE DEF h, t
  <2>6. wire' \in Seq(Message) /\ Len(wire') = Len(t)
    BY <1>1, <2>1, <2>4, <2>5
  <2>7. wire'[1] = h /\ \A i \in 1..Len(t) : i # 1 => wire'[i] = t[i]
    BY <1>1, <2>1, <2>5
  <2>8. \A i \in 1..Len(t) : /\ wire'[i].seq = wire[i + 1].seq
                             /\ wire'[i].copy = wire[i + 1].copy
                             /\ i > 1 => wire'[i].gap = wire[i + 1].gap
    <3> SUFFICES ASSUME NEW i \in 1..Len(t)
                 PROVE  /\ wire'[i].seq = wire[i + 1].seq
                        /\ wire'[i].copy = wire[i + 1].copy
                        /\ i > 1 => wire'[i].gap = wire[i + 1].gap
      OBVIOUS
    <3>1. t[i] = wire[i + 1]
      BY <1>1
    <3>2. CASE i = 1
      BY <3>1, <3>2, <2>4, <2>7
    <3>3. CASE i # 1
      BY <3>1, <3>3, <2>7
    <3> QED
      BY <3>2, <3>3
  <2>9. wire' # <<>>
    BY <1>1, <2>1, <2>6
  <2>10. Gap' = g
    BY <2>4, <2>7, <2>9 DEF Gap
  <2> QED
    BY <1>1, <2>3, <2>6, <2>8, <2>10
<1> QED
  BY <1>3, <1>4

LEMMA LoseKeeps ==
    ASSUME ChannelTypeOK, WireInv, ReceiverInv, Lose
    PROVE  WireInv' /\ ReceiverInv'
<1> DEFINE L == Len(wire)
           M == Len(wire')
           m == wire[1]
<1>1. WireInv'
  BY LostWire, ShorterWire
<1>2. Copies' = 0 /\ \A i \in Nat, j \in 0..M : Counted(wire', i, j) <=> Counted(wire, i + 1, j + 1)
  BY LostWire, ShorterWire
<1>3. SUFFICES ASSUME receiver'.expected \in Ordinary, Gap' # "anew"
               PROVE  \E k \in Nat : Behind(k)'
  BY <1>1 DEF ReceiverInv
<1>4. wire # <<>> /\ L \in Nat /\ L = M + 1 /\ M \in Nat /\ UNCHANGED <<sender, receiver>>
  BY LostWire, ChannelSizes
<1>5. m.seq \in 0..SeqLost /\ m.gap \in Gaps /\ m \in Message
  BY <1>4, WireTail DEF Message
<1>6. Gap = m.gap /\ Gap' = LostGap(m) /\ (m.copy => m.gap = "none")
  BY <1>4, LostWire DEF Gap, WireInv
<1>7. Gap # "anew"
  BY <1>3, <1>5, <1>6 DEF LostGap, Both, Gaps
<1>8. PICK k \in Nat : Behind(k)
  BY <1>3, <1>4, <1>7 DEF ReceiverInv
<1>9. \E q \in Nat : Behind(q)'
  <2>1. CASE m.copy
    <3>1. Copies = 1 /\ Gap' = "none" /\ k = 0
      BY <2>1, <1>4, <1>6, <1>8 DEF Copies, LostGap, Behind
    <3>2. ASSUME NEW j \in (0 + 1)..M, Counted(wire', 0, j)
          PROVE  /\ After(receiver.expected, wire'[j].seq, 0 + j - 0 - 1)
                 /\ Enough(receiver.age, 0 + j - 0, 0)
      <4>1. 0 \in Nat /\ j \in 0..M /\ 0 + 1 = 1 /\ j + 1 \in (1 + 1)..L /\ wire'[j].seq = wire[j + 1].seq
        BY <1>4, LostWire
      <4>2. Counted(wire, 1, j + 1)
        BY <4>1, <3>2, <1>2
      <4>3. /\ After(receiver.expected, wire[j + 1].seq, 0 + (j + 1) - 1 - 1)
            /\ Enough(receiver.age, 0 + (j + 1) - 1, 0)
        BY <4>1, <4>2, <3>1, <1>8 DEF Behind
      <4>4. 0 + (j + 1) - 1 - 1 = 0 + j - 0 - 1 /\ 0 + (j + 1) - 1 = 0 + j - 0
        OBVIOUS
      <4> QED
        BY <4>1, <4>3, <4>4
    <3>3. ASSUME Counted(wire', 0, M), sender.next \in Ordinary
          PROVE  /\ After(receiver.expected, sender.next, 0 + M - 0)
                 /\ Enough(receiver.age, 0 + M - 0, TxTimer - sender.timer)
      <4>1. 0 \in Nat /\ M \in 0..M /\ 0 + 1 = 1 /\ 0 + L - 1 = 0 + M - 0
        BY <1>4
      <4>2. Counted(wire, 1, L)
        BY <4>1, <3>3, <1>2, <1>4
      <4>3. /\ After(receiver.expected, sender.next, 0 + L - 1)
            /\ Enough(receiver.age, 0 + L - 1, TxTimer - sender.timer)
        BY <4>2, <3>1, <3>3, <1>8 DEF Behind
      <4> QED
        BY <4>1, <4>3
    <3>4. Behind(0)'
      BY <3>1, <3>2, <3>3, <1>2, <1>4 DEF Behind
    <3> QED
      BY <3>4
  <2>2. CASE ~m.copy
    <3>1. Copies = 0 /\ Gap' = "lost" /\ m.seq \in Ordinary
      <4>1. Copies = 0
        BY <2>2, <1>4 DEF Copies
      <4>2. Gap' = Both(m.gap, IF m.seq \in {SeqReset, SeqLost} THEN "anew" ELSE "lost")
        BY <2>2, <1>6 DEF LostGap
      <4>3. m.seq \notin {SeqReset, SeqLost}
        BY <4>2, <1>3, <1>5 DEF Both, Gaps
      <4>4. Gap' = "lost"
        BY <4>2, <4>3, <1>3, <1>5 DEF Both, Gaps
      <4>5. m.seq \in Ordinary
        BY <4>3, <1>5, ChannelSizes DEF SeqReset, SeqLost, Ordinary
      <4> QED
        BY <4>1, <4>4, <4>5
    <3> DEFINE q == k + 1
    <3>2. ASSUME NEW j \in 0..M, Counted(wire', 0, j) PROVE Counted(wire, 0, j + 1)
      <4>1. 0 \in Nat /\ 0 + 1 = 1
        OBVIOUS
      <4>2. Counted(wire, 1, j + 1)
        BY <4>1, <3>2, <1>2
      <4>3. ASSUME NEW l \in (0 + 1)..(j + 1) PROVE wire[l].seq \in Ordinary
        <5>1. CASE l = 1
          BY <5>1, <3>1
        <5>2. CASE l # 1
          BY <5>2, <4>2, <1>4 DEF Counted
        <5> QED
          BY <5>1, <5>2
      <4> QED
        BY <4>3 DEF Counted
    <3>3. ASSUME NEW j \in (0 + 1)..M, Counted(wire', 0, j)
          PROVE  /\ After(receiver.expected, wire'[j].seq, q + j - 0 - 1)
                 /\ Enough(receiver.age, q + j - 0, 0)
      <4>1. /\ j \in 0..M /\ j + 1 \in (0 + 1)..L /\ wire'[j].seq = wire[j + 1].seq
            /\ k + (j + 1) - 0 - 1 = q + j - 0 - 1 /\ k + (j + 1) - 0 = q + j - 0
        BY <1>4, LostWire
      <4>2. Counted(wire, 0, j + 1)
        BY <4>1, <3>2, <3>3
      <4>3. /\ After(receiver.expected, wire[j + 1].seq, k + (j + 1) - 0 - 1)
            /\ Enough(receiver.age, k + (j + 1) - 0, 0)
        BY <4>1, <4>2, <3>1, <1>8 DEF Behind
      <4> QED
        BY <4>1, <4>3
    <3>4. ASSUME Counted(wire', 0, M), sender.next \in Ordinary
          PROVE  /\ After(receiver.expected, sender.next, q + M - 0)
                 /\ Enough(receiver.age, q + M - 0, TxTimer - sender.timer)
      <4>1. M \in 0..M /\ k + L - 0 = q + M - 0
        BY <1>4
      <4>2. Counted(wire, 0, L)
        BY <4>1, <3>2, <3>4, <1>4
      <4>3. /\ After(receiver.expected, sender.next, k + L - 0)
            /\ Enough(receiver.age, k + L - 0, TxTimer - sender.timer)
        BY <4>2, <3>1, <3>4, <1>8 DEF Behind
      <4> QED
        BY <4>1, <4>3
    <3>5. q \in Nat /\ q > 0
      OBVIOUS
    <3>6. Behind(q)'
      <4> HIDE DEF q
      <4> QED
        BY <3>1, <3>3, <3>4, <3>5, <1>2, <1>4 DEF Behind
    <3> QED
      BY <3>5, <3>6
  <2> QED
    BY <2>1, <2>2
<1> QED
  BY <1>9

\* The types of the channel's variables.
ChannelTypes ==
    /\ sender \in Senders /\ receiver \in Receivers
    /\ wire \in Seq(Message) /\ Len(wire) \in 0..WireSize
    /\ unheard \in Gaps /\ calm \in BOOLEAN

LEMMA TypesAreTypes == ChannelTypes <=> ChannelTypeOK
<1>1. ASSUME NEW w \in Seq(Message) PROVE Len(w) \in 0..WireSize <=> Len(w) <= WireSize
  BY ChannelSizes
<1> QED
  BY <1>1 DEF ChannelTypes, ChannelTypeOK, Senders, Receivers, Message

LEMMA NoGap == "none" \in Gaps /\ "lost" \in Gaps /\ "anew" \in Gaps
BY DEF Gaps

LEMMA HeardTyped ==
    ASSUME ChannelTypes, wire # <<>>, Hears(wire[1])
    PROVE  receiver' \in Receivers
<1>1. wire[1].seq \in 0..SeqLost /\ wire[1].gap \in Gaps
  <2>1. wire[1] \in Message
    BY WireTail, TypesAreTypes
  <2> QED
    BY <2>1 DEF Message
<1>2. NextSequence(wire[1].seq) \in (1..SequenceLast) \cup {SeqInvalid} /\ 0 \in 0..(RxPeriod + 1)
  BY <1>1, NumbersFollow, ChannelSizes DEF Ordinary
<1>3. Preserved(wire[1].seq) \in BOOLEAN
  BY DEF Preserved
<1> QED
  BY <1>1, <1>2, <1>3, SomeReceiver DEF Hears

LEMMA ChannelTyped ==
    ASSUME ChannelTypes, WireInv, ChannelNext
    PROVE  ChannelTypes'
<1> USE TypesAreTypes
<1>1. CASE SlowCall
  <2>1. PICK accepted \in BOOLEAN : MonitorTx(accepted)
    BY <1>1 DEF SlowCall
  <2>2. receiver' \in Receivers
    BY <1>1, ReceiverWaits DEF SlowCall, ChannelTypes
  <2>3. calm' \in BOOLEAN
    BY <1>1 DEF SlowCall, ChannelTypes
  <2>4. CASE sender' \in Senders /\ UNCHANGED <<wire, unheard>>
    BY <2>2, <2>3, <2>4 DEF ChannelTypes
  <2>5. ASSUME Len(wire) < WireSize, unheard' = "none", sender' \in Senders,
               NEW q \in {sender.next, SeqLost},
               wire' = Append(wire, [seq |-> q, gap |-> unheard, copy |-> FALSE])
        PROVE  ChannelTypes'
    <3>1. q \in 0..SeqLost
      <4>1. sender.next \in 0..SequenceLast
        BY DEF ChannelTypes, Senders
      <4> QED
        BY <4>1, ChannelSizes DEF SeqLost
    <3>2. wire' \in Seq(Message) /\ Len(wire') = Len(wire) + 1
      BY <2>5, <3>1, LongerWire
    <3>3. Len(wire') \in 0..WireSize
      BY <2>5, <3>2, ChannelSizes DEF ChannelTypes
    <3> QED
      BY <2>2, <2>3, <2>5, <3>2, <3>3, NoGap DEF ChannelTypes
  <2> QED
    BY <2>1, <2>4, <2>5, SenderGoesOn DEF ChannelTypes
<1>2. CASE Deliver
  <2>1. wire # <<>> /\ Hears(wire[1]) /\ wire' = Tail(wire) /\ UNCHANGED <<sender, unheard, calm>>
    BY <1>2, WireTail DEF Deliver
  <2>2. wire' \in Seq(Message) /\ Len(wire') \in 0..WireSize
    BY <2>1, WireTail, ChannelSizes
  <2> QED
    BY <2>1, <2>2, HeardTyped DEF ChannelTypes
<1>3. CASE Lose
  <2>1. wire' \in Seq(Message) /\ Len(wire') \in 0..WireSize /\ UNCHANGED <<sender, receiver>>
    BY <1>3, LostWire, ChannelSizes
  <2>2. unheard' \in Gaps
    BY <1>3, WireTail DEF Lose, ChannelTypes, LostGap, Both, Gaps, Message
  <2>3. calm' \in BOOLEAN
    BY <1>3 DEF Lose, ChannelTypes
  <2> QED
    BY <2>1, <2>2, <2>3 DEF ChannelTypes
<1>4. CASE Repeat
  <2>1. wire # <<>> /\ Hears(wire[1]) /\ UNCHANGED <<sender, unheard, calm>>
    BY <1>4, WireTail DEF Repeat
  <2>2. wire' = [wire EXCEPT ![1].gap = "none", ![1].copy = TRUE]
    BY <1>4 DEF Repeat
  <2>3. [wire[1] EXCEPT !.gap = "none", !.copy = TRUE] \in Message /\ 1 \in 1..Len(wire)
    <3>1. wire[1] \in Message /\ 1 \in 1..Len(wire)
      BY <2>1, WireTail
    <3> QED
      BY <3>1, NoGap DEF Message
  <2>4. wire' \in Seq(Message) /\ Len(wire') = Len(wire)
    <3>1. wire' = [wire EXCEPT ![1] = [wire[1] EXCEPT !.gap = "none", !.copy = TRUE]]
      BY <2>2, <2>3 DEF ChannelTypes
    <3> DEFINE m == [wire[1] EXCEPT !.gap = "none", !.copy = TRUE]
    <3>2. wire' = [wire EXCEPT ![1] = m] /\ m \in Message
      BY <3>1, <2>3
    <3> HIDE DEF m
    <3> QED
      BY <3>2, <2>3 DEF ChannelTypes
  <2> QED
    BY <2>1, <2>4, HeardTyped DEF ChannelTypes
<1>5. CASE ResetSender
  <2>1. TxInit \in Senders
    BY ChannelSizes DEF TxInit, Senders, SeqReset
  <2> QED
    BY <1>5, <2>1 DEF ResetSender, ChannelTypes
<1>6. CASE ResetReceiver
  <2>1. SeqInvalid \in (1..SequenceLast) \cup {SeqInvalid} /\ 0 \in 0..(RxPeriod + 1)
    BY ChannelSizes
  <2>2. RxInit \in Receivers
    BY <2>1, NoGap, SomeReceiver DEF RxInit
  <2> QED
    BY <1>6, <2>2 DEF ResetReceiver, ChannelTypes
<1>7. CASE CalmsDown
  BY <1>7 DEF CalmsDown, ChannelTypes
<1> QED
  BY <1>1, <1>2, <1>3, <1>4, <1>5, <1>6, <1>7 DEF ChannelNext

LEMMA ChannelInvStep == ChannelInv /\ [ChannelNext]_channelVars => ChannelInv'
<1> SUFFICES ASSUME ChannelInv, [ChannelNext]_channelVars PROVE ChannelInv'
  OBVIOUS
<1>1. ChannelTypeOK /\ WireInv /\ ReceiverInv /\ TrustedInSequence /\ ChannelTypes
  BY TypesAreTypes DEF ChannelInv
<1>2. CASE UNCHANGED channelVars
  <2>1. Gap' = Gap /\ Copies' = Copies /\ UNCHANGED <<sender, receiver, wire, unheard, calm>>
    BY <1>2 DEF channelVars, Gap, Copies
  <2>2. ChannelTypes' /\ WireInv' /\ TrustedInSequence'
    BY <1>1, <2>1 DEF ChannelTypes, WireInv, TrustedInSequence
  <2>3. ReceiverInv'
    BY <1>1, <2>1 DEF ReceiverInv, Behind
  <2>4. ChannelTypeOK'
    BY <1>1, <2>1 DEF ChannelTypeOK
  <2> QED
    BY <2>2, <2>3, <2>4 DEF ChannelInv
<1>3. ASSUME ChannelNext PROVE ChannelTypeOK'
  <2>1. ChannelTypes'
    BY <1>1, <1>3, ChannelTyped
  <2>2. ChannelTypes' <=> ChannelTypeOK'
    BY TypesAreTypes, PTL
  <2> QED
    BY <2>1, <2>2
<1>4. CASE SlowCall
  <2>1. ChannelTypeOK' /\ MonitorRx
    BY <1>3, <1>4 DEF ChannelNext, SlowCall
  <2>2. PICK accepted \in BOOLEAN : MonitorTx(accepted)
    BY <1>4 DEF SlowCall
  <2>3. TrustedInSequence'
    BY <1>1, <2>1, ReceiverWaits DEF ChannelTypes, TrustedInSequence
  <2>4. sender \in Senders
    BY <1>1 DEF ChannelTypes
  <2>5. WireInv' /\ ReceiverInv'
    BY <1>1, <2>1, <2>2, <2>4, SenderGoesOn, QuietCall, SendingCall
  <2> QED
    BY <2>1, <2>3, <2>5 DEF ChannelInv
<1>5. CASE Deliver
  BY <1>1, <1>3, <1>5, DeliverKeeps DEF ChannelInv, ChannelNext
<1>6. CASE Lose
  <2>1. TrustedInSequence'
    BY <1>1, <1>6 DEF Lose, TrustedInSequence
  <2> QED
    BY <1>1, <1>3, <1>6, <2>1, LoseKeeps DEF ChannelInv, ChannelNext
<1>7. CASE Repeat
  BY <1>1, <1>3, <1>7, RepeatKeeps DEF ChannelInv, ChannelNext
<1>8. CASE ResetSender
  <2>1. /\ Gap' = Gap /\ Copies' = Copies /\ UNCHANGED <<receiver, wire, unheard>>
        /\ sender'.next \notin Ordinary
    BY <1>8 DEF ResetSender, Gap, Copies, TxInit, Ordinary, SeqReset
  <2>2. WireInv' /\ TrustedInSequence'
    BY <1>1, <2>1 DEF WireInv, TrustedInSequence
  <2>3. ReceiverInv'
    BY <1>1, <2>1 DEF ReceiverInv, Behind
  <2> QED
    BY <1>3, <1>8, <2>2, <2>3 DEF ChannelInv, ChannelNext
<1>9. CASE ResetReceiver
  <2>1. receiver'.expected \notin Ordinary /\ ~receiver'.valid /\ UNCHANGED <<sender, wire, unheard>>
    BY <1>9, ChannelSizes DEF ResetReceiver, RxInit, Ordinary, SeqInvalid
  <2>2. WireInv' /\ TrustedInSequence' /\ ReceiverInv'
    BY <1>1, <2>1 DEF WireInv, TrustedInSequence, ReceiverInv
  <2> QED
    BY <1>3, <1>9, <2>2 DEF ChannelInv, ChannelNext
<1>10. CASE CalmsDown
  <2>1. Gap' = Gap /\ Copies' = Copies /\ UNCHANGED <<sender, receiver, wire, unheard>>
    BY <1>10 DEF CalmsDown, Gap, Copies
  <2>2. WireInv' /\ TrustedInSequence'
    BY <1>1, <2>1 DEF WireInv, TrustedInSequence
  <2>3. ReceiverInv'
    BY <1>1, <2>1 DEF ReceiverInv, Behind
  <2> QED
    BY <1>3, <1>10, <2>2, <2>3 DEF ChannelInv, ChannelNext
<1> QED
  BY <1>2, <1>4, <1>5, <1>6, <1>7, <1>8, <1>9, <1>10 DEF ChannelNext

(* Whatever the bus loses or repeats, and whichever board begins anew, a   *)
(* value that SRAPI020Safety__GetRxValue gives as valid came with no       *)
(* message lost before it, unless the sender began its count anew with one *)
(* of these: for every length of the count and of the periods.             *)
THEOREM TrustInOrder == ServicesSpec => []TrustedInSequence
<1>1. ServicesInit => ChannelInv
  BY InitChannel DEF ServicesInit
<1>2. ChannelInv /\ [ServicesNext]_servicesVars => ChannelInv'
  <2>1. [ServicesNext]_servicesVars => [ChannelNext]_channelVars
    BY DEF ServicesNext, servicesVars
  <2> QED
    BY <2>1, ChannelInvStep
<1>3. ChannelInv => TrustedInSequence
  BY DEF ChannelInv
<1> QED
  BY <1>1, <1>2, <1>3, PTL DEF ServicesSpec

--------------------------------------------------------------------------------
(* The receiver of the Master Commander.                                   *)

LinkType ==
    [last : BOOLEAN, length : BOOLEAN, todo : 0..MaxByte, buff : Seq(Bytes), over : BOOLEAN,
     answering : BOOLEAN]

\* A receiver r after n bytes of the message f: it has kept them, and knows how many are to come unless the length is the next.
KeptOf(r, f, n) ==
    /\ r.buff = SubSeq(f, 1, n)
    /\ ~r.over
    /\ r.length <=> n = 1 /\ f[1] = Standard
    /\ ~r.length => r.todo = Len(f) - n

(* The pairs of a message are told from its start as soon as its command   *)
(* has come, and from then on also between messages.  So after one whole   *)
(* message the start of the next is seen, and all of it kept, unless an    *)
(* answer ends before it does: but there is none under way, and there will *)
(* be none before the message has been received.                           *)
InStep ==
    /\ Sending /\ line.next = "twin" => line.sent > 0 /\ line.frame[line.sent + 1] = SOB
    /\ Sending /\ line.sent > 0 => line.next # "start" /\ (link.last <=> line.next = "twin")
    /\ line.whole =>
          /\ ~Sending => ~link.last
          /\ Sending => ~link.answering
          /\ Sending /\ line.sent = 0 => (link.last <=> line.next # "start")
          /\ Sending /\ line.sent > 0 => KeptOf(link, line.frame, line.sent)

SerialInv == SerialTypeOK /\ InStep

\* The fields of the two records and the frames that are sent.
LEMMA SerialFields ==
    ASSUME SerialTypeOK
    PROVE  /\ link \in LinkType /\ Len(link.buff) <= CommBufferSize
           /\ line.frame \in Frames \cup {<<>>} /\ line.sent \in Nat
           /\ line.next \in {"start", "byte", "twin"} /\ line.whole \in BOOLEAN
           /\ line.sent <= Len(line.frame)
           /\ heard # <<>> => Len(heard) <= CommBufferSize
BY DEF SerialTypeOK, LinkType

LEMMA SerialSizes ==
    /\ SOB \in Bytes /\ SOB \in Nat /\ Standard \in Nat /\ Standard < SOB /\ SOB <= MaxByte
    /\ MaxByte \in Nat /\ CommBufferSize \in Nat /\ CommBufferSize >= 1
    /\ CommBufferSize <= MaxByte
BY SerialConstants DEF Bytes

LEMMA FrameShape ==
    ASSUME NEW f \in Frames
    PROVE  /\ f \in Seq(Bytes) /\ Len(f) \in Nat /\ Len(f) >= 2 /\ Len(f) - 1 <= CommBufferSize
           /\ f[1] \in Nat /\ f[1] <= Standard /\ f[1] < SOB
           /\ f[1] < Standard => Len(f) = f[1] + 2
           /\ f[1] = Standard => Len(f) = f[2] + 3 /\ f[2] \in Nat
           /\ \A i \in 1..Len(f) : f[i] \in Bytes
<1>1. f \in Seq(Bytes) /\ Len(f) - 1 \in 1..CommBufferSize
  BY SerialConstants
<1>2. Len(f) \in Nat /\ Len(f) >= 2 /\ Len(f) - 1 <= CommBufferSize
  BY <1>1, SerialSizes
<1>3. \A i \in 1..Len(f) : f[i] \in Bytes
  BY <1>1
<1>4. f[1] \in Nat /\ f[2] \in Nat
  BY <1>2, <1>3, SerialSizes DEF Bytes
<1> QED
  BY <1>1, <1>2, <1>3, <1>4, SerialSizes, SerialConstants

\* What MC_Rx has when a byte that is not kept has been counted.
BytesCounted(b, r) ==
    [r EXCEPT !.length = FALSE, !.todo = IF Owed(b, r) = 0 THEN 0 ELSE Owed(b, r) - 1]

LEMMA OwedType ==
    ASSUME NEW b \in Bytes, NEW r \in LinkType
    PROVE  Owed(b, r) \in 0..MaxByte
<1>1. MaxByte \in Nat /\ b \in 0..MaxByte /\ r.todo \in 0..MaxByte
  BY SerialSizes DEF Bytes, LinkType
<1>2. (b + 2) % (MaxByte + 1) \in 0..MaxByte
  BY <1>1
<1> QED
  BY <1>1, <1>2 DEF Owed

LEMMA ByteCounted ==
    ASSUME NEW b \in Bytes, NEW r \in LinkType
    PROVE  /\ BytesCounted(b, r) \in LinkType
           /\ BytesCounted(b, r).last = r.last /\ ~BytesCounted(b, r).length
           /\ BytesCounted(b, r).todo = IF Owed(b, r) = 0 THEN 0 ELSE Owed(b, r) - 1
           /\ BytesCounted(b, r).buff = r.buff /\ BytesCounted(b, r).over = r.over
           /\ BytesCounted(b, r).answering = r.answering
<1> DEFINE n == IF Owed(b, r) = 0 THEN 0 ELSE Owed(b, r) - 1
<1>1. n \in 0..MaxByte
  BY OwedType, SerialSizes
<1>2. BytesCounted(b, r) = [r EXCEPT !.length = FALSE, !.todo = n]
  BY DEF BytesCounted
<1> HIDE DEF n
<1>3. /\ BytesCounted(b, r) \in LinkType
      /\ BytesCounted(b, r).last = r.last /\ ~BytesCounted(b, r).length /\ BytesCounted(b, r).todo = n
      /\ BytesCounted(b, r).buff = r.buff /\ BytesCounted(b, r).over = r.over
      /\ BytesCounted(b, r).answering = r.answering
  BY <1>1, <1>2 DEF LinkType
<1> QED
  BY <1>3 DEF n

\* Room keeps a byte or throws it away.
LEMMA RoomMade ==
    ASSUME NEW b \in Bytes, NEW r \in LinkType
    PROVE  /\ Room(b, r) \in LinkType
           /\ Len(r.buff) <= CommBufferSize => Len(Room(b, r).buff) <= CommBufferSize
           /\ Room(b, r).last = r.last /\ Room(b, r).length = r.length /\ Room(b, r).todo = r.todo
           /\ Room(b, r).answering = r.answering
           /\ ~r.over /\ Len(r.buff) < CommBufferSize =>
                 Room(b, r).buff = Append(r.buff, b) /\ Room(b, r).over = r.over
<1>1. r.buff \in Seq(Bytes) /\ Len(r.buff) \in Nat /\ CommBufferSize \in Nat
  BY SerialSizes DEF LinkType
<1>2. Append(r.buff, b) \in Seq(Bytes) /\ Len(Append(r.buff, b)) = Len(r.buff) + 1
  BY <1>1
<1> DEFINE c == Append(r.buff, b)
           x == [r EXCEPT !.buff = c]
           y == [r EXCEPT !.over = TRUE]
<1>3. Room(b, r) = IF r.over THEN r ELSE IF Len(r.buff) < CommBufferSize THEN x ELSE y
  BY DEF Room
<1> HIDE DEF c
<1>4. /\ x \in LinkType /\ x.last = r.last /\ x.length = r.length /\ x.todo = r.todo
      /\ x.buff = c /\ x.over = r.over /\ x.answering = r.answering
  BY <1>2 DEF LinkType, c
<1>5. /\ y \in LinkType /\ y.last = r.last /\ y.length = r.length /\ y.todo = r.todo
      /\ y.buff = r.buff /\ y.answering = r.answering
  BY DEF LinkType
<1>6. Len(r.buff) < CommBufferSize => Len(c) <= CommBufferSize
  BY <1>1, <1>2 DEF c
<1> HIDE DEF x, y
<1> QED
  BY <1>3, <1>4, <1>5, <1>6 DEF c

\* A byte that is not the first of a pair or a command.
LEMMA ContentKept ==
    ASSUME NEW b \in Bytes, NEW r \in LinkType
    PROVE  /\ Content(b, r) \in LinkType
           /\ Len(r.buff) <= CommBufferSize => Len(Content(b, r).buff) <= CommBufferSize
           /\ Content(b, r).last = r.last /\ ~Content(b, r).length
           /\ Content(b, r).todo = IF Owed(b, r) = 0 THEN 0 ELSE Owed(b, r) - 1
           /\ Content(b, r).answering = r.answering
           /\ Owed(b, r) <= 1 => Content(b, r).buff = r.buff /\ Content(b, r).over = r.over
           /\ Owed(b, r) > 1 /\ ~r.over /\ Len(r.buff) < CommBufferSize =>
                 Content(b, r).buff = Append(r.buff, b) /\ Content(b, r).over = r.over
<1> DEFINE s == BytesCounted(b, r)
           n == Owed(b, r)
           q == Content(b, r)
<1>1. q = IF n > 1 THEN Room(b, s) ELSE s
  BY DEF Content, BytesCounted
<1>2. n \in Nat
  BY OwedType, SerialSizes
<1>3. /\ s \in LinkType
      /\ s.last = r.last /\ ~s.length /\ s.todo = IF n = 0 THEN 0 ELSE n - 1
      /\ s.buff = r.buff /\ s.over = r.over /\ s.answering = r.answering
  BY ByteCounted
<1> HIDE DEF s, n, q
<1>4. CASE n > 1
  <2>1. q = Room(b, s) /\ ~(n <= 1)
    BY <1>1, <1>2, <1>4
  <2> QED
    BY <1>3, <2>1, RoomMade DEF n, q
<1>5. CASE ~(n > 1)
  BY <1>1, <1>3, <1>5 DEF n, q
<1> QED
  BY <1>4, <1>5

\* Whether the byte is a message's last does not depend on the pairs.
LEMMA LastCleared ==
    ASSUME NEW b \in Bytes, NEW r \in LinkType
    PROVE  LET x == [r EXCEPT !.last = FALSE]
           IN  /\ x \in LinkType /\ x.last = FALSE /\ x.length = r.length /\ x.todo = r.todo
               /\ x.buff = r.buff /\ x.over = r.over /\ x.answering = r.answering
               /\ Owed(b, x) = Owed(b, r)
BY DEF LinkType, Owed

\* MC_Rx keeps its variables within their types.
LEMMA ReceivedType ==
    ASSUME NEW b \in Bytes, NEW r \in LinkType, Len(r.buff) <= CommBufferSize
    PROVE  /\ Received(b, r) \in LinkType /\ Len(Received(b, r).buff) <= CommBufferSize
           /\ Received(b, r).answering = r.answering
<1> DEFINE OK(x) == x \in LinkType /\ Len(x.buff) <= CommBufferSize /\ x.answering = r.answering
<1>1. OK([r EXCEPT !.last = TRUE])
  BY DEF LinkType
<1>2. OK(Command(b, r))
  <2>1. <<b>> \in Seq(Bytes) /\ Len(<<b>>) = 1
    OBVIOUS
  <2>2. (IF b < Standard THEN b + 1 ELSE 0) \in 0..MaxByte
    BY SerialSizes DEF Bytes
  <2>3. (b >= Standard) \in BOOLEAN
    OBVIOUS
  <2> QED
    BY <2>1, <2>2, <2>3, SerialSizes DEF Command, LinkType
<1>3. OK(Content(b, [r EXCEPT !.last = FALSE]))
  BY LastCleared, ContentKept
<1> QED
  BY <1>1, <1>2, <1>3 DEF Received

\* Where MC_Rx is after the next byte of a message, whatever it was doing
\* before the start of it, and after one it is in step with.
LEMMA LastByte ==
    ASSUME NEW b \in Bytes, NEW r \in LinkType
    PROVE  Received(b, r).last <=> b = SOB /\ ~r.last
<1>1. [r EXCEPT !.last = TRUE].last = TRUE /\ Command(b, r).last = FALSE
  BY DEF LinkType, Command
<1> DEFINE x == [r EXCEPT !.last = FALSE]
<1>2. x \in LinkType /\ x.last = FALSE
  BY LastCleared
<1>3. Content(b, x).last = FALSE
  <2> HIDE DEF x
  <2> QED
    BY <1>2, ContentKept
<1>4. r.last \in BOOLEAN
  BY DEF LinkType
<1> QED
  BY <1>1, <1>3, <1>4 DEF Received, Pairs

LEMMA SubSeqGrows ==
    ASSUME NEW f \in Seq(Bytes), NEW n \in Nat, n < Len(f)
    PROVE  Append(SubSeq(f, 1, n), f[n + 1]) = SubSeq(f, 1, n + 1) /\ Len(SubSeq(f, 1, n)) = n
<1>1. \A i \in 1..(n + 1) : f[i] \in Bytes
  OBVIOUS
<1>2. SubSeq(f, 1, n) \in Seq(Bytes) /\ Len(SubSeq(f, 1, n)) = n
  OBVIOUS
<1>3. SubSeq(f, 1, n + 1) = SubSeq(f, 1, n) \o <<f[n + 1]>>
  BY SubSeqRecursiveSecond
<1>4. f[n + 1] \in Bytes
  BY <1>1
<1> QED
  BY <1>2, <1>3, <1>4, AppendIsConcat

\* A start of block, the first of a pair.
LEMMA PairBegins ==
    ASSUME NEW r \in LinkType, ~r.last
    PROVE  Received(SOB, r) = [r EXCEPT !.last = TRUE]
BY DEF Received, Pairs

\* The command after a start of block.
LEMMA CommandComes ==
    ASSUME NEW f \in Frames, NEW r \in LinkType, r.last
    PROVE  KeptOf(Received(f[1], r), f, 1)
<1>1. f \in Seq(Bytes) /\ Len(f) >= 2 /\ f[1] \in Nat /\ f[1] <= Standard /\ f[1] < SOB /\ Standard \in Nat
      /\ SOB \in Nat /\ (f[1] < Standard => Len(f) = f[1] + 2)
  BY FrameShape, SerialSizes
<1>2. Received(f[1], r) = Command(f[1], r)
  BY <1>1 DEF Received, Pairs
<1>3. SubSeq(f, 1, 1) = <<f[1]>>
  <2>1. SubSeq(f, 1, 1) = <<f[1]>> \o SubSeq(f, 1 + 1, 1)
    BY <1>1, SubSeqRecursiveFirst
  <2>2. SubSeq(f, 1 + 1, 1) = <<>>
    BY <1>1, SubSeqEmpty
  <2>3. <<f[1]>> \o <<>> = <<f[1]>>
    BY <1>1
  <2> QED
    BY <2>1, <2>2, <2>3
<1>4. /\ Command(f[1], r).buff = <<f[1]>> /\ Command(f[1], r).over = FALSE
      /\ Command(f[1], r).length = (f[1] >= Standard)
      /\ Command(f[1], r).todo = IF f[1] < Standard THEN f[1] + 1 ELSE 0
  BY DEF Command, LinkType
<1>5. f[1] >= Standard <=> f[1] = Standard
  BY <1>1
<1>6. f[1] < Standard => f[1] + 1 = Len(f) - 1
  BY <1>1
<1>7. ~(f[1] >= Standard) => f[1] < Standard
  BY <1>1
<1> QED
  BY <1>2, <1>3, <1>4, <1>5, <1>6, <1>7 DEF KeptOf

\* A later byte of the message, or the second of its pair.
LEMMA ContentComes ==
    ASSUME NEW f \in Frames, NEW r \in LinkType, NEW n \in Nat, n > 0, n < Len(f),
           KeptOf(r, f, n), r.last <=> f[n + 1] = SOB
    PROVE  /\ Owed(f[n + 1], r) = Len(f) - n
           /\ n + 1 < Len(f) => KeptOf(Received(f[n + 1], r), f, n + 1)
           /\ n + 1 = Len(f) =>
                 /\ ~Received(f[n + 1], r).over
                 /\ Received(f[n + 1], r).buff = SubSeq(f, 1, Len(f) - 1)
<1> DEFINE b == f[n + 1]
           x == [r EXCEPT !.last = FALSE]
           q == Received(b, r)
<1>1. /\ f \in Seq(Bytes) /\ Len(f) \in Nat /\ Len(f) - 1 <= CommBufferSize
      /\ CommBufferSize \in Nat /\ MaxByte \in Nat /\ CommBufferSize <= MaxByte
      /\ (f[1] = Standard => Len(f) = f[2] + 3 /\ f[2] \in Nat)
      /\ b \in Bytes
  BY FrameShape, SerialSizes
<1>2. Append(SubSeq(f, 1, n), b) = SubSeq(f, 1, n + 1) /\ Len(SubSeq(f, 1, n)) = n
  BY <1>1, SubSeqGrows
<1>3. Owed(b, r) = Len(f) - n
  <2>1. CASE r.length
    <3>1. n = 1 /\ f[1] = Standard
      BY <2>1 DEF KeptOf
    <3>2. b = f[2]
      BY <3>1
    <3>3. Len(f) = b + 3 /\ b \in Nat
      BY <1>1, <3>1, <3>2
    <3>4. Owed(b, r) = (b + 2) % (MaxByte + 1)
      BY <2>1 DEF Owed
    <3> HIDE DEF b
    <3>5. b + 2 <= MaxByte
      BY <1>1, <3>3
    <3>6. (b + 2) % (MaxByte + 1) = b + 2
      BY <1>1, <3>3, <3>5
    <3> QED
      BY <3>1, <3>3, <3>4, <3>6
  <2>2. CASE ~r.length
    BY <2>2 DEF KeptOf, Owed
  <2> QED
    BY <2>1, <2>2
<1>4. q = Content(b, x)
  BY DEF Received, Pairs
<1>5. /\ x \in LinkType /\ x.buff = SubSeq(f, 1, n) /\ ~x.over /\ Owed(b, x) = Len(f) - n
  BY <1>1, <1>3, LastCleared DEF KeptOf
<1> HIDE DEF b, x, q
<1>6. CASE n + 1 < Len(f)
  <2>1. Owed(b, x) > 1 /\ Owed(b, x) # 0 /\ Owed(b, x) - 1 = Len(f) - (n + 1) /\ n < CommBufferSize
    BY <1>1, <1>5, <1>6
  <2>2. Len(x.buff) < CommBufferSize
    BY <1>2, <1>5, <2>1
  <2>3. /\ ~q.length /\ q.todo = Len(f) - (n + 1)
        /\ q.buff = Append(x.buff, b) /\ q.over = x.over
    <3>1. ~q.length /\ q.todo = Owed(b, x) - 1
      BY <1>1, <1>4, <1>5, <2>1, ContentKept
    <3>2. q.buff = Append(x.buff, b) /\ q.over = x.over
      BY <1>1, <1>4, <1>5, <2>1, <2>2, ContentKept
    <3> QED
      BY <2>1, <3>1, <3>2
  <2>4. q.buff = SubSeq(f, 1, n + 1) /\ ~q.over /\ n + 1 # 1
    BY <1>2, <1>5, <2>3
  <2>5. KeptOf(q, f, n + 1)
    BY <2>3, <2>4 DEF KeptOf
  <2> QED
    BY <1>3, <1>6, <2>5 DEF q, b
<1>7. CASE n + 1 = Len(f)
  <2>1. Owed(b, x) <= 1 /\ n = Len(f) - 1
    BY <1>1, <1>5, <1>7
  <2>2. q.buff = SubSeq(f, 1, Len(f) - 1) /\ ~q.over
    BY <1>1, <1>4, <1>5, <2>1, ContentKept
  <2> QED
    BY <1>3, <1>7, <2>2 DEF q, b
<1> QED
  BY <1>1, <1>6, <1>7

\* What a byte that comes changes.
LEMMA TakesByte ==
    ASSUME SerialTypeOK, NEW b \in Bytes, Takes(b)
    PROVE  /\ link' \in LinkType /\ Len(link'.buff) <= CommBufferSize
           /\ link'.last = Received(b, link).last /\ link'.length = Received(b, link).length
           /\ link'.todo = Received(b, link).todo /\ link'.buff = Received(b, link).buff
           /\ link'.over = Received(b, link).over
           /\ link'.answering <=> link.answering \/ Completes(b, link)
           /\ heard' = IF Completes(b, link) /\ ~link'.over THEN link'.buff ELSE <<>>
<1> DEFINE r == Received(b, link)
           a == link.answering \/ Completes(b, link)
<1>1. r \in LinkType /\ Len(r.buff) <= CommBufferSize /\ r.answering = link.answering
  BY SerialFields, ReceivedType
<1>2. /\ link' = [r EXCEPT !.answering = @ \/ Completes(b, link)]
      /\ heard' = IF Completes(b, link) /\ ~r.over THEN r.buff ELSE <<>>
  BY DEF Takes
<1>3. a \in BOOLEAN
  BY DEF Completes
<1>4. link' = [r EXCEPT !.answering = a]
  BY <1>1, <1>2
<1> HIDE DEF r, a
<1>5. /\ link' \in LinkType /\ link'.last = r.last /\ link'.length = r.length /\ link'.todo = r.todo
      /\ link'.buff = r.buff /\ link'.over = r.over /\ link'.answering = a
  BY <1>1, <1>3, <1>4 DEF LinkType
<1> QED
  BY <1>1, <1>2, <1>5 DEF r, a

LEMMA SameKept ==
    ASSUME NEW r, NEW s, NEW f, NEW n, KeptOf(r, f, n),
           s.length = r.length, s.todo = r.todo, s.buff = r.buff, s.over = r.over
    PROVE  KeptOf(s, f, n)
BY DEF KeptOf

\* The first message brings the pairs into step, the next one is kept.
LEMMA ByteInStep ==
    ASSUME SerialInv, WireDelivers
    PROVE  /\ InStep'
           /\ line.whole /\ line'.sent = Len(line.frame) =>
                 heard' = SubSeq(line.frame, 1, Len(line.frame) - 1)
<1> DEFINE f == line.frame
           n == line.sent
           got == Received(Due, link)
<1>1. /\ link \in LinkType /\ n \in Nat /\ n < Len(f) /\ f \in Frames
      /\ line.next \in {"start", "byte", "twin"} /\ line.whole \in BOOLEAN
      /\ link.last \in BOOLEAN /\ link.answering \in BOOLEAN /\ Sending
  <2>1. f # <<>>
    <3>1. Len(<<>>) = 0
      OBVIOUS
    <3> QED
      BY <3>1, SerialFields DEF SerialInv, WireDelivers, Sending
  <2> QED
    BY <2>1, SerialFields DEF SerialInv, WireDelivers, Sending, LinkType
<1>2. /\ Len(f) \in Nat /\ Len(f) >= 2 /\ f[1] # SOB /\ SOB \in Bytes
      /\ f[n + 1] \in Bytes
  BY <1>1, FrameShape, SerialSizes
<1>3. Due \in Bytes
  BY <1>2 DEF Due
<1>4. /\ link'.last = got.last /\ link'.length = got.length /\ link'.todo = got.todo
      /\ link'.buff = got.buff /\ link'.over = got.over
      /\ link'.answering <=> link.answering \/ Completes(Due, link)
      /\ heard' = IF Completes(Due, link) /\ ~link'.over THEN link'.buff ELSE <<>>
      /\ got.last <=> Due = SOB /\ ~link.last
  BY <1>1, <1>3, LastByte, TakesByte DEF WireDelivers, SerialInv
<1>5. InStep
  BY DEF SerialInv
<1>6. line.whole => ~link.answering
  BY <1>1, <1>5 DEF InStep
<1> HIDE DEF got
<1>7. CASE line.next = "start"
  <2>1. Due = SOB /\ ~Doubled
    BY <1>7 DEF Due, Doubled
  <2>2. line'.frame = f /\ line'.sent = n /\ line'.next = "byte" /\ line'.whole = line.whole
    BY <1>7, <2>1, SerialFields DEF SerialInv, SerialTypeOK, WireDelivers
  <2>3. n = 0
    BY <1>1, <1>5, <1>7 DEF InStep
  <2>4. line.whole => ~link.last
    BY <1>1, <1>5, <1>7, <2>3 DEF InStep
  <2>5. line.whole => link'.last /\ ~link'.answering
    BY <1>4, <1>6, <2>1, <2>4 DEF Completes
  <2>6. line'.sent = 0 /\ 0 # Len(f) /\ ~(0 > 0)
    BY <1>2, <2>2, <2>3
  <2> QED
    BY <2>2, <2>3, <2>5, <2>6 DEF InStep, Sending
<1>8. CASE Doubled
  <2>1. Due = SOB /\ line.next = "byte" /\ f[n + 1] = SOB
    BY <1>8 DEF Due, Doubled
  <2>2. line'.frame = f /\ line'.sent = n /\ line'.next = "twin" /\ line'.whole = line.whole
    BY <1>8, SerialFields DEF SerialInv, SerialTypeOK, WireDelivers
  <2>3. n > 0 /\ n # 0 /\ n # Len(f)
    BY <1>1, <1>2, <2>1
  <2>4. ~link.last
    BY <1>1, <1>5, <2>1, <2>3 DEF InStep
  <2>5. got = [link EXCEPT !.last = TRUE]
    BY <1>1, <2>1, <2>4, PairBegins DEF got
  <2>6. /\ link'.buff = link.buff /\ link'.over = link.over /\ link'.length = link.length
        /\ link'.todo = link.todo
    BY <1>1, <1>4, <2>5 DEF LinkType
  <2>7. line.whole => KeptOf(link', f, n)
    BY <1>1, <1>5, <2>3, <2>6, SameKept DEF InStep
  <2>8. link'.last /\ (line.whole => ~link'.answering)
    BY <1>4, <1>6, <2>1, <2>4 DEF Completes
  <2>9. Sending'
    BY <1>1, <2>2 DEF Sending
  <2> QED
    BY <1>1, <2>1, <2>2, <2>3, <2>7, <2>8, <2>9 DEF InStep
<1>9. CASE line.next # "start" /\ ~Doubled
  <2>1. Due = f[n + 1] /\ (Due = SOB => line.next = "twin")
    BY <1>1, <1>9 DEF Due, Doubled
  <2>2. /\ line'.frame = f /\ line'.sent = n + 1 /\ line'.next = "byte"
        /\ line'.whole => line.whole \/ n + 1 = Len(f)
    BY <1>9, SerialFields DEF SerialInv, SerialTypeOK, WireDelivers
  <2>3. CASE n = 0
    <3>1. Due = f[1] /\ 1 < Len(f)
      BY <1>2, <2>1, <2>3
    <3>2. ~link'.last
      BY <1>2, <1>4, <3>1
    <3>3. line.whole => link.last
      BY <1>1, <1>5, <1>9, <2>3 DEF InStep
    <3>4. line.whole => KeptOf(link', f, 1)
      <4>1. line.whole => KeptOf(got, f, 1)
        BY <1>1, <3>1, <3>3, CommandComes DEF got
      <4> QED
        BY <1>4, <4>1, SameKept
    <3>5. line'.sent = 1 /\ (line'.whole => line.whole)
      <4>1. Len(f) \in Nat /\ Len(f) >= 2 /\ n + 1 = 1
        BY <1>2, <2>3
      <4>2. n + 1 # Len(f)
        BY <4>1
      <4> QED
        BY <2>2, <4>1, <4>2
    <3>6. line.whole => ~link'.answering
      BY <1>2, <1>4, <1>6, <3>1, <3>3 DEF Completes
    <3> QED
      BY <2>2, <3>1, <3>2, <3>4, <3>5, <3>6 DEF InStep, Sending
  <2>4. CASE n > 0
    <3>1. link.last <=> line.next = "twin"
      BY <1>1, <1>5, <2>4 DEF InStep
    <3>2. line.next = "twin" => f[n + 1] = SOB
      BY <1>1, <1>5 DEF InStep
    <3>3. link.last <=> f[n + 1] = SOB
      BY <2>1, <3>1, <3>2
    <3>4. ~link'.last
      BY <1>4, <2>1, <3>3
    <3>5. line.whole => KeptOf(link, f, n)
      BY <1>1, <1>5, <2>4 DEF InStep
    <3>6. line.whole => Owed(f[n + 1], link) = Len(f) - n
      BY <1>1, <2>4, <3>3, <3>5, ContentComes
    <3>7. CASE n + 1 < Len(f)
      <4>1. line.whole => KeptOf(link', f, n + 1)
        <5>1. line.whole => KeptOf(got, f, n + 1)
          BY <1>1, <2>1, <2>4, <3>3, <3>5, <3>7, ContentComes DEF got
        <5> QED
          BY <1>4, <5>1, SameKept
      <4>2. (line'.whole => line.whole) /\ n + 1 > 0 /\ n + 1 # Len(f) /\ Len(f) - n # 1
        BY <1>1, <1>2, <2>2, <3>7
      <4>3. line.whole => ~link'.answering
        BY <1>4, <1>6, <2>1, <3>6, <4>2 DEF Completes
      <4> QED
        BY <1>1, <2>2, <3>4, <3>7, <4>1, <4>2, <4>3 DEF InStep, Sending
    <3>8. CASE n + 1 = Len(f)
      <4>1. ~Sending'
        BY <1>1, <1>2, <2>2, <3>8 DEF Sending
      <4>2. ASSUME line.whole
            PROVE  heard' = SubSeq(f, 1, Len(f) - 1)
        <5>1. ~got.over /\ got.buff = SubSeq(f, 1, Len(f) - 1)
          BY <1>1, <2>1, <2>4, <3>3, <3>5, <3>8, <4>2, ContentComes DEF got
        <5>2. Len(f) - n = 1
          BY <1>1, <1>2, <3>8
        <5>3. Completes(Due, link)
          BY <2>1, <3>3, <3>6, <4>2, <5>2 DEF Completes
        <5> QED
          BY <1>4, <5>1, <5>3
      <4> QED
        BY <3>4, <4>1, <4>2 DEF InStep
    <3> QED
      BY <1>1, <1>2, <3>7, <3>8
  <2> QED
    BY <1>1, <2>3, <2>4
<1> QED
  BY <1>7, <1>8, <1>9

\* The variables stay within their types.
LEMMA SerialTyped == SerialTypeOK /\ [SerialNext]_serialVars => SerialTypeOK'
<1> SUFFICES ASSUME SerialTypeOK, [SerialNext]_serialVars PROVE SerialTypeOK'
  OBVIOUS
<1> DEFINE RxTyped(r) == r \in LinkType /\ Len(r.buff) <= CommBufferSize
           HostTyped == /\ line.frame \in Frames \cup {<<>>} /\ line.sent \in Nat
                        /\ line \in [frame : Frames \cup {<<>>}, sent : Nat,
                                     next : {"start", "byte", "twin"}, whole : BOOLEAN]
                        /\ line.sent <= Len(line.frame)
           GivenTyped == heard # <<>> => Len(heard) <= CommBufferSize
<1>1. RxTyped(link) /\ HostTyped /\ GivenTyped
  BY SerialFields DEF SerialTypeOK
<1>2. RxTyped(link)' /\ HostTyped' /\ GivenTyped' => SerialTypeOK'
  BY DEF SerialTypeOK, LinkType
<1>3. ASSUME NEW b \in Bytes, Takes(b)
      PROVE  RxTyped(link)' /\ GivenTyped'
  BY <1>3, TakesByte
<1>4. CASE StrayByte
  <2>1. RxTyped(link)' /\ GivenTyped'
    BY <1>3, <1>4 DEF StrayByte
  <2>2. line' = [line EXCEPT !.whole = FALSE]
    BY <1>4 DEF StrayByte
  <2>3. HostTyped'
    BY <1>1, <2>2
  <2> QED
    BY <1>2, <2>1, <2>3
<1>5. CASE HostSends
  <2>1. PICK f \in Frames :
            line' = [line EXCEPT !.frame = f, !.sent = 0, !.next = "start",
                                 !.whole = @ /\ ~link.answering]
    BY <1>5 DEF HostSends
  <2>2. Len(f) \in Nat /\ (line.whole /\ ~link.answering) \in BOOLEAN
    BY FrameShape
  <2>3. HostTyped'
    <3>1. line' \in [frame : Frames \cup {<<>>}, sent : Nat,
                    next : {"start", "byte", "twin"}, whole : BOOLEAN]
      BY <1>1, <2>1, <2>2
    <3>2. line'.frame = f /\ line'.sent = 0
      BY <1>1, <2>1
    <3> QED
      BY <2>2, <3>1, <3>2
  <2>4. RxTyped(link)' /\ GivenTyped'
    BY <1>1, <1>5 DEF HostSends
  <2> QED
    BY <1>2, <2>3, <2>4
<1>6. CASE WireDelivers
  <2>1. line.frame # <<>> /\ line.sent < Len(line.frame)
    <3>1. Len(<<>>) = 0
      OBVIOUS
    <3> QED
      BY <1>1, <1>6, <3>1 DEF WireDelivers, Sending
  <2>2. line.frame \in Frames /\ Len(line.frame) \in Nat
    BY <1>1, <2>1, FrameShape
  <2>3. Due \in Bytes
    BY <1>1, <2>1, <2>2, FrameShape, SerialSizes DEF Due
  <2>4. RxTyped(link)' /\ GivenTyped'
    BY <1>3, <1>6, <2>3 DEF WireDelivers
  <2>5. HostTyped'
    <3>1. CASE line.next = "start" \/ Doubled
      <4>1. line' = [line EXCEPT !.next = "twin"] \/ line' = [line EXCEPT !.next = "byte"]
        BY <1>6, <3>1 DEF WireDelivers
      <4> QED
        BY <1>1, <4>1
    <3>2. CASE ~(line.next = "start" \/ Doubled)
      <4>1. line' = [line EXCEPT !.sent = @ + 1, !.next = "byte",
                                 !.whole = @ \/ line.sent + 1 = Len(line.frame)]
        BY <1>6, <3>2 DEF WireDelivers
      <4>2. line.sent + 1 \in Nat /\ line.sent + 1 <= Len(line.frame)
        BY <1>1, <2>1, <2>2
      <4> QED
        BY <1>1, <4>1, <4>2
    <3> QED
      BY <3>1, <3>2
  <2> QED
    BY <1>2, <2>4, <2>5
<1>7. CASE AnswerSent
  <2>1. link' = [link EXCEPT !.answering = FALSE, !.todo = 0] /\ 0 \in 0..MaxByte
    BY <1>7, SerialSizes DEF AnswerSent
  <2>2. RxTyped(link)'
    BY <1>1, <2>1 DEF LinkType
  <2>3. HostTyped' /\ GivenTyped'
    BY <1>1, <1>7 DEF AnswerSent
  <2> QED
    BY <1>2, <2>2, <2>3
<1>8. CASE UNCHANGED serialVars
  BY <1>1, <1>2, <1>8 DEF serialVars
<1> QED
  BY <1>4, <1>5, <1>6, <1>7, <1>8 DEF SerialNext

LEMMA SerialStep ==
    ASSUME SerialInv, [SerialNext]_serialVars
    PROVE  /\ SerialInv'
           /\ line.whole /\ Sending /\ line'.sent = Len(line.frame) /\ ~UNCHANGED serialVars =>
                 heard' = SubSeq(line.frame, 1, Len(line.frame) - 1)
<1>1. SerialTypeOK' /\ SerialTypeOK /\ InStep
  BY SerialTyped DEF SerialInv
<1>2. CASE StrayByte
  <2>1. ~line'.whole /\ ~Sending /\ line'.frame = line.frame /\ line'.sent = line.sent
    BY <1>1, <1>2 DEF StrayByte, SerialTypeOK
  <2>2. ~Sending'
    BY <2>1 DEF Sending
  <2> QED
    BY <1>1, <2>1, <2>2 DEF SerialInv, InStep
<1>3. CASE HostSends
  <2>1. ~Sending /\ link' = link
    BY <1>3 DEF HostSends
  <2>2. /\ line'.sent = 0 /\ line'.next = "start" /\ ~(line'.sent > 0)
        /\ line'.whole => line.whole /\ ~link.answering
    <3>1. PICK f \in Frames :
              line' = [line EXCEPT !.frame = f, !.sent = 0, !.next = "start",
                                   !.whole = @ /\ ~link.answering]
      BY <1>3 DEF HostSends
    <3>2. line'.sent = 0 /\ line'.next = "start"
      BY <1>1, <3>1 DEF SerialTypeOK
    <3>3. line'.whole = (line.whole /\ ~link.answering)
      BY <1>1, <3>1 DEF SerialTypeOK
    <3>4. ~(line'.sent > 0)
      BY <3>2
    <3> QED
      BY <3>2, <3>3, <3>4, Zenon
  <2>3. line.whole => ~link.last
    BY <1>1, <2>1 DEF InStep
  <2> QED
    BY <1>1, <2>1, <2>2, <2>3 DEF SerialInv, InStep
<1>4. CASE WireDelivers
  BY <1>1, <1>4, ByteInStep DEF SerialInv
<1>5. CASE AnswerSent
  <2>1. link.answering /\ line' = line
    BY <1>5 DEF AnswerSent
  <2>2. link'.last = link.last
    BY <1>1, <1>5 DEF AnswerSent, SerialTypeOK
  <2>3. (Sending' <=> Sending) /\ (line.whole => ~Sending)
    BY <1>1, <2>1 DEF Sending, InStep
  <2>4. InStep'
    BY <1>1, <2>1, <2>2, <2>3 DEF InStep
  <2> QED
    BY <1>1, <2>3, <2>4 DEF SerialInv
<1>6. CASE UNCHANGED serialVars
  <2>1. InStep'
    BY <1>1, <1>6 DEF serialVars, InStep, Sending, KeptOf
  <2> QED
    BY <1>1, <1>6, <2>1 DEF SerialInv
<1> QED
  BY <1>2, <1>3, <1>4, <1>5, <1>6 DEF SerialNext

LEMMA InitSerial == SerialInit => SerialInv
<1> SUFFICES ASSUME SerialInit PROVE SerialInv
  OBVIOUS
<1>1. MaxByte \in Nat /\ CommBufferSize \in Nat
  BY SerialSizes
<1>2. link = Quiet /\ heard = <<>>
      /\ line = [frame |-> <<>>, sent |-> 0, next |-> "start", whole |-> FALSE]
  BY DEF SerialInit
<1>3. Quiet.buff = <<>> /\ Quiet \in LinkType
  BY <1>1 DEF Quiet, LinkType
<1>4. Len(<<>>) = 0
  OBVIOUS
<1>5. SerialTypeOK
  BY <1>1, <1>2, <1>3, <1>4 DEF SerialTypeOK, LinkType
<1>6. ~Sending /\ line.whole = FALSE
  BY <1>2, <1>4 DEF Sending
<1> QED
  BY <1>5, <1>6 DEF SerialInv, InStep

(* However the stream was garbled, whatever the messages are and wherever  *)
(* the answers end: a message that comes whole brings the receiver into    *)
(* step, and the next one, begun when no answer is being sent, is decoded  *)
(* byte for byte.                                                          *)
THEOREM NextMessageHeard == ServicesSpec => BackInStep
<1>1. ServicesInit => SerialInv
  BY InitSerial DEF ServicesInit
<1>2. SerialInv /\ [ServicesNext]_servicesVars => SerialInv'
  <2>1. [ServicesNext]_servicesVars => [SerialNext]_serialVars
    BY DEF ServicesNext, servicesVars
  <2> QED
    BY <2>1, SerialStep
<1>3. SerialInv /\ [ServicesNext]_servicesVars =>
        [line.whole /\ Sending /\ line'.sent = Len(line.frame) =>
            heard' = SubSeq(line.frame, 1, Len(line.frame) - 1)]_serialVars
  <2>1. [ServicesNext]_servicesVars => [SerialNext]_serialVars
    BY DEF ServicesNext, servicesVars
  <2> QED
    BY <2>1, SerialStep
<1> QED
  BY <1>1, <1>2, <1>3, PTL DEF ServicesSpec, BackInStep
--------------------------------------------------------------------------------
(* The surge relay, and all the services.                                  *)

LEMMA RelayTyped ==
    /\ RelayInit => RelayTypeOK
    /\ RelayTypeOK /\ [RelayNext]_relayVars => RelayTypeOK'
<1>1. ASSUME RelayInit PROVE RelayTypeOK
  <2>1. MaxVoltage \in Nat
    BY RelayConstants
  <2>2. 0 \in 0..MaxVoltage
    BY <2>1
  <2> QED
    BY <1>1, <2>2 DEF RelayInit, RelayTypeOK
<1>2. ASSUME RelayTypeOK, [RelayNext]_relayVars PROVE RelayTypeOK'
  <2>1. CASE \E again \in IF steady THEN {bus} ELSE 0..MaxVoltage : Waiting(again)
    <3>1. PICK again \in 0..MaxVoltage : Waiting(again)
      BY <1>2, <2>1 DEF RelayTypeOK
    <3>2. bus' = again /\ previous' = again
      BY <3>1 DEF Waiting, Noted
    <3>3. surge' \in {"CLOSE", surge} /\ relay' \in {"closed", relay}
      BY <3>1 DEF Waiting
    <3>4. steady' \in BOOLEAN
      BY <1>2 DEF RelayTypeOK, RelayNext, RelayHandler, RelayAction, BusMoves, BusSteady, relayVars
    <3> QED
      BY <1>2, <3>2, <3>3, <3>4 DEF RelayTypeOK
  <2>2. CASE Closed
    BY <1>2, <2>2
       DEF Closed, RelayTypeOK, RelayNext, RelayHandler, RelayAction, BusMoves, BusSteady, relayVars
  <2>3. CASE Open
    BY <1>2, <2>3
       DEF Open, RelayTypeOK, RelayNext, RelayHandler, RelayAction, BusMoves, BusSteady, relayVars
  <2>4. CASE \E action \in {"OPEN", "CLOSE", "NORMAL"} : RelayAction(action)
    <3>1. PICK action \in {"OPEN", "CLOSE", "NORMAL"} : RelayAction(action)
      BY <2>4
    <3>2. surge' \in {"MANUAL_MODE", "WAITING"} /\ relay' \in {"open", "closed"}
      BY <3>1 DEF RelayAction
    <3>3. UNCHANGED <<previous, bus, steady>>
      BY <3>1 DEF RelayAction
    <3> QED
      BY <1>2, <3>2, <3>3 DEF RelayTypeOK
  <2>5. CASE BusMoves
    BY <1>2, <2>5 DEF BusMoves, RelayTypeOK
  <2>6. CASE BusSteady
    BY <1>2, <2>6 DEF BusSteady, RelayTypeOK
  <2>7. CASE UNCHANGED relayVars
    BY <1>2, <2>7 DEF relayVars, RelayTypeOK
  <2> QED
    BY <1>2, <2>1, <2>2, <2>3, <2>4, <2>5, <2>6, <2>7 DEF RelayNext, RelayHandler
<1> QED
  BY <1>1, <1>2

(* Every variable of the queues, the link, the channel, the receiver and   *)
(* the relay keeps its type, whichever of them runs.                       *)
THEOREM ServicesTyped == ServicesSpec => []ServicesTypeOK
<1> DEFINE Inv == WinInv /\ QueueInv /\ ChannelInv /\ SerialInv /\ RelayTypeOK
<1>1. ServicesInit => Inv
  BY InitWin, InitQueue, InitChannel, InitSerial, RelayTyped DEF ServicesInit
<1>2. Inv /\ [ServicesNext]_servicesVars => Inv'
  <2>1. [ServicesNext]_servicesVars =>
            /\ [WinNext]_winVars /\ [RevealNext]_queueVars /\ [ChannelNext]_channelVars
            /\ [SerialNext]_serialVars /\ [RelayNext]_relayVars
    BY DEF ServicesNext, servicesVars
  <2> QED
    BY <2>1, WinStep, QueueStep, ChannelInvStep, SerialStep, RelayTyped
<1>3. Inv => ServicesTypeOK
  BY QueueTyped DEF ServicesTypeOK, WinInv, ChannelInv, SerialInv
<1> QED
  BY <1>1, <1>2, <1>3, PTL DEF ServicesSpec
================================================================================
