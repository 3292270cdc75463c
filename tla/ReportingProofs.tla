--------------------------- MODULE ReportingProofs ---------------------------
(***************************************************************************)
(* Proofs about reads and subscriptions: the pool of the dirty set suffices*)
(* and loses no change, reports in flight are counted, reports are coherent*)
(* within a cluster and not sent too early, and nobody who could report is *)
(* forgotten by the scheduler.                                             *)
(***************************************************************************)
EXTENDS Reporting, FiniteSetTheorems, TLAPS

-----------------------------------------------------------------------------
(* Least and greatest numbers, and the handler at a position.              *)

\* Every nonempty set of natural numbers has a least element, and Min is it.
LEMMA MinNatural ==
    ASSUME NEW S, S \subseteq Nat, S # {}
    PROVE  Min(S) \in S /\ \A y \in S : Min(S) <= y
<1>1. PICK x \in S : \A y \in S : ~(<<y, x>> \in OpToRel(<, Nat))
  BY NatLessThanWellFounded, WFMin
<1>2. \A y \in S : ~(y < x)
  BY <1>1 DEF OpToRel
<1>3. \A y \in S : x <= y
  BY <1>2
<1> QED
  BY <1>3 DEF Min

\* Every nonempty bounded set of natural numbers has a greatest element.
LEMMA MaxNatural ==
    ASSUME NEW n \in Nat, NEW S, S \subseteq 0 .. n, S # {}
    PROVE  Max(S) \in S /\ \A y \in S : y <= Max(S)
<1> DEFINE below == {n - y : y \in S}
<1>1. below \subseteq Nat /\ below # {}
  <2>1. PICK y \in S : TRUE
    OBVIOUS
  <2>2. n - y \in below
    BY <2>1
  <2>3. \A z \in S : n - z \in Nat
    OBVIOUS
  <2> QED
    BY <2>2, <2>3
<1>2. PICK m \in below : \A y \in below : m <= y
  <2> HIDE DEF below
  <2> QED BY <1>1, MinNatural
<1>3. n - m \in S /\ \A y \in S : n - m >= y
  BY <1>2
<1>4. \E x \in S : \A y \in S : x >= y
  BY <1>3
<1>5. Max(S) \in S /\ \A y \in S : Max(S) >= y
  BY <1>4 DEF Max
<1> QED
  BY <1>5

\* The remainder of the round robin is a position.
LEMMA ModuloRange ==
    ASSUME NEW t \in Int, NEW n \in Nat \ {0}
    PROVE  (t % n) \in 0 .. (n - 1)
  OBVIOUS

\* In a finite set of numbers, every position below its size is that of an
\* element: what ActiveHandlerAt relies on.
LEMMA PositionIsTaken ==
    ASSUME NEW S, S \subseteq Nat, IsFiniteSet(S), NEW i \in 0 .. (Cardinality(S) - 1)
    PROVE  \E h \in S : Cardinality({k \in S : k < h}) = i
<1> DEFINE rank == [h \in S |-> Cardinality({k \in S : k < h})]
           places == 0 .. (Cardinality(S) - 1)
           others == places \ {i}
<1>0. Cardinality(S) \in Nat
  BY FS_CardinalityType
<1>1. \A h \in S : rank[h] \in places
  <2> SUFFICES ASSUME NEW h \in S PROVE Cardinality({k \in S : k < h}) \in places
    OBVIOUS
  <2>1. {k \in S : k < h} \in SUBSET (S \ {h})
    OBVIOUS
  <2>2. IsFiniteSet(S \ {h}) /\ Cardinality(S \ {h}) = Cardinality(S) - 1
    BY FS_RemoveElement
  <2>3. IsFiniteSet({k \in S : k < h}) /\ Cardinality({k \in S : k < h}) <= Cardinality(S) - 1
    BY <2>1, <2>2, FS_Subset
  <2>4. Cardinality({k \in S : k < h}) \in Nat
    BY <2>3, FS_CardinalityType
  <2> QED
    BY <1>0, <2>3, <2>4
<1>2. ASSUME NEW g \in S, NEW h \in S, g < h PROVE rank[g] # rank[h]
  <2> DEFINE A == {k \in S : k < g}
             B == {k \in S : k < h}
  <2>0. \A k \in S : k < g => k < h
    BY <1>2
  <2>1. A \in SUBSET B /\ g \in B /\ g \notin A
    <3>1. g \in B /\ g \notin A
      BY <1>2
    <3> QED
      BY <2>0, <3>1
  <2>2. B \in SUBSET S
    OBVIOUS
  <2>3. IsFiniteSet(B)
    BY <2>2, FS_Subset
  <2> HIDE DEF A, B
  <2>4. Cardinality(B) # Cardinality(A)
    BY <2>1, <2>3, FS_Subset
  <2> QED
    BY <2>4 DEF A, B
<1>3. IsFiniteSet(others) /\ Cardinality(others) < Cardinality(S)
  <2>1. IsFiniteSet(places) /\ Cardinality(places) = Cardinality(S)
    BY <1>0, FS_Interval
  <2> HIDE DEF places
  <2>2. IsFiniteSet(others) /\ Cardinality(others) = Cardinality(S) - 1
    BY <2>1, FS_RemoveElement DEF places
  <2> QED
    BY <1>0, <2>2
<1>4. ASSUME \A h \in S : rank[h] # i PROVE FALSE
  <2>1. rank \in [S -> others]
    BY <1>1, <1>4
  <2> HIDE DEF rank, others
  <2>2. PICK x, y \in S : x # y /\ rank[x] = rank[y]
    BY <1>3, <2>1, FS_PigeonHole
  <2> QED
    BY <1>2, <2>2
<1> QED
  BY <1>4
-----------------------------------------------------------------------------
(* The inductive invariant.                                                *)

\* The timer and the flags of a handler's node agree with its timestamps, and a
\* subscription that could report has a timer or has asked for a run.
TimerOK(hd) ==
    /\ hd.registered <=> hd.subscribe /\ ~hd.priming
    /\ ~hd.registered => ~hd.runScheduled /\ hd.timer = NoTimer
    /\ hd.min = 0 \/ hd.min <= hd.max
    /\ hd.runScheduled /\ ~hd.early => hd.min = 0
    /\ hd.timer # NoTimer => hd.min <= hd.timer
    /\ hd.registered /\ CanStartReporting(hd) => hd.timer # NoTimer \/ hd.runScheduled

\* A report in the middle of a cluster has nothing of it to send again.
Coherent(hd) ==
    hd.chunked => \A a \in Upcoming(hd), b \in hd.unsent : b \in Cluster(a) => b >= a

\* Where a handler is in its report, and why it counts as dirty.
ReportOK(hd) ==
    /\ hd.unsent \subseteq hd.path
    /\ ~hd.subscribe => hd.priming /\ (hd.chunked \/ CanStartReporting(hd))
    /\ hd.priming /\ (hd.chunked \/ CanStartReporting(hd)) => hd.forceDirty
    /\ hd.chunked => hd.prevGen <= hd.curGen
    /\ ~hd.priming /\ hd.unsent # {} => hd.dirtyGen > hd.prevGen

\* A dirty path that is newer than generation g stands for the attribute.
Covered(dirtySet, a, g) == \E e \in dirtySet : a \in e.path /\ e.gen > g

\* What dirtySet covers, newSet covers too.
Keeps(dirtySet, newSet) ==
    \A a : \A n \in Nat : Covered(dirtySet, a, n) => Covered(newSet, a, n)

\* The generation in which the present report, or the last one, was begun.
Since(hd) == IF hd.chunked THEN hd.curGen ELSE hd.prevGen

\* What is in no report is ahead in the report, or was dirtied after its begin.
StaysDirty(hd, dirtySet) ==
    \A a \in hd.unsent :
        \/ hd.priming /\ ~hd.chunked /\ CanStartReporting(hd)
        \/ hd.chunked /\ a > hd.pos /\ (hd.priming \/ Covered(dirtySet, a, hd.prevGen))
        \/ Covered(dirtySet, a, Since(hd)) /\ hd.dirtyGen > Since(hd)

GenerationOK(hd, g) == hd.dirtyGen <= g /\ hd.prevGen <= g /\ hd.curGen <= g

\* A handler is in order.
HandlerOK(hd, dirtySet, g) ==
    TimerOK(hd) /\ ReportOK(hd) /\ Coherent(hd) /\ StaysDirty(hd, dirtySet) /\ GenerationOK(hd, g)

Subscribers == {h \in Allocated : handler[h].subscribe}
Readers == {h \in Allocated : ~handler[h].subscribe}

\* The dirty set fits its pool, and nothing in it is newer than generation g.
DirtyOK(dirtySet, g) ==
    /\ dirtySet \subseteq DirtyEntries
    /\ IsFiniteSet(dirtySet)
    /\ Cardinality(dirtySet) <= MaxDirtySet
    /\ \A e \in dirtySet : e.gen <= g

PoolOK ==
    /\ Cardinality(Subscribers) <= MaxSubscriptions
    /\ Cardinality(Readers) <= MaxReads
    /\ toVisit <= Cardinality(Allocated)

HandlersOK ==
    \A h \in Allocated : HandlerOK(handler[h], mGlobalDirtySet, mDirtyGeneration)

IndInv ==
    /\ TypeOK
    /\ DirtyOK(mGlobalDirtySet, mDirtyGeneration)
    /\ PoolOK
    /\ InFlightIsAwaiting
    /\ HandlersOK
    /\ SomeoneWakesTheEngine

-----------------------------------------------------------------------------
(* The operators on the record of a handler.                               *)

\* Two records that differ in nothing but what the scheduler keeps.
Alike(r, s) ==
    /\ r.state = s.state /\ r.subscribe = s.subscribe /\ r.path = s.path
    /\ r.priming = s.priming /\ r.chunked = s.chunked /\ r.forceDirty = s.forceDirty
    /\ r.dirtyGen = s.dirtyGen /\ r.prevGen = s.prevGen /\ r.curGen = s.curGen
    /\ r.pos = s.pos /\ r.unsent = s.unsent

\* What OnBecameReportable needs of a node to leave it in order.
Rearmable(hd) ==
    /\ hd.registered <=> hd.subscribe /\ ~hd.priming
    /\ ~hd.registered => ~hd.runScheduled /\ hd.timer = NoTimer
    /\ hd.min = 0 \/ hd.min <= hd.max
    /\ hd.runScheduled /\ ~hd.early => hd.min = 0

\* The constants, as the assumption gives them.
LEMMA ConstantTypes ==
    /\ MinInterval \in Nat /\ MaxInterval \in Nat \ {0} /\ MinInterval <= MaxInterval
    /\ MaxInputs \in Nat /\ MaxInFlight \in Nat \ {0} /\ MaxDirtySet \in Nat \ {0}
    /\ NumAttributes \in Nat \ {0} /\ MaxSubscriptions \in Nat /\ MaxReads \in Nat
    /\ NumHandlers \in Nat /\ IndexModulus \in Nat \ {0} /\ IndexModulus > NumHandlers
  BY ReportingAssumption DEF NumHandlers

\* The fields of a handler.
LEMMA Fields ==
    ASSUME NEW hd \in HandlerRecords
    PROVE  /\ hd.state \in {"CanStartReporting", "AwaitingReportResponse"}
           /\ hd.subscribe \in BOOLEAN /\ hd.priming \in BOOLEAN /\ hd.chunked \in BOOLEAN
           /\ hd.forceDirty \in BOOLEAN /\ hd.registered \in BOOLEAN /\ hd.runScheduled \in BOOLEAN
           /\ hd.early \in BOOLEAN
           /\ hd.path \subseteq Attributes /\ hd.unsent \subseteq Attributes
           /\ hd.dirtyGen \in Nat /\ hd.prevGen \in Nat /\ hd.curGen \in Nat
           /\ hd.pos \in 0 .. NumAttributes
           /\ hd.eventMin \in 1 .. MaxInputs + 1 /\ hd.lastScheduled \in 0 .. MaxInputs
           /\ hd.min \in 0 .. MinInterval /\ hd.max \in -1 .. MaxInterval
           /\ hd.timer \in -1 .. MaxInterval
  BY ConstantTypes DEF HandlerRecords

\* A handler that is allocated has all its fields.
LEMMA AllocatedHandler ==
    ASSUME TypeOK
    PROVE  /\ \A h \in Allocated : handler[h] \in HandlerRecords
           /\ Allocated \subseteq Handlers
           /\ \A h \in Handlers \ Allocated : handler[h] = Free
<1>1. \A hd \in HandlerRecords : hd.state # "Free"
  BY Fields
<1> QED
  BY <1>1 DEF TypeOK, Allocated, Free

\* Setting the timer of a node.
LEMMA TimerSet ==
    ASSUME NEW hd \in HandlerRecords, NEW t \in -1 .. MaxInterval,
           NEW r, r = [hd EXCEPT !.timer = t]
    PROVE  /\ r \in HandlerRecords /\ Alike(r, hd)
           /\ r.runScheduled = hd.runScheduled /\ r.early = hd.early /\ r.timer = t
           /\ r.min = hd.min /\ r.max = hd.max /\ r.registered = hd.registered
           /\ r.eventMin = hd.eventMin /\ r.lastScheduled = hd.lastScheduled
<1>1. [hd EXCEPT !.timer = t] \in HandlerRecords
  BY DEF HandlerRecords
<1> QED
  BY <1>1 DEF HandlerRecords, Alike

\* The next timeout is one a timer can have; it is not before the minimum
\* interval, unless a timer that fired early has already asked for the run, and
\* there is none only if the handler awaits a response.
LEMMA TimeoutRange ==
    ASSUME NEW hd \in HandlerRecords, Rearmable(hd), hd.registered
    PROVE  /\ CalculateNextReportTimeout(hd) \in -1 .. MaxInterval
           /\ CalculateNextReportTimeout(hd) # NoTimer =>
                \/ hd.min <= CalculateNextReportTimeout(hd)
                \/ hd.early /\ CalculateNextReportTimeout(hd) = 0
           /\ CanStartReporting(hd) => CalculateNextReportTimeout(hd) # NoTimer
<1> USE Fields, ConstantTypes DEF NoTimer, FarAway, Rearmable
<1>1. CASE IsReportableNow(hd)
  BY <1>1 DEF CalculateNextReportTimeout, IsReportableNow
<1>2. CASE ~IsReportableNow(hd) /\ ShouldStartReporting(hd) /\ hd.min > 0
  BY <1>2 DEF CalculateNextReportTimeout
<1>3. CASE ~IsReportableNow(hd) /\ ~(ShouldStartReporting(hd) /\ hd.min > 0)
  <2>1. CalculateNextReportTimeout(hd) = IF hd.max < 0 THEN -1 ELSE hd.max
    BY <1>3 DEF CalculateNextReportTimeout
  <2>2. CanStartReporting(hd) => hd.max >= 0
    BY <1>3 DEF IsReportableNow
  <2> QED
    BY <2>1, <2>2
<1> QED
  BY <1>1, <1>2, <1>3

\* OnBecameReportable arms the timer or asks for a run.
LEMMA BecameReportable ==
    ASSUME NEW hd \in HandlerRecords, Rearmable(hd)
    PROVE  /\ OnBecameReportable(hd) \in HandlerRecords
           /\ TimerOK(OnBecameReportable(hd))
           /\ Alike(OnBecameReportable(hd), hd)
           /\ OnBecameReportable(hd).timer = NoTimer =>
                ~hd.registered \/ ~CanStartReporting(hd) \/ WakesEngine(hd)
           /\ OnBecameReportable(hd).eventMin = hd.eventMin
<1> USE Fields, ConstantTypes
<1>1. CASE ~hd.registered
  <2>1. OnBecameReportable(hd) = hd
    BY <1>1 DEF OnBecameReportable, WakesEngine
  <2>2. TimerOK(hd) /\ Alike(hd, hd)
    BY <1>1 DEF TimerOK, Rearmable, Alike
  <2> QED
    BY <1>1, <2>1, <2>2
<1> DEFINE r == OnBecameReportable(hd)
<1>2. CASE hd.registered /\ WakesEngine(hd)
  <2>1. r = [hd EXCEPT !.runScheduled = TRUE, !.timer = NoTimer]
    BY <1>2 DEF OnBecameReportable
  <2>2. (hd.min = 0 \/ hd.early) /\ NoTimer \in -1 .. MaxInterval
    BY <1>2, TimeoutRange DEF WakesEngine, NoTimer
  <2> HIDE DEF r
  <2>3. /\ r \in HandlerRecords /\ Alike(r, hd) /\ r.runScheduled /\ r.timer = NoTimer
        /\ r.min = hd.min /\ r.max = hd.max /\ r.registered = hd.registered
        /\ r.early = hd.early /\ r.eventMin = hd.eventMin
    <3>1. r \in HandlerRecords
      BY ONLY <2>1, <2>2, hd \in HandlerRecords DEF HandlerRecords
    <3> QED
      BY ONLY <2>1, <3>1, hd \in HandlerRecords DEF HandlerRecords, Alike
  <2>4. TimerOK(r)
    BY <1>2, <2>2, <2>3 DEF TimerOK, Rearmable, Alike
  <2> QED
    BY <1>2, <2>3, <2>4 DEF r
<1>3. CASE hd.registered /\ ~WakesEngine(hd)
  <2> DEFINE t == CalculateNextReportTimeout(hd)
  <2>1. r = [hd EXCEPT !.timer = t]
    BY <1>3 DEF OnBecameReportable
  <2>2. /\ t \in -1 .. MaxInterval
        /\ t # NoTimer => hd.min <= t
        /\ CanStartReporting(hd) => t # NoTimer
    BY <1>3, TimeoutRange DEF WakesEngine
  <2> HIDE DEF r, t
  <2>3. /\ r \in HandlerRecords /\ Alike(r, hd) /\ r.runScheduled = hd.runScheduled /\ r.timer = t
        /\ r.min = hd.min /\ r.max = hd.max /\ r.registered = hd.registered
        /\ r.early = hd.early /\ r.eventMin = hd.eventMin
    BY <2>1, <2>2, TimerSet
  <2>4. TimerOK(r)
    BY <1>3, <2>2, <2>3 DEF TimerOK, Rearmable, Alike, CanStartReporting
  <2> QED
    BY <1>3, <2>2, <2>3, <2>4 DEF r
<1> QED
  BY <1>1, <1>2, <1>3

\* What is alike is in the same place of the same report.
LEMMA AlikeReports ==
    ASSUME NEW r, NEW s, Alike(r, s), NEW D, NEW g
    PROVE  /\ ReportOK(s) => ReportOK(r)
           /\ Coherent(s) => Coherent(r)
           /\ StaysDirty(s, D) => StaysDirty(r, D)
           /\ GenerationOK(s, g) => GenerationOK(r, g)
           /\ IsDirty(r) <=> IsDirty(s)
  BY DEF Alike, ReportOK, Coherent, Upcoming, StaysDirty, Since, GenerationOK, CanStartReporting,
         IsDirty

\* A node in order can be armed again.
LEMMA Rearms ==
    ASSUME NEW hd, TimerOK(hd)
    PROVE  Rearmable(hd)
  BY DEF TimerOK, Rearmable

\* A new handler has all it was asked for ahead of it.
LEMMA NewHandlerOK ==
    ASSUME NEW request \in Requests, NEW dirtySet, NEW g \in Nat,
           NEW hd, hd = NewHandler(request)
    PROVE  /\ hd \in HandlerRecords /\ HandlerOK(hd, dirtySet, g)
           /\ hd.subscribe = request.subscribe /\ CanStartReporting(hd)
           /\ ~IsAwaitingReportResponse(hd)
<1>1. request.subscribe \in BOOLEAN /\ request.path \in SUBSET Attributes
  BY ReportingAssumption
<1>2. hd \in HandlerRecords
  BY <1>1, ConstantTypes DEF NewHandler, HandlerRecords, NoTimer
<1>3. TimerOK(hd) /\ ReportOK(hd) /\ Coherent(hd) /\ GenerationOK(hd, g)
  BY <1>1 DEF NewHandler, TimerOK, ReportOK, Coherent, GenerationOK, CanStartReporting
<1>4. StaysDirty(hd, dirtySet)
  BY DEF NewHandler, StaysDirty, CanStartReporting
<1> QED
  BY <1>2, <1>3, <1>4 DEF HandlerOK, NewHandler, CanStartReporting, IsAwaitingReportResponse

\* The handler OnStatusResponse goes on with, before the scheduler is told.
Answered(hd) ==
    LET resumed == [hd EXCEPT !.state = "CanStartReporting"]
    IN IF resumed.subscribe /\ resumed.priming /\ ~resumed.chunked
         THEN OnSubscriptionEstablished([resumed EXCEPT !.priming = FALSE])
         ELSE resumed

\* A response lets the handler go on, and the engine is woken unless a timer is.
LEMMA AnsweredOK ==
    ASSUME NEW hd \in HandlerRecords, NEW dirtySet, NEW g, HandlerOK(hd, dirtySet, g),
           IsAwaitingReportResponse(hd), NEW r, r = OnBecameReportable(Answered(hd))
    PROVE  /\ r \in HandlerRecords /\ HandlerOK(r, dirtySet, g)
           /\ r.subscribe = hd.subscribe /\ CanStartReporting(r) /\ ~IsAwaitingReportResponse(r)
           /\ r.timer = NoTimer => ShouldReportUnscheduled(Answered(hd)) \/ WakesEngine(Answered(hd))
<1> DEFINE n == Answered(hd)
<1> USE Fields, ConstantTypes
<1>1. CASE hd.subscribe /\ hd.priming /\ ~hd.chunked
  <2>1. n = [[[hd EXCEPT !.state = "CanStartReporting", !.priming = FALSE]
               EXCEPT !.min = MinInterval, !.max = MaxInterval] EXCEPT !.registered = TRUE]
    BY <1>1 DEF Answered, OnSubscriptionEstablished, SetIntervalTimeStamps, HandlerRecords
  <2> HIDE DEF n
  <2>2. /\ n \in HandlerRecords /\ n.state = "CanStartReporting" /\ ~n.priming /\ n.registered
        /\ n.min = MinInterval /\ n.max = MaxInterval /\ n.subscribe = hd.subscribe
        /\ n.path = hd.path /\ n.chunked = hd.chunked /\ n.forceDirty = hd.forceDirty
        /\ n.dirtyGen = hd.dirtyGen /\ n.prevGen = hd.prevGen /\ n.curGen = hd.curGen
        /\ n.pos = hd.pos /\ n.unsent = hd.unsent /\ n.runScheduled = hd.runScheduled
    <3>1. MinInterval \in 0 .. MinInterval /\ MaxInterval \in -1 .. MaxInterval
      OBVIOUS
    <3>2. n \in HandlerRecords
      BY ONLY <2>1, <3>1, hd \in HandlerRecords DEF HandlerRecords
    <3> QED
      BY ONLY <2>1, <3>2, hd \in HandlerRecords DEF HandlerRecords
  <2>3. ~n.runScheduled
    BY <1>1, <2>2 DEF HandlerOK, TimerOK
  <2>4. Rearmable(n)
    BY <1>1, <2>2, <2>3 DEF Rearmable
  <2>5. ReportOK(n) /\ Coherent(n) /\ GenerationOK(n, g)
    BY <1>1, <2>2 DEF HandlerOK, ReportOK, Coherent, GenerationOK, StaysDirty, Since,
                      CanStartReporting, IsAwaitingReportResponse
  <2>6. StaysDirty(n, dirtySet)
    BY <1>1, <2>2 DEF HandlerOK, StaysDirty, Since, CanStartReporting, IsAwaitingReportResponse
  <2>7. /\ r \in HandlerRecords /\ TimerOK(r) /\ Alike(r, n)
        /\ r.timer = NoTimer => ~n.registered \/ ~CanStartReporting(n) \/ WakesEngine(n)
    BY <2>2, <2>4, BecameReportable DEF n
  <2>8. ReportOK(r) /\ Coherent(r) /\ GenerationOK(r, g) /\ StaysDirty(r, dirtySet)
    BY <2>5, <2>6, <2>7, AlikeReports
  <2> QED
    BY <2>2, <2>7, <2>8
       DEF HandlerOK, Alike, CanStartReporting, IsAwaitingReportResponse, n
<1>2. CASE ~(hd.subscribe /\ hd.priming /\ ~hd.chunked)
  <2>1. n = [hd EXCEPT !.state = "CanStartReporting"]
    BY <1>2 DEF Answered, HandlerRecords
  <2> HIDE DEF n
  <2>2. /\ n \in HandlerRecords /\ n.state = "CanStartReporting"
        /\ n.priming = hd.priming /\ n.registered = hd.registered
        /\ n.min = hd.min /\ n.max = hd.max /\ n.subscribe = hd.subscribe
        /\ n.path = hd.path /\ n.chunked = hd.chunked /\ n.forceDirty = hd.forceDirty
        /\ n.dirtyGen = hd.dirtyGen /\ n.prevGen = hd.prevGen /\ n.curGen = hd.curGen
        /\ n.pos = hd.pos /\ n.unsent = hd.unsent /\ n.runScheduled = hd.runScheduled
        /\ n.timer = hd.timer /\ n.early = hd.early
    BY <2>1 DEF HandlerRecords
  <2>3. n.priming => n.chunked
    BY <1>2, <2>2 DEF HandlerOK, ReportOK, CanStartReporting, IsAwaitingReportResponse
  <2>4. Rearmable(n)
    BY <2>2 DEF HandlerOK, TimerOK, Rearmable
  <2>5. ReportOK(n) /\ Coherent(n) /\ GenerationOK(n, g)
    BY <2>2, <2>3 DEF HandlerOK, ReportOK, Coherent, Upcoming, GenerationOK, CanStartReporting
  <2>6. StaysDirty(n, dirtySet)
    BY <2>2, <2>3 DEF HandlerOK, StaysDirty, Since, CanStartReporting, IsAwaitingReportResponse
  <2>7. /\ r \in HandlerRecords /\ TimerOK(r) /\ Alike(r, n)
        /\ r.timer = NoTimer => ~n.registered \/ ~CanStartReporting(n) \/ WakesEngine(n)
    BY <2>2, <2>4, BecameReportable DEF n
  <2>8. ReportOK(r) /\ Coherent(r) /\ GenerationOK(r, g) /\ StaysDirty(r, dirtySet)
    BY <2>5, <2>6, <2>7, AlikeReports
  <2>9. ~n.registered => ShouldReportUnscheduled(n)
    BY <2>2, <2>4 DEF ShouldReportUnscheduled, CanStartReporting, Rearmable
  <2> QED
    BY <2>2, <2>7, <2>8, <2>9
       DEF HandlerOK, Alike, CanStartReporting, IsAwaitingReportResponse, n
<1> QED
  BY <1>1, <1>2

\* The clusters are disjoint stretches of attributes.
LEMMA ClusterOf ==
    ASSUME NEW a \in Attributes
    PROVE  /\ a \in Cluster(a) /\ Cluster(a) \in ClusterPaths /\ Cluster(a) \subseteq Attributes
           /\ \A b \in Cluster(a) : Cluster(b) = Cluster(a)
           /\ \A b, c \in Cluster(a) : b .. c \subseteq Cluster(a)
<1>1. \A x \in Attributes : x \in Cluster(x) /\ Cluster(x) \in ClusterPaths
  BY ReportingAssumption DEF Cluster
<1>2. \A x \in Attributes : Cluster(x) \subseteq Attributes
  BY <1>1, ReportingAssumption
<1>3. \A b \in Cluster(a) : Cluster(b) = Cluster(a)
  <2> SUFFICES ASSUME NEW b \in Cluster(a) PROVE Cluster(b) = Cluster(a)
    OBVIOUS
  <2>1. b \in Attributes
    BY <1>2
  <2>2. b \in Cluster(b) \cap Cluster(a) /\ Cluster(b) \in ClusterPaths /\ Cluster(a) \in ClusterPaths
    BY <1>1, <2>1
  <2> QED
    BY <2>2, ReportingAssumption
<1> QED
  BY <1>1, <1>2, <1>3, ReportingAssumption

\* A cluster has a first attribute, where the iterator goes back to.
LEMMA ClusterStart ==
    ASSUME NEW a \in Attributes
    PROVE  /\ Min(Cluster(a)) \in Cluster(a) /\ Min(Cluster(a)) \in 1 .. a
           /\ \A b \in Cluster(a) : Min(Cluster(a)) <= b
<1>1. Cluster(a) \subseteq Attributes /\ a \in Cluster(a)
  BY ClusterOf
<1>2. Attributes \subseteq Nat /\ \A x \in Attributes : x >= 1
  BY ConstantTypes DEF Attributes
<1>3. Min(Cluster(a)) \in Cluster(a) /\ \A b \in Cluster(a) : Min(Cluster(a)) <= b
  BY <1>1, <1>2, MinNatural
<1>4. Min(Cluster(a)) \in Nat /\ Min(Cluster(a)) >= 1 /\ Min(Cluster(a)) <= a /\ a \in Nat
  BY <1>1, <1>2, <1>3
<1> QED
  BY <1>3, <1>4

\* The fields of a handler that is marked dirty; the iterator never goes forward.
Marked(m, hd, changed, g) ==
    /\ m \in HandlerRecords
    /\ m.state = hd.state /\ m.subscribe = hd.subscribe /\ m.path = hd.path
    /\ m.priming = hd.priming /\ m.chunked = hd.chunked /\ m.forceDirty = hd.forceDirty
    /\ m.dirtyGen = g /\ m.prevGen = hd.prevGen /\ m.curGen = hd.curGen
    /\ m.unsent = hd.unsent \cup (hd.path \cap changed)
    /\ m.registered = hd.registered /\ m.runScheduled = hd.runScheduled
    /\ m.timer = hd.timer /\ m.min = hd.min /\ m.max = hd.max /\ m.early = hd.early
    /\ m.pos <= hd.pos
    /\ IF hd.pos # 0 /\ \E a \in Upcoming(hd) : Cluster(a) \cap changed # {}
         THEN m.pos = Min(Cluster(hd.pos)) - 1
         ELSE m.pos = hd.pos

\* AttributePathIsDirty changes the generation, the position and what is unsent.
LEMMA MarkedFields ==
    ASSUME NEW hd \in HandlerRecords, NEW changed \in SUBSET Attributes,
           NEW g \in 1 .. MaxInputs + 1
    PROVE  Marked(MarkDirty(hd, changed, g), hd, changed, g)
<1> DEFINE m == MarkDirty(hd, changed, g)
<1> DEFINE p == IF hd.pos # 0 /\ \E a \in Upcoming(hd) : Cluster(a) \cap changed # {}
                  THEN Min(Cluster(hd.pos)) - 1 ELSE hd.pos
           u == hd.unsent \cup (hd.path \cap changed)
<1>1. p \in 0 .. NumAttributes /\ p <= hd.pos
  <2>1. hd.pos \in 0 .. NumAttributes
    BY Fields
  <2>2. hd.pos # 0 => hd.pos \in Attributes
    BY <2>1, ConstantTypes DEF Attributes
  <2>3. hd.pos # 0 => Min(Cluster(hd.pos)) \in 1 .. hd.pos
    BY <2>2, ClusterStart
  <2> QED
    BY <2>1, <2>3, ConstantTypes
<1>2. u \in SUBSET Attributes /\ g \in 0 .. MaxInputs + 1
  BY Fields, ConstantTypes
<1>3. m = [hd EXCEPT !.dirtyGen = g, !.unsent = u, !.pos = p]
  BY DEF MarkDirty
<1>p. IF hd.pos # 0 /\ \E a \in Upcoming(hd) : Cluster(a) \cap changed # {}
        THEN p = Min(Cluster(hd.pos)) - 1 ELSE p = hd.pos
  OBVIOUS
<1>u. u = hd.unsent \cup (hd.path \cap changed)
  OBVIOUS
<1> HIDE DEF p, u, m
<1>4. m \in HandlerRecords
  BY ONLY <1>1, <1>2, <1>3, hd \in HandlerRecords DEF HandlerRecords
<1>5. /\ m.state = hd.state /\ m.subscribe = hd.subscribe /\ m.path = hd.path
      /\ m.priming = hd.priming /\ m.chunked = hd.chunked /\ m.forceDirty = hd.forceDirty
      /\ m.dirtyGen = g /\ m.prevGen = hd.prevGen /\ m.curGen = hd.curGen
      /\ m.unsent = u /\ m.pos = p
      /\ m.registered = hd.registered /\ m.runScheduled = hd.runScheduled
      /\ m.timer = hd.timer /\ m.min = hd.min /\ m.max = hd.max /\ m.early = hd.early
  BY ONLY <1>3, <1>4, hd \in HandlerRecords DEF HandlerRecords
<1>6. Marked(m, hd, changed, g)
  BY <1>1, <1>4, <1>5, <1>p, <1>u DEF Marked
<1> QED
  BY <1>6 DEF m

\* A change that AttributePathIsDirty tells a handler of leaves the report
\* coherent: a cluster the report is in the middle of is sent again.
LEMMA MarkedCoherent ==
    ASSUME NEW hd \in HandlerRecords, NEW changed \in SUBSET Attributes,
           NEW g \in 1 .. MaxInputs + 1, NEW m, m = MarkDirty(hd, changed, g),
           Coherent(hd), hd.unsent \subseteq hd.path
    PROVE  Coherent(m)
<1>f. Marked(m, hd, changed, g)
  BY MarkedFields
<1> USE DEF Marked
<1>n. /\ m.pos \in Nat /\ hd.pos \in Nat /\ hd.pos \in 0 .. NumAttributes
      /\ hd.prevGen \in Nat /\ hd.curGen \in Nat /\ hd.dirtyGen \in Nat
      /\ hd.path \subseteq Attributes /\ hd.unsent \subseteq Attributes
      /\ Attributes \subseteq Nat \ {0}
  BY <1>f, Fields, ConstantTypes DEF Attributes
<1> SUFFICES ASSUME m.chunked, NEW a \in Upcoming(m), NEW b \in m.unsent, b \in Cluster(a), b < a
             PROVE  FALSE
  <2>1. \A a, b : a \in Upcoming(m) /\ b \in m.unsent => a \in Int /\ b \in Int
    <3>1. m.path \subseteq Nat /\ m.unsent \subseteq Nat
      BY <1>f, <1>n
    <3> QED
      BY <3>1 DEF Upcoming
  <2> QED
    BY <2>1 DEF Coherent
<1>1. a \in hd.path /\ a > m.pos /\ b \in hd.path /\ hd.chunked
  BY <1>f DEF Upcoming
<1>2. a \in Attributes /\ b \in Attributes /\ a \in Nat /\ b \in Nat \ {0} /\ m.pos \in Nat
  BY <1>1, <1>n
<1>3. b <= m.pos
  BY <1>1, <1>2, <1>f DEF Upcoming
<1>4. CASE hd.pos # 0 /\ \E c \in Upcoming(hd) : Cluster(c) \cap changed # {}
  <2> DEFINE q == Min(Cluster(hd.pos))
  <2>1. m.pos = q - 1
    BY <1>4, <1>f
  <2>2. hd.pos \in Attributes
    BY <1>4, <1>n DEF Attributes
  <2>3. q \in Cluster(hd.pos) /\ q \in 1 .. hd.pos /\ \A x \in Cluster(hd.pos) : q <= x
    BY <2>2, ClusterStart
  <2> HIDE DEF q
  <2>4. q \in b .. a
    BY <1>1, <1>2, <1>3, <2>1, <2>2, <2>3
  <2>5. q \in Cluster(a)
    BY <1>2, <2>4, ClusterOf
  <2>6. Cluster(q) = Cluster(a) /\ Cluster(q) = Cluster(hd.pos)
    BY <1>2, <2>2, <2>3, <2>5, ClusterOf
  <2>7. q <= b
    BY <2>3, <2>6
  <2> QED
    BY <1>2, <1>3, <2>1, <2>2, <2>3, <2>7
<1>5. CASE ~(hd.pos # 0 /\ \E c \in Upcoming(hd) : Cluster(c) \cap changed # {})
  <2>1. m.pos = hd.pos /\ m.path = hd.path
    BY <1>5, <1>f
  <2>2. a \in Upcoming(hd)
    BY <2>1 DEF Upcoming
  <2>3. b \notin hd.unsent
    BY <1>1, <1>2, <2>2 DEF Coherent
  <2>4. b \in changed
    BY <2>3, <1>f
  <2>5. hd.pos = 0
    BY <1>5, <2>2, <2>4
  <2> QED
    BY <1>2, <1>3, <2>1, <2>5
<1> QED
  BY <1>4, <1>5

\* What is marked dirty is covered by the dirty set the change leaves behind.
LEMMA MarkedOK ==
    ASSUME NEW hd \in HandlerRecords, NEW changed \in SUBSET Attributes,
           NEW g \in Nat, g + 1 \in 1 .. MaxInputs + 1, NEW D, NEW E, HandlerOK(hd, D, g),
           Keeps(D, E),
           \A a \in changed : \A n \in Nat : n <= g => Covered(E, a, n),
           NEW m, m = MarkDirty(hd, changed, g + 1), NEW r, r = OnBecameReportable(m)
    PROVE  /\ r \in HandlerRecords /\ HandlerOK(r, E, g + 1)
           /\ r.subscribe = hd.subscribe /\ r.state = hd.state
           /\ r.timer = NoTimer => \/ ~CanStartReporting(hd) \/ WakesEngine(m)
                                   \/ hd.timer = NoTimer
<1>f. Marked(m, hd, changed, g + 1)
  BY MarkedFields
<1> USE DEF Marked
<1>n. /\ m.pos \in Nat /\ hd.pos \in Nat /\ hd.pos \in 0 .. NumAttributes
      /\ hd.prevGen \in Nat /\ hd.curGen \in Nat /\ hd.dirtyGen \in Nat
      /\ hd.path \subseteq Attributes /\ hd.unsent \subseteq Attributes
      /\ Attributes \subseteq Nat \ {0}
  BY <1>f, Fields, ConstantTypes DEF Attributes
<1>1. Rearmable(m)
  BY <1>f DEF HandlerOK, TimerOK, Rearmable
<1>2. Coherent(m)
  BY MarkedCoherent DEF HandlerOK, ReportOK
<1>3. ReportOK(m) /\ GenerationOK(m, g + 1)
  BY <1>f, <1>n DEF HandlerOK, ReportOK, GenerationOK, CanStartReporting
<1>4. StaysDirty(m, E)
  <2> SUFFICES ASSUME NEW a \in m.unsent
               PROVE  \/ m.priming /\ ~m.chunked /\ CanStartReporting(m)
                      \/ m.chunked /\ a > m.pos /\ (m.priming \/ Covered(E, a, m.prevGen))
                      \/ Covered(E, a, Since(m)) /\ m.dirtyGen > Since(m)
    BY DEF StaysDirty
  <2>1. Since(m) = Since(hd) /\ Since(hd) \in Nat /\ Since(hd) <= g /\ m.dirtyGen = g + 1
    BY <1>f, <1>n DEF HandlerOK, GenerationOK, Since
  <2>2. CASE a \in changed
    BY <2>1, <2>2
  <2>3. CASE a \in hd.unsent
    <3>1. a \in Nat /\ hd.pos \in Nat /\ m.pos \in Nat /\ m.pos <= hd.pos
      BY <1>f, <1>n, <2>3
    <3>2. \/ hd.priming /\ ~hd.chunked /\ CanStartReporting(hd)
          \/ hd.chunked /\ a > hd.pos /\ (hd.priming \/ Covered(D, a, hd.prevGen))
          \/ Covered(D, a, Since(hd)) /\ hd.dirtyGen > Since(hd)
      BY <2>3 DEF HandlerOK, StaysDirty
    <3>3. /\ m.priming = hd.priming /\ m.chunked = hd.chunked /\ m.prevGen = hd.prevGen
          /\ CanStartReporting(m) <=> CanStartReporting(hd)
      BY <1>f DEF CanStartReporting
    <3>4. /\ Covered(D, a, hd.prevGen) => Covered(E, a, hd.prevGen)
          /\ Covered(D, a, Since(hd)) => Covered(E, a, Since(hd))
      BY <1>n, <2>1 DEF Keeps
    <3>5. /\ a > hd.pos => a > m.pos
          /\ m.dirtyGen > Since(m)
      BY <2>1, <3>1
    <3> QED
      BY <2>1, <3>2, <3>3, <3>4, <3>5
  <2> QED
    BY <2>2, <2>3, <1>f
<1>5. /\ r \in HandlerRecords /\ TimerOK(r) /\ Alike(r, m)
      /\ r.timer = NoTimer => ~m.registered \/ ~CanStartReporting(m) \/ WakesEngine(m)
  BY <1>f, <1>1, BecameReportable
<1>6. ReportOK(r) /\ Coherent(r) /\ GenerationOK(r, g + 1) /\ StaysDirty(r, E)
  BY <1>2, <1>3, <1>4, <1>5, AlikeReports
<1>7. r.timer = NoTimer => ~CanStartReporting(hd) \/ WakesEngine(m) \/ hd.timer = NoTimer
  BY <1>5, <1>f DEF HandlerOK, TimerOK, CanStartReporting
<1> QED
  BY <1>5, <1>6, <1>7, <1>f DEF HandlerOK, Alike

\* A handler that is forced dirty stays in order.
LEMMA ForcedOK ==
    ASSUME NEW hd \in HandlerRecords, NEW D, NEW g, HandlerOK(hd, D, g)
    PROVE  /\ [hd EXCEPT !.forceDirty = TRUE] \in HandlerRecords
           /\ HandlerOK([hd EXCEPT !.forceDirty = TRUE], D, g)
           /\ [hd EXCEPT !.forceDirty = TRUE].subscribe = hd.subscribe
           /\ [hd EXCEPT !.forceDirty = TRUE].state = hd.state
           /\ [hd EXCEPT !.forceDirty = TRUE].timer = hd.timer
<1> DEFINE n == [hd EXCEPT !.forceDirty = TRUE]
<1>1. n \in HandlerRecords
  BY DEF HandlerRecords
<1>2. /\ n.state = hd.state /\ n.subscribe = hd.subscribe /\ n.path = hd.path
      /\ n.priming = hd.priming /\ n.chunked = hd.chunked /\ n.forceDirty
      /\ n.dirtyGen = hd.dirtyGen /\ n.prevGen = hd.prevGen /\ n.curGen = hd.curGen
      /\ n.pos = hd.pos /\ n.unsent = hd.unsent /\ n.registered = hd.registered
      /\ n.runScheduled = hd.runScheduled /\ n.timer = hd.timer /\ n.min = hd.min /\ n.max = hd.max
      /\ n.early = hd.early
  BY DEF HandlerRecords
<1> HIDE DEF n
<1>3. TimerOK(n) /\ ReportOK(n) /\ GenerationOK(n, g)
  BY <1>2 DEF HandlerOK, TimerOK, ReportOK, GenerationOK, CanStartReporting
<1>4. Coherent(n) /\ StaysDirty(n, D)
  BY <1>2 DEF HandlerOK, Coherent, Upcoming, StaysDirty, Since, CanStartReporting
<1>5. HandlerOK(n, D, g)
  BY <1>3, <1>4 DEF HandlerOK
<1> QED
  BY <1>1, <1>2, <1>5 DEF n

\* Rearming the timer of a handler in order leaves it in order.
LEMMA RearmedOK ==
    ASSUME NEW hd \in HandlerRecords, NEW D, NEW g, HandlerOK(hd, D, g)
    PROVE  /\ OnBecameReportable(hd) \in HandlerRecords
           /\ HandlerOK(OnBecameReportable(hd), D, g)
           /\ OnBecameReportable(hd).subscribe = hd.subscribe
           /\ OnBecameReportable(hd).state = hd.state
           /\ OnBecameReportable(hd).timer = NoTimer =>
                ~CanStartReporting(hd) \/ WakesEngine(hd) \/ hd.timer = NoTimer
<1> DEFINE r == OnBecameReportable(hd)
<1>1. /\ r \in HandlerRecords /\ TimerOK(r) /\ Alike(r, hd)
      /\ r.timer = NoTimer => ~hd.registered \/ ~CanStartReporting(hd) \/ WakesEngine(hd)
  BY BecameReportable, Rearms DEF HandlerOK
<1> HIDE DEF r
<1>2. ReportOK(r) /\ Coherent(r) /\ StaysDirty(r, D) /\ GenerationOK(r, g)
  BY <1>1, AlikeReports DEF HandlerOK
<1>3. HandlerOK(r, D, g) /\ (~hd.registered => hd.timer = NoTimer)
  BY <1>1, <1>2 DEF HandlerOK, TimerOK
<1> QED
  BY <1>1, <1>3 DEF r, Alike

\* What the timer sets.
LEMMA FiredOK ==
    ASSUME NEW hd \in HandlerRecords, NEW D, NEW g, HandlerOK(hd, D, g), hd.timer # NoTimer,
           NEW r, r = Fired(hd)
    PROVE  /\ r \in HandlerRecords /\ HandlerOK(r, D, g)
           /\ r.subscribe = hd.subscribe /\ r.state = hd.state
<1>0. NoTimer \in -1 .. MaxInterval
  BY ConstantTypes DEF NoTimer
<1> DEFINE e == hd.early \/ hd.timer > 0
<1>d. r = [hd EXCEPT !.runScheduled = TRUE, !.timer = NoTimer, !.early = e]
  BY DEF Fired
<1>e. e \in BOOLEAN
  OBVIOUS
<1>3. (e \/ hd.min = 0) /\ hd.registered
  BY Fields, ConstantTypes DEF HandlerOK, TimerOK, NoTimer
<1> HIDE DEF e
<1>1. r \in HandlerRecords
  BY ONLY <1>0, <1>d, <1>e, hd \in HandlerRecords DEF HandlerRecords
<1>2. /\ Alike(r, hd) /\ r.runScheduled /\ r.timer = NoTimer /\ r.early = e
      /\ r.min = hd.min /\ r.max = hd.max /\ r.registered = hd.registered
  BY ONLY <1>1, <1>d, hd \in HandlerRecords DEF HandlerRecords, Alike
<1>4. TimerOK(r)
  BY <1>2, <1>3 DEF HandlerOK, TimerOK, Alike
<1>5. ReportOK(r) /\ Coherent(r) /\ StaysDirty(r, D) /\ GenerationOK(r, g)
  BY <1>2, AlikeReports DEF HandlerOK
<1> QED
  BY <1>1, <1>2, <1>4, <1>5 DEF HandlerOK, Alike

\* Time passes for a node.
LEMMA TickedOK ==
    ASSUME NEW hd \in HandlerRecords, NEW D, NEW g, HandlerOK(hd, D, g),
           NEW r, r = [hd EXCEPT !.min = IF @ > 0 THEN @ - 1 ELSE @,
                                 !.max = IF @ > -1 THEN @ - 1 ELSE @,
                                 !.timer = IF @ > 0 THEN @ - 1 ELSE @]
    PROVE  /\ r \in HandlerRecords /\ HandlerOK(r, D, g)
           /\ r.subscribe = hd.subscribe /\ r.state = hd.state
           /\ r.timer = NoTimer => hd.timer = NoTimer
<1> DEFINE x == IF hd.min > 0 THEN hd.min - 1 ELSE hd.min
           y == IF hd.max > -1 THEN hd.max - 1 ELSE hd.max
           z == IF hd.timer > 0 THEN hd.timer - 1 ELSE hd.timer
<1>1. r = [hd EXCEPT !.min = x, !.max = y, !.timer = z]
  OBVIOUS
<1>2. /\ x \in 0 .. MinInterval /\ y \in -1 .. MaxInterval /\ z \in -1 .. MaxInterval
      /\ z = NoTimer <=> hd.timer = NoTimer
      /\ hd.min = 0 => x = 0
      /\ hd.min = 0 \/ hd.min <= hd.max => x = 0 \/ x <= y
      /\ (hd.timer # NoTimer => hd.min <= hd.timer) => (z # NoTimer => x <= z)
  BY Fields, ConstantTypes DEF NoTimer
<1> HIDE DEF x, y, z
<1>3. r \in HandlerRecords
  BY ONLY <1>1, <1>2, hd \in HandlerRecords DEF HandlerRecords
<1>4. /\ Alike(r, hd) /\ r.runScheduled = hd.runScheduled /\ r.registered = hd.registered
      /\ r.min = x /\ r.max = y /\ r.timer = z /\ r.early = hd.early
  BY ONLY <1>1, <1>3, hd \in HandlerRecords DEF HandlerRecords, Alike
<1>5. TimerOK(r)
  BY <1>2, <1>4 DEF HandlerOK, TimerOK, Alike, CanStartReporting
<1>6. ReportOK(r) /\ Coherent(r) /\ StaysDirty(r, D) /\ GenerationOK(r, g)
  BY <1>4, AlikeReports DEF HandlerOK
<1> QED
  BY <1>2, <1>3, <1>4, <1>5, <1>6 DEF HandlerOK, Alike

-----------------------------------------------------------------------------
(* A report, or a chunk of one.                                            *)

\* What is still unsent after a message: it waits for the next chunk, or was
\* dirtied behind the iterator after the report began.
LEMMA LeftOver ==
    ASSUME TypeOK, NEW hd \in HandlerRecords, HandlerOK(hd, mGlobalDirtySet, mDirtyGeneration),
           CanStartReporting(hd), NEW content, NEW a \in hd.unsent \ Encoded(hd, content)
    PROVE  /\ \/ a \in Postponed(hd, content)
              \/ /\ hd.chunked /\ Covered(mGlobalDirtySet, a, hd.curGen)
                 /\ hd.dirtyGen > hd.curGen /\ a <= hd.pos
           /\ a \in Nat
<1>1. a \in hd.path /\ a \in Nat \ {0} /\ hd.pos \in Nat
  BY Fields, ConstantTypes DEF HandlerOK, ReportOK, Attributes
<1>2. /\ hd.prevGen \in Nat /\ hd.curGen \in Nat /\ hd.chunked \in BOOLEAN
      /\ hd.chunked => hd.prevGen <= hd.curGen
  BY Fields DEF HandlerOK, ReportOK
<1>3. ASSUME hd.chunked, Covered(mGlobalDirtySet, a, hd.curGen)
      PROVE  Reportable(hd, a)
  <2>1. PICK e \in mGlobalDirtySet : a \in e.path /\ e.gen > hd.curGen
    BY <1>3 DEF Covered
  <2>2. e.gen \in Nat
    BY <2>1, ConstantTypes DEF TypeOK, DirtyEntries
  <2>3. e.gen > hd.prevGen
    BY <1>2, <1>3, <2>1, <2>2
  <2> QED
    BY <2>1, <2>3 DEF Reportable
<1>4. CASE ~hd.chunked
  <2>1. Reportable(hd, a)
    BY <1>4 DEF HandlerOK, StaysDirty, Since, Reportable, Covered
  <2> QED
    BY <1>1, <1>4, <2>1 DEF Due, Postponed
<1>5. CASE hd.chunked /\ a > hd.pos
  <2>1. Reportable(hd, a)
    BY <1>3, <1>5 DEF HandlerOK, StaysDirty, Since, Reportable, Covered
  <2> QED
    BY <1>1, <1>5, <2>1 DEF Due, Postponed
<1>6. CASE hd.chunked /\ ~(a > hd.pos)
  BY <1>1, <1>6 DEF HandlerOK, StaysDirty, Since
<1> QED
  BY <1>1, <1>2, <1>4, <1>5, <1>6

\* Where the iterator is after a message.
Position(hd, content) ==
    IF Postponed(hd, content) = {}
      THEN NumAttributes
      ELSE Max({0} \cup {a \in hd.path : a < Min(Postponed(hd, content))})

\* The iterator stops right before the first attribute that did not fit.
LEMMA PositionRange ==
    ASSUME NEW hd \in HandlerRecords, NEW content
    PROVE  /\ Position(hd, content) \in 0 .. NumAttributes
           /\ Postponed(hd, content) \subseteq hd.path
           /\ Postponed(hd, content) # {} =>
                /\ Min(Postponed(hd, content)) \in Postponed(hd, content)
                /\ \A a \in Postponed(hd, content) : Position(hd, content) < a
                /\ \A a \in hd.path : a > Position(hd, content) => a >= Min(Postponed(hd, content))
<1> DEFINE P == Postponed(hd, content)
<1>0. hd.path \subseteq Attributes /\ Attributes \subseteq Nat \ {0} /\ Attributes = 1 .. NumAttributes
  BY Fields, ConstantTypes DEF Attributes
<1>1. P \subseteq hd.path
  BY DEF Postponed, Due
<1> HIDE DEF P
<1>2. CASE P = {}
  BY <1>1, <1>2, ConstantTypes DEF Position, P
<1>3. CASE P # {}
  <2> DEFINE low == Min(P)
             S == {0} \cup {a \in hd.path : a < low}
  <2>1. low \in P /\ \A y \in P : low <= y
    BY <1>0, <1>1, <1>3, MinNatural
  <2> HIDE DEF low
  <2>2. low \in 1 .. NumAttributes
    BY <1>0, <1>1, <2>1
  <2>3. S \subseteq 0 .. NumAttributes /\ S # {} /\ \A x \in S : x < low
    BY <1>0, <2>2, ConstantTypes
  <2>4. \A x \in hd.path : x < low => x \in S
    OBVIOUS
  <2>5. Position(hd, content) = Max(S)
    BY <1>3 DEF Position, P, low
  <2> HIDE DEF S
  <2>6. Max(S) \in S /\ \A y \in S : y <= Max(S)
    BY <2>3, MaxNatural, ConstantTypes
  <2>7. Max(S) \in 0 .. NumAttributes /\ Max(S) < low
    BY <2>3, <2>6
  <2>8. \A a \in P : Max(S) < a
    BY <1>0, <1>1, <2>1, <2>2, <2>7
  <2>9. \A a \in hd.path : a > Max(S) => a >= low
    BY <1>0, <2>2, <2>4, <2>6, <2>7
  <2> QED
    BY <1>1, <2>1, <2>5, <2>7, <2>8, <2>9 DEF P, low
<1> QED
  BY <1>2, <1>3

\* The fields of a handler whose message was built and sent.
SentFields(s, hd, content, more) ==
    LET current == IF hd.chunked THEN hd.curGen ELSE mDirtyGeneration
    IN  /\ s \in HandlerRecords
        /\ s.state = "AwaitingReportResponse"
        /\ s.subscribe = hd.subscribe /\ s.path = hd.path /\ s.priming = hd.priming
        /\ s.chunked = more /\ s.curGen = current /\ s.dirtyGen = hd.dirtyGen
        /\ s.pos = Position(hd, content) /\ s.unsent = hd.unsent \ Encoded(hd, content)
        /\ s.prevGen = IF more THEN hd.prevGen ELSE current
        /\ more => s.forceDirty = hd.forceDirty
        /\ TimerOK(s)

\* SendReportData: the fields after a successful send.
LEMMA SentHasFields ==
    ASSUME TypeOK, NEW hd \in HandlerRecords, TimerOK(hd), CanStartReporting(hd),
           NEW content \in Contents(hd),
           NEW more, more = HasMoreChunks(hd, content)
    PROVE  SentFields(Sent(Built(hd, content), more), hd, content, more)
<1> DEFINE U == hd.unsent \ Encoded(hd, content)
           ev == content.eventMin
           ls == IF hd.chunked \/ CheckEventClean(hd) THEN hd.lastScheduled ELSE mLastEventNumber
           ps == Position(hd, content)
           cur == IF hd.chunked THEN hd.curGen ELSE mDirtyGeneration
           b == Built(hd, content)
           w == [b EXCEPT !.state = "AwaitingReportResponse", !.curGen = cur, !.chunked = more]
           o == [[w EXCEPT !.min = MinInterval, !.max = MaxInterval] EXCEPT !.runScheduled = FALSE,
                                                                  !.early = FALSE]
           r == IF hd.priming THEN w ELSE OnBecameReportable(o)
           f == [r EXCEPT !.prevGen = cur, !.forceDirty = FALSE]
<1>0. more \in BOOLEAN
  BY DEF HasMoreChunks
<1>1. /\ U \in SUBSET Attributes /\ ps \in 0 .. NumAttributes /\ cur \in 0 .. MaxInputs + 1
      /\ ls \in 0 .. MaxInputs
  <2>1. mDirtyGeneration \in 0 .. MaxInputs + 1 /\ mLastEventNumber \in 0 .. MaxInputs
    BY ConstantTypes DEF TypeOK
  <2>2. hd.curGen \in 0 .. MaxInputs + 1
    BY DEF HandlerRecords
  <2> QED
    BY <2>1, <2>2, Fields, PositionRange
<1>2. ev \in 1 .. MaxInputs + 1
  <2>1. mLastEventNumber \in 0 .. MaxInputs /\ hd.eventMin \in 1 .. MaxInputs + 1
    BY Fields DEF TypeOK
  <2>2. content.eventMin \in IF CheckEventClean(hd) THEN {hd.eventMin}
                                       ELSE hd.eventMin .. mLastEventNumber + 1
    BY DEF Contents
  <2> QED
    BY <2>1, <2>2, ConstantTypes
<1>3. b = [hd EXCEPT !.unsent = U, !.eventMin = ev, !.lastScheduled = ls, !.pos = ps]
  BY DEF Built, Position
<1> HIDE DEF U, ev, ls, ps, cur, b
<1>4. b \in HandlerRecords
  BY ONLY <1>1, <1>2, <1>3, hd \in HandlerRecords DEF HandlerRecords
<1>5. /\ b.state = hd.state /\ b.subscribe = hd.subscribe /\ b.path = hd.path
      /\ b.priming = hd.priming /\ b.chunked = hd.chunked /\ b.forceDirty = hd.forceDirty
      /\ b.dirtyGen = hd.dirtyGen /\ b.prevGen = hd.prevGen /\ b.curGen = hd.curGen
      /\ b.pos = ps /\ b.unsent = U /\ b.registered = hd.registered
      /\ b.runScheduled = hd.runScheduled /\ b.timer = hd.timer /\ b.min = hd.min /\ b.max = hd.max
      /\ b.early = hd.early
  BY ONLY <1>3, <1>4, hd \in HandlerRecords DEF HandlerRecords
<1>6. w = [b EXCEPT !.state = "AwaitingReportResponse", !.curGen = cur, !.chunked = more]
  OBVIOUS
<1>7. o = [[w EXCEPT !.min = MinInterval, !.max = MaxInterval] EXCEPT !.runScheduled = FALSE,
                                                                  !.early = FALSE]
  OBVIOUS
<1>8. f = [r EXCEPT !.prevGen = cur, !.forceDirty = FALSE]
  OBVIOUS
<1>9. r = IF hd.priming THEN w ELSE OnBecameReportable(o)
  OBVIOUS
<1>10. Sent(b, more) = IF more THEN w ELSE f
  BY <1>5 DEF Sent, OnSubscriptionReportSent, SetIntervalTimeStamps, cur
<1> HIDE DEF w, o, r, f
<1>11. w \in HandlerRecords
  BY ONLY <1>0, <1>1, <1>4, <1>6 DEF HandlerRecords
<1>12. /\ w.state = "AwaitingReportResponse" /\ w.subscribe = b.subscribe /\ w.path = b.path
       /\ w.priming = b.priming /\ w.chunked = more /\ w.forceDirty = b.forceDirty
       /\ w.dirtyGen = b.dirtyGen /\ w.prevGen = b.prevGen /\ w.curGen = cur
       /\ w.pos = b.pos /\ w.unsent = b.unsent /\ w.registered = b.registered
       /\ w.runScheduled = b.runScheduled /\ w.timer = b.timer /\ w.min = b.min /\ w.max = b.max
       /\ w.early = b.early
  BY ONLY <1>4, <1>6, <1>11 DEF HandlerRecords
<1>13. TimerOK(w)
  BY <1>5, <1>12 DEF TimerOK, CanStartReporting
<1>14. CASE more
  BY <1>5, <1>10, <1>11, <1>12, <1>13, <1>14 DEF SentFields, b, cur, U, ps
<1>15. CASE ~more
  <2>1. o \in HandlerRecords
    <3>1. MinInterval \in 0 .. MinInterval /\ MaxInterval \in -1 .. MaxInterval
      BY ConstantTypes
    <3> QED
      BY ONLY <1>7, <1>11, <3>1 DEF HandlerRecords
  <2>2. /\ Alike(o, w) /\ o.min = MinInterval /\ o.max = MaxInterval /\ ~o.runScheduled
        /\ o.registered = w.registered /\ o.timer = w.timer
    BY ONLY <1>7, <1>11, <2>1 DEF HandlerRecords, Alike
  <2>3. Rearmable(o)
    BY <1>13, <2>2, ConstantTypes DEF Rearmable, TimerOK, Alike
  <2>4. r \in HandlerRecords /\ TimerOK(r) /\ Alike(r, w)
    <3>1. CASE hd.priming
      BY <1>9, <1>11, <1>13, <3>1 DEF Alike
    <3>2. CASE ~hd.priming
      <4>1. r \in HandlerRecords /\ TimerOK(r) /\ Alike(r, o)
        BY <1>9, <2>1, <2>3, <3>2, BecameReportable
      <4> QED
        BY <4>1, <2>2 DEF Alike
    <3> QED
      BY <3>1, <3>2
  <2>5. f \in HandlerRecords
    BY ONLY <1>1, <1>8, <2>4 DEF HandlerRecords
  <2>6. /\ f.state = r.state /\ f.subscribe = r.subscribe /\ f.path = r.path
        /\ f.priming = r.priming /\ f.chunked = r.chunked
        /\ f.dirtyGen = r.dirtyGen /\ f.prevGen = cur /\ f.curGen = r.curGen
        /\ f.pos = r.pos /\ f.unsent = r.unsent /\ f.registered = r.registered
        /\ f.runScheduled = r.runScheduled /\ f.timer = r.timer /\ f.min = r.min /\ f.max = r.max
        /\ f.early = r.early
    BY ONLY <1>8, <2>4, <2>5 DEF HandlerRecords
  <2>7. TimerOK(f)
    BY <2>4, <2>6 DEF TimerOK, CanStartReporting
  <2>8. Sent(b, more) = f
    BY <1>10, <1>15
  <2> QED
    BY <1>5, <1>12, <1>15, <2>4, <2>5, <2>6, <2>7, <2>8 DEF SentFields, Alike, b, cur, U, ps
<1> QED
  BY <1>0, <1>14, <1>15

\* In the middle of a cluster nothing before the upcoming attribute is unsent.
LEMMA SentCoherent ==
    ASSUME TypeOK, NEW hd \in HandlerRecords, HandlerOK(hd, mGlobalDirtySet, mDirtyGeneration),
           CanStartReporting(hd), NEW content, NEW more, NEW s, SentFields(s, hd, content, more)
    PROVE  Coherent(s)
<1> DEFINE P == Postponed(hd, content)
           low == Min(P)
<1>s. s.path = hd.path /\ s.pos = Position(hd, content) /\ s.unsent = hd.unsent \ Encoded(hd, content)
  BY DEF SentFields
<1>0. hd.path \subseteq Attributes /\ Attributes \subseteq Nat \ {0} /\ Attributes = 1 .. NumAttributes
  BY Fields, ConstantTypes DEF Attributes
<1>n. hd.pos \in Nat /\ NumAttributes \in Nat
  BY Fields, ConstantTypes
<1> SUFFICES ASSUME NEW a \in Upcoming(s), NEW b \in s.unsent, b \in Cluster(a), ~(b >= a)
             PROVE  FALSE
  BY DEF Coherent
<1>1. a \in hd.path /\ a > s.pos /\ \A c \in hd.path : c > s.pos => c >= a
  BY <1>s DEF Upcoming
<1>2. P # {}
  <2> SUFFICES ASSUME P = {} PROVE FALSE
    OBVIOUS
  <2>1. s.pos = NumAttributes
    BY <1>s DEF Position
  <2>2. a \in 1 .. NumAttributes /\ a > NumAttributes
    BY <1>0, <1>1, <2>1
  <2> QED
    BY ONLY <2>2, <1>n
<1>3. /\ P \subseteq hd.path /\ low \in P
      /\ \A c \in P : Position(hd, content) < c
      /\ \A c \in hd.path : c > Position(hd, content) => c >= low
  BY <1>2, PositionRange
<1>4. \A c \in P : low <= c
  BY <1>0, <1>2, <1>3, MinNatural
<1>5. \A c \in P : c \in hd.path /\ (hd.chunked => c > hd.pos)
  BY DEF Postponed, Due
<1> HIDE DEF P, low
<1>6. a \in Nat /\ low \in Nat /\ s.pos \in Nat /\ a = low
  <2>1. a \in Nat /\ low \in Nat /\ s.pos \in Nat
    BY <1>0, <1>1, <1>3, <1>n, <1>s, PositionRange
  <2>2. a >= low /\ low > s.pos
    BY <1>1, <1>3, <1>s, <2>1
  <2>3. low >= a
    BY <1>1, <1>3, <2>2
  <2> QED
    BY <2>1, <2>2, <2>3
<1>7. /\ b \in hd.unsent /\ b \in Nat
      /\ b \in P \/ (hd.chunked /\ b <= hd.pos)
  BY <1>s, LeftOver DEF P
<1>8. hd.chunked /\ b <= hd.pos /\ b < a /\ low > hd.pos
  BY <1>3, <1>4, <1>5, <1>6, <1>7
<1>9. PICK u \in Upcoming(hd) : hd.pos < u /\ u <= a
  <2> DEFINE S == {c \in hd.path : c > hd.pos}
  <2>1. S \subseteq Nat /\ a \in S
    BY <1>0, <1>1, <1>6, <1>8
  <2> HIDE DEF S
  <2>2. Min(S) \in S /\ \A c \in S : Min(S) <= c
    BY <2>1, MinNatural
  <2>3. Min(S) \in Upcoming(hd)
    BY <1>0, <2>1, <2>2 DEF S, Upcoming
  <2> QED
    BY <2>1, <2>2, <2>3 DEF S
<1>10. u \in hd.path /\ u \in Nat
  BY <1>0 DEF Upcoming
<1>11. a \in Attributes /\ u \in b .. a
  BY <1>0, <1>1, <1>7, <1>8, <1>9, <1>10, <1>n
<1>12. u \in Cluster(a) /\ Cluster(u) = Cluster(a)
  <2>1. a \in Cluster(a) /\ \A x, y \in Cluster(a) : x .. y \subseteq Cluster(a)
    BY <1>11, ClusterOf
  <2>2. u \in Cluster(a)
    BY <1>11, <2>1
  <2> QED
    BY <1>11, <2>2, ClusterOf
<1>13. b >= u
  BY <1>7, <1>8, <1>12 DEF HandlerOK, Coherent
<1> QED
  BY <1>7, <1>8, <1>9, <1>10, <1>13, <1>n

\* A handler that has sent a message is in order: what it could not send is ahead
\* of it, and its generation is the one the report was begun in.
LEMMA SentOK ==
    ASSUME TypeOK, NEW hd \in HandlerRecords, HandlerOK(hd, mGlobalDirtySet, mDirtyGeneration),
           CanStartReporting(hd), NEW content \in Contents(hd),
           NEW more, more = HasMoreChunks(hd, content), hd.subscribe \/ more
    PROVE  /\ Sent(Built(hd, content), more) \in HandlerRecords
           /\ HandlerOK(Sent(Built(hd, content), more), mGlobalDirtySet, mDirtyGeneration)
           /\ Sent(Built(hd, content), more).subscribe = hd.subscribe
           /\ Sent(Built(hd, content), more).state = "AwaitingReportResponse"
<1> DEFINE s == Sent(Built(hd, content), more)
           cur == IF hd.chunked THEN hd.curGen ELSE mDirtyGeneration
<1>1. SentFields(s, hd, content, more)
  BY SentHasFields DEF HandlerOK
<1> HIDE DEF s
<1>2. /\ s \in HandlerRecords /\ s.state = "AwaitingReportResponse"
      /\ s.subscribe = hd.subscribe /\ s.path = hd.path /\ s.priming = hd.priming
      /\ s.chunked = more /\ s.curGen = cur /\ s.dirtyGen = hd.dirtyGen
      /\ s.pos = Position(hd, content) /\ s.unsent = hd.unsent \ Encoded(hd, content)
      /\ s.prevGen = IF more THEN hd.prevGen ELSE cur
      /\ more => s.forceDirty = hd.forceDirty
      /\ TimerOK(s)
  BY <1>1 DEF SentFields
<1>3. Coherent(s)
  BY <1>1, SentCoherent
<1>4. /\ more \in BOOLEAN
      /\ Postponed(hd, content) # {} => more
  BY DEF HasMoreChunks
<1>5. /\ hd.prevGen \in Nat /\ hd.curGen \in Nat /\ hd.dirtyGen \in Nat /\ mDirtyGeneration \in Nat
      /\ hd.chunked \in BOOLEAN /\ hd.priming \in BOOLEAN /\ hd.subscribe \in BOOLEAN
  BY Fields, ConstantTypes DEF TypeOK
<1>6. cur \in Nat /\ hd.prevGen <= cur /\ cur <= mDirtyGeneration
  BY <1>5 DEF HandlerOK, ReportOK, GenerationOK
<1>7. \A a \in s.unsent : \/ a \in Postponed(hd, content)
                          \/ /\ hd.chunked /\ Covered(mGlobalDirtySet, a, hd.curGen)
                             /\ hd.dirtyGen > hd.curGen
  BY <1>2, LeftOver
<1>8. ReportOK(s)
  <2>1. s.unsent \subseteq s.path
    BY <1>2 DEF HandlerOK, ReportOK
  <2>2. ~s.subscribe => s.priming /\ (s.chunked \/ CanStartReporting(s))
    BY <1>2 DEF HandlerOK, ReportOK
  <2>3. s.priming /\ (s.chunked \/ CanStartReporting(s)) => s.forceDirty
    BY <1>2 DEF HandlerOK, ReportOK, CanStartReporting
  <2>4. s.chunked => s.prevGen <= s.curGen
    BY <1>2, <1>6
  <2>5. ASSUME ~s.priming, s.unsent # {} PROVE s.dirtyGen > s.prevGen
    <3>1. CASE more
      BY <1>2, <2>5, <3>1 DEF HandlerOK, ReportOK
    <3>2. CASE ~more
      <4>1. PICK a \in s.unsent : TRUE
        BY <2>5
      <4>2. hd.chunked /\ hd.dirtyGen > hd.curGen
        BY <1>4, <1>7, <3>2, <4>1
      <4>3. s.prevGen = hd.curGen /\ s.dirtyGen = hd.dirtyGen
        BY <1>2, <3>2, <4>2
      <4> QED
        BY <4>2, <4>3
    <3> QED
      BY <1>4, <3>1, <3>2
  <2> QED
    BY <2>1, <2>2, <2>3, <2>4, <2>5 DEF ReportOK
<1>9. StaysDirty(s, mGlobalDirtySet)
  <2> SUFFICES ASSUME NEW a \in s.unsent
               PROVE  \/ s.chunked /\ a > s.pos /\ (s.priming \/ Covered(mGlobalDirtySet, a, s.prevGen))
                      \/ Covered(mGlobalDirtySet, a, Since(s)) /\ s.dirtyGen > Since(s)
    BY DEF StaysDirty
  <2>1. CASE a \in Postponed(hd, content)
    <3>1. more /\ a > s.pos
      <4>1. Postponed(hd, content) # {}
        BY <2>1
      <4>2. Position(hd, content) < a
        BY <2>1, <4>1, PositionRange
      <4> QED
        BY <1>2, <1>4, <4>1, <4>2
    <3>2. hd.priming \/ Covered(mGlobalDirtySet, a, hd.prevGen)
      BY <2>1 DEF Postponed, Due, Reportable, Covered
    <3> QED
      BY <1>2, <3>1, <3>2
  <2>2. CASE hd.chunked /\ Covered(mGlobalDirtySet, a, hd.curGen) /\ hd.dirtyGen > hd.curGen
    BY <1>2, <1>4, <2>2 DEF Since
  <2> QED
    BY <1>7, <2>1, <2>2
<1>10. GenerationOK(s, mDirtyGeneration)
  BY <1>2, <1>6 DEF HandlerOK, GenerationOK
<1>11. HandlerOK(s, mGlobalDirtySet, mDirtyGeneration)
  BY <1>2, <1>3, <1>8, <1>9, <1>10 DEF HandlerOK
<1> QED
  BY <1>2, <1>11 DEF s

-----------------------------------------------------------------------------
(* The dirty set.                                                          *)

\* The fields of an entry of the dirty set.
LEMMA EntryFields ==
    ASSUME NEW path, NEW g
    PROVE  Entry(path, g).path = path /\ Entry(path, g).gen = g
  BY DEF Entry

\* A nonempty path makes an entry.
LEMMA EntryType ==
    ASSUME NEW path, NEW g \in 1 .. MaxInputs + 1, path \subseteq Attributes, path # {}
    PROVE  Entry(path, g) \in DirtyEntries
  BY DEF Entry, DirtyEntries

\* What is in the dirty set has a nonempty path and a generation.
LEMMA DirtyFields ==
    ASSUME NEW e \in DirtyEntries
    PROVE  e.path \subseteq Attributes /\ e.path # {} /\ e.gen \in Nat /\ e.gen \in 1 .. MaxInputs + 1
  BY ConstantTypes DEF DirtyEntries

\* A path is merged into one that covers it, or one that it covers.
LEMMA Merged ==
    ASSUME NEW D, NEW g \in Nat, DirtyOK(D, g), g \in 1 .. MaxInputs + 1,
           NEW path, path \subseteq Attributes, path # {},
           NEW E \in MergeOverlappedAttributePath(D, path, g)
    PROVE  /\ DirtyOK(E, g) /\ Keeps(D, E)
           /\ \A a \in path : \A n \in Nat : n < g => Covered(E, a, n)
<1>1. PICK e \in D : E = (D \ {e}) \cup {Entry(path \cup e.path, g)}
  BY DEF MergeOverlappedAttributePath
<1> DEFINE x == Entry(path \cup e.path, g)
<1>2. /\ D \subseteq DirtyEntries /\ IsFiniteSet(D) /\ Cardinality(D) <= MaxDirtySet
      /\ \A d \in D : d.gen <= g
  BY DEF DirtyOK
<1>3. /\ e.path \subseteq Attributes
      /\ x \in DirtyEntries /\ x.path = path \cup e.path /\ x.gen = g
  BY <1>2, DirtyFields, EntryType, EntryFields
<1> HIDE DEF x
<1>4. E = (D \ {e}) \cup {x}
  BY <1>1 DEF x
<1>5. DirtyOK(E, g)
  <2>1. Cardinality(D) \in Nat
    BY <1>2, FS_CardinalityType
  <2>2. IsFiniteSet(D \ {e}) /\ Cardinality(D \ {e}) = Cardinality(D) - 1
    BY <1>2, FS_RemoveElement
  <2>3. IsFiniteSet(E) /\ Cardinality(E) <= Cardinality(D)
    BY <1>4, <2>1, <2>2, FS_AddElement
  <2>4. Cardinality(E) \in Nat
    BY <2>3, FS_CardinalityType
  <2>5. E \subseteq DirtyEntries /\ \A d \in E : d.gen <= g
    BY <1>2, <1>3, <1>4
  <2> QED
    BY <1>2, <2>1, <2>3, <2>4, <2>5, ConstantTypes DEF DirtyOK
<1>6. Keeps(D, E)
  <2> SUFFICES ASSUME NEW a, NEW n \in Nat, NEW d \in D, a \in d.path, d.gen > n
               PROVE  Covered(E, a, n)
    BY DEF Keeps, Covered
  <2>1. CASE d = e
    <3>1. d.gen \in Nat /\ d.gen <= g
      BY <1>2, DirtyFields
    <3>2. x \in E /\ a \in x.path /\ x.gen > n
      BY <1>3, <1>4, <2>1, <3>1
    <3> QED
      BY <3>2 DEF Covered
  <2>2. CASE d # e
    BY <1>4, <2>2 DEF Covered
  <2> QED
    BY <2>1, <2>2
<1>7. ASSUME NEW a \in path, NEW n \in Nat, n < g PROVE Covered(E, a, n)
  <2>1. x \in E /\ a \in x.path /\ x.gen > n
    BY <1>3, <1>4, <1>7
  <2> QED
    BY <2>1 DEF Covered
<1> QED
  BY <1>5, <1>6, <1>7

\* Where several paths lie under the same whole, there are fewer afterwards.
LEMMA MergedUnder ==
    ASSUME NEW D, NEW g \in Nat, DirtyOK(D, g), NEW wholes \in {ClusterPaths, EndpointPaths}
    PROVE  /\ DirtyOK(MergeDirtyPathsUnder(wholes, D), g)
           /\ Keeps(D, MergeDirtyPathsUnder(wholes, D))
           /\ MergeDirtyPathsUnder(wholes, D) # D =>
                Cardinality(MergeDirtyPathsUnder(wholes, D)) < Cardinality(D)
<1> DEFINE under(w) == {e \in D : e.path \subseteq w}
           crowded == {w \in wholes : Cardinality(under(w)) > 1}
           U == UNION {under(w) : w \in crowded}
           gens(w) == {e.gen : e \in under(w)}
           new(w) == Entry(w, Max(gens(w)))
           N == {new(w) : w \in crowded}
           E == (D \ U) \cup N
<1>1. MergeDirtyPathsUnder(wholes, D) = E
  BY DEF MergeDirtyPathsUnder
<1>2. /\ D \subseteq DirtyEntries /\ IsFiniteSet(D) /\ Cardinality(D) <= MaxDirtySet
      /\ \A d \in D : d.gen <= g
  BY DEF DirtyOK
<1>3. /\ \A w \in wholes : w \subseteq Attributes /\ w # {}
      /\ \A v, w \in wholes : v = w \/ v \cap w = {}
  BY ReportingAssumption
<1>4. ASSUME NEW w \in crowded, NEW x PROVE under(w) \ {x} # {}
  <2> SUFFICES ASSUME under(w) \subseteq {x} PROVE FALSE
    OBVIOUS
  <2> DEFINE S == under(w)
  <2>1. Cardinality(S) > 1
    OBVIOUS
  <2>2. S \in SUBSET {x}
    OBVIOUS
  <2> HIDE DEF S
  <2>3. IsFiniteSet(S) /\ Cardinality(S) <= Cardinality({x}) /\ Cardinality({x}) = 1
    BY <2>2, FS_Subset, FS_Singleton
  <2>4. Cardinality(S) \in Nat
    BY <2>3, FS_CardinalityType
  <2> QED
    BY <2>1, <2>3, <2>4
<1>5. ASSUME NEW w \in crowded
      PROVE  /\ new(w) \in DirtyEntries /\ new(w).path = w /\ new(w).gen <= g
             /\ \A e \in under(w) : e.gen <= new(w).gen
  <2> DEFINE S == gens(w)
  <2>1. S \subseteq 0 .. MaxInputs + 1 /\ S \subseteq 1 .. MaxInputs + 1
    BY <1>2, DirtyFields, ConstantTypes
  <2>2. S # {}
    BY <1>4
  <2>3. \A y \in S : y <= g
    BY <1>2
  <2>4. new(w) = Entry(w, Max(S))
    OBVIOUS
  <2>5. \A e \in under(w) : e.gen \in S
    OBVIOUS
  <2> HIDE DEF S
  <2>6. MaxInputs + 1 \in Nat
    BY ConstantTypes
  <2>7. Max(S) \in S /\ \A y \in S : y <= Max(S)
    BY <2>1, <2>2, <2>6, MaxNatural
  <2>8. w \subseteq Attributes /\ w # {} /\ Max(S) \in 1 .. MaxInputs + 1
    BY <1>3, <2>1, <2>7
  <2>9. new(w) \in DirtyEntries /\ new(w).path = w /\ new(w).gen = Max(S)
    BY <2>4, <2>8, EntryType, EntryFields
  <2> HIDE DEF under, new
  <2> QED
    BY <2>3, <2>5, <2>7, <2>9
<1>6. Keeps(D, E)
  <2> SUFFICES ASSUME NEW a, NEW n \in Nat, NEW d \in D, a \in d.path, d.gen > n
               PROVE  Covered(E, a, n)
    BY DEF Keeps, Covered
  <2>1. CASE d \in U
    <3>1. PICK w \in crowded : d \in under(w)
      BY <2>1
    <3>2. new(w).path = w /\ d.gen <= new(w).gen /\ new(w) \in DirtyEntries
      BY <1>5, <3>1
    <3>3. d.gen \in Nat /\ new(w).gen \in Nat /\ a \in w /\ new(w) \in E
      BY <1>2, <3>1, <3>2, DirtyFields
    <3> HIDE DEF E, new
    <3>4. new(w).gen > n /\ a \in new(w).path
      BY <3>2, <3>3
    <3> QED
      BY <3>3, <3>4 DEF Covered
  <2>2. CASE d \notin U
    BY <2>2 DEF Covered
  <2> QED
    BY <2>1, <2>2
<1>7. E \subseteq DirtyEntries /\ \A e \in E : e.gen <= g
  <2> HIDE DEF new
  <2> QED
    BY <1>2, <1>5
<1>8. CASE crowded = {}
  <2>1. E = D
    BY <1>8
  <2> QED
    BY <1>1, <1>6, <2>1
<1>9. CASE crowded # {}
  <2>1. PICK v \in crowded : TRUE
    BY <1>9
  <2>2. PICK x \in under(v) : TRUE
    BY <1>4
  <2> DEFINE rep(w) == CHOOSE d \in under(w) : d # x
             f == [e \in E |-> IF e \in D \ U THEN e ELSE rep(e.path)]
  <2>3. \A w \in crowded : rep(w) \in under(w) /\ rep(w) # x
    BY <1>4
  <2>4. ASSUME NEW e \in N
        PROVE  e.path \in crowded /\ e = new(e.path)
    <3>1. PICK w \in crowded : e = new(w)
      OBVIOUS
    <3> HIDE DEF new
    <3> QED
      BY <1>5, <3>1
  <2> HIDE DEF rep, new, N
  <2>5. \A e \in E : e \notin D \ U => e.path \in crowded /\ e = new(e.path)
    BY <2>4
  <2>6. x \in D /\ x \in U /\ \A w \in crowded : under(w) \subseteq U /\ under(w) \subseteq D
    BY <2>1, <2>2
  <2>7. ASSUME NEW w1 \in crowded, NEW w2 \in crowded, NEW d \in under(w1), d \in under(w2)
        PROVE  w1 = w2
    BY <1>2, <1>3, <2>7, DirtyFields
  <2>8. crowded \subseteq wholes
    OBVIOUS
  <2> HIDE DEF E, U, crowded, under
  <2>9. \A e \in E : f[e] = IF e \in D \ U THEN e ELSE rep(e.path)
    OBVIOUS
  <2>10. f \in [E -> D \ {x}]
    BY <2>3, <2>5, <2>6
  <2> HIDE DEF f
  <2>11. ASSUME NEW c \in E, NEW d \in E, f[c] = f[d] PROVE c = d
    <3>1. CASE c \in D \ U /\ d \in D \ U
      BY <2>9, <2>11, <3>1
    <3>2. CASE c \in D \ U /\ d \notin D \ U
      BY <2>3, <2>5, <2>6, <2>9, <2>11, <3>2
    <3>3. CASE c \notin D \ U /\ d \in D \ U
      BY <2>3, <2>5, <2>6, <2>9, <2>11, <3>3
    <3>4. CASE c \notin D \ U /\ d \notin D \ U
      <4>1. c.path \in crowded /\ d.path \in crowded /\ rep(c.path) = rep(d.path)
        BY <2>5, <2>9, <2>11, <3>4
      <4>2. c.path = d.path
        BY <2>3, <2>7, <4>1
      <4> QED
        BY <2>5, <3>4, <4>2
    <3> QED
      BY <3>1, <3>2, <3>3, <3>4
  <2>12. f \in Injection(E, D \ {x})
    BY <2>10, <2>11 DEF Injection, IsInjective
  <2>13. IsFiniteSet(D \ {x}) /\ Cardinality(D \ {x}) = Cardinality(D) - 1
    BY <1>2, <2>6, FS_RemoveElement
  <2>14. IsFiniteSet(E) /\ Cardinality(E) <= Cardinality(D) - 1
    BY <2>12, <2>13, FS_Injection
  <2>15. Cardinality(E) \in Nat /\ Cardinality(D) \in Nat
    BY <1>2, <2>14, FS_CardinalityType
  <2>16. Cardinality(E) < Cardinality(D) /\ Cardinality(E) <= MaxDirtySet
    BY <1>2, <2>14, <2>15, ConstantTypes
  <2> QED
    BY <1>1, <1>6, <1>7, <2>14, <2>16 DEF DirtyOK
<1> QED
  BY <1>8, <1>9

\* A full pool is merged by clusters, by endpoints or into one path.
LEMMA RoomMade ==
    ASSUME NEW D, NEW g \in Nat, DirtyOK(D, g), g \in 1 .. MaxInputs + 1
    PROVE  /\ DirtyOK(MakeRoom(D, g), g) /\ Keeps(D, MakeRoom(D, g))
           /\ \/ Cardinality(MakeRoom(D, g)) < MaxDirtySet
              \/ MakeRoom(D, g) = {Entry(Attributes, g)}
<1> DEFINE C == MergeDirtyPathsUnder(ClusterPaths, D)
           P == MergeDirtyPathsUnder(EndpointPaths, D)
           L == {Entry(Attributes, g)}
           R == MakeRoom(D, g)
<1>0. /\ D \subseteq DirtyEntries /\ IsFiniteSet(D) /\ Cardinality(D) <= MaxDirtySet
      /\ \A d \in D : d.gen <= g
      /\ Cardinality(D) \in Nat
  BY FS_CardinalityType DEF DirtyOK
<1>1. /\ DirtyOK(C, g) /\ Keeps(D, C)
      /\ C # D => Cardinality(C) < Cardinality(D)
  BY MergedUnder
<1>2. /\ DirtyOK(P, g) /\ Keeps(D, P)
      /\ P # D => Cardinality(P) < Cardinality(D)
  BY MergedUnder
<1>3. DirtyOK(L, g) /\ Keeps(D, L)
  <2>1. Entry(Attributes, g) \in DirtyEntries
    <3>1. Attributes # {}
      BY ConstantTypes DEF Attributes
    <3> QED
      BY <3>1, EntryType
  <2>2. DirtyOK(L, g)
    BY <2>1, EntryFields, FS_Singleton, ConstantTypes DEF DirtyOK
  <2>3. ASSUME NEW a, NEW n \in Nat, NEW d \in D, a \in d.path, d.gen > n
        PROVE  Covered(L, a, n)
    <3>1. d.gen \in Nat /\ d.gen <= g /\ a \in Attributes
      BY <1>0, <2>3, DirtyFields
    <3> QED
      BY <2>3, <3>1, EntryFields DEF Covered
  <2> QED
    BY <2>2, <2>3 DEF Keeps, Covered
<1>4. Cardinality(C) \in Nat /\ Cardinality(P) \in Nat
  BY <1>1, <1>2, FS_CardinalityType DEF DirtyOK
<1>5. \/ R = D /\ Cardinality(D) < MaxDirtySet
      \/ R = C /\ C # D
      \/ R = P /\ P # D
      \/ R = L
  <2> HIDE DEF C, P, L
  <2>1. R = CASE Cardinality(D) < MaxDirtySet -> D
              [] Cardinality(D) >= MaxDirtySet /\ C # D -> C
              [] OTHER -> IF P # D THEN P ELSE L
    BY DEF MakeRoom, C, P, L
  <2> HIDE DEF R
  <2>2. CASE Cardinality(D) < MaxDirtySet
    <3>1. ~(Cardinality(D) >= MaxDirtySet /\ C # D)
      BY <1>0, <2>2, ConstantTypes
    <3> QED
      BY <2>1, <2>2, <3>1
  <2>3. CASE ~(Cardinality(D) < MaxDirtySet) /\ Cardinality(D) >= MaxDirtySet /\ C # D
    BY <2>1, <2>3
  <2>4. CASE ~(Cardinality(D) < MaxDirtySet) /\ ~(Cardinality(D) >= MaxDirtySet /\ C # D)
    BY <2>1, <2>4
  <2> QED
    BY <2>2, <2>3, <2>4
<1>6. Keeps(D, D)
  BY DEF Keeps
<1> HIDE DEF C, P, L, R
<1>7. \/ R = D /\ Cardinality(R) < MaxDirtySet
      \/ R = C /\ Cardinality(R) < MaxDirtySet
      \/ R = P /\ Cardinality(R) < MaxDirtySet
      \/ R = L
  BY <1>0, <1>1, <1>2, <1>4, <1>5, ConstantTypes
<1>8. DirtyOK(R, g) /\ Keeps(D, R) /\ (Cardinality(R) < MaxDirtySet \/ R = L)
  BY <1>1, <1>2, <1>3, <1>6, <1>7
<1> QED
  BY <1>8 DEF R, L

\* The path that is inserted is covered afterwards, and nothing else is lost.
LEMMA Inserted ==
    ASSUME NEW g \in Nat, DirtyOK(mGlobalDirtySet, g), g + 1 \in 1 .. MaxInputs + 1,
           NEW path, path \subseteq Attributes, path # {},
           NEW E \in InsertPathIntoDirtySet(path, g + 1)
    PROVE  /\ DirtyOK(E, g + 1) /\ Keeps(mGlobalDirtySet, E)
           /\ \A a \in path : \A n \in Nat : n <= g => Covered(E, a, n)
<1> DEFINE G == g + 1
           R == MakeRoom(mGlobalDirtySet, G)
           M == MergeOverlappedAttributePath(mGlobalDirtySet, path, G)
           W == MergeOverlappedAttributePath(R, path, G)
           x == Entry(path, G)
<1>0. G \in Nat /\ G \in 1 .. MaxInputs + 1 /\ (\A n \in Nat : n <= g => n < G)
  OBVIOUS
<1>1. DirtyOK(mGlobalDirtySet, G)
  <2>1. \A e \in mGlobalDirtySet : e.gen \in Nat /\ e.gen <= g
    BY DirtyFields DEF DirtyOK
  <2>2. \A e \in mGlobalDirtySet : e.gen <= G
    BY <2>1
  <2> QED
    BY <2>2 DEF DirtyOK
<1>2. E \in CASE M # {} -> M
              [] M = {} /\ W # {} -> W
              [] OTHER -> {R \cup {x}}
  BY DEF InsertPathIntoDirtySet
<1>3. \/ E \in M
      \/ E \in W
      \/ M = {} /\ W = {} /\ E = R \cup {x}
  <2> HIDE DEF M, W, R, x
  <2>1. CASE M # {}
    BY <1>2, <2>1
  <2>2. CASE M = {} /\ W # {}
    BY <1>2, <2>2
  <2>3. CASE M = {} /\ W = {}
    BY <1>2, <2>3
  <2> QED
    BY <2>1, <2>2, <2>3
<1> HIDE DEF G
<1>4. /\ DirtyOK(R, G) /\ Keeps(mGlobalDirtySet, R)
      /\ Cardinality(R) < MaxDirtySet \/ R = {Entry(Attributes, G)}
  BY <1>0, <1>1, RoomMade
<1> HIDE DEF R
<1>5. CASE E \in M
  BY <1>0, <1>1, <1>5, Merged DEF G
<1>6. CASE E \in W
  <2>1. /\ DirtyOK(E, G) /\ Keeps(R, E)
        /\ \A a \in path : \A n \in Nat : n < G => Covered(E, a, n)
    BY <1>0, <1>4, <1>6, Merged
  <2> QED
    BY <1>0, <1>4, <2>1 DEF Keeps, G
<1>7. CASE W = {} /\ E = R \cup {x}
  <2>1. R # {Entry(Attributes, G)}
    <3> SUFFICES ASSUME R = {Entry(Attributes, G)} PROVE FALSE
      OBVIOUS
    <3>1. Entry(Attributes, G) \in R /\ Entry(Attributes, G).path = Attributes
      BY EntryFields
    <3>2. W # {}
      BY <3>1 DEF MergeOverlappedAttributePath
    <3> QED
      BY <1>7, <3>2
  <2>2. /\ R \subseteq DirtyEntries /\ IsFiniteSet(R) /\ Cardinality(R) < MaxDirtySet
        /\ \A e \in R : e.gen <= G
        /\ Cardinality(R) \in Nat
    BY <1>4, <2>1, FS_CardinalityType DEF DirtyOK
  <2>3. x \in DirtyEntries /\ x.path = path /\ x.gen = G
    BY <1>0, EntryType, EntryFields
  <2> HIDE DEF x
  <2>4. IsFiniteSet(E) /\ Cardinality(E) <= Cardinality(R) + 1
    <3>1. /\ IsFiniteSet(R \cup {x})
          /\ Cardinality(R \cup {x}) = IF x \in R THEN Cardinality(R) ELSE Cardinality(R) + 1
      BY <2>2, FS_AddElement
    <3> QED
      BY <1>7, <2>2, <3>1
  <2>5. Cardinality(E) \in Nat
    BY <2>4, FS_CardinalityType
  <2>6. Cardinality(E) <= MaxDirtySet
    BY <2>2, <2>4, <2>5, ConstantTypes
  <2>7. E \subseteq DirtyEntries /\ \A e \in E : e.gen <= G
    BY <1>0, <1>7, <2>2, <2>3
  <2>8. Keeps(R, E)
    BY <1>7 DEF Keeps, Covered
  <2>9. ASSUME NEW a \in path, NEW n \in Nat, n <= g PROVE Covered(E, a, n)
    <3>1. x \in E /\ a \in x.path /\ x.gen > n
      BY <1>0, <1>7, <2>3, <2>9 DEF G
    <3> QED
      BY <3>1 DEF Covered
  <2>10. Keeps(mGlobalDirtySet, E)
    BY <1>4, <2>8 DEF Keeps
  <2> QED
    BY <2>4, <2>6, <2>7, <2>9, <2>10 DEF DirtyOK, G
<1> QED
  BY <1>3, <1>5, <1>6, <1>7

-----------------------------------------------------------------------------
(* The pool of handlers.                                                   *)

Awaiting == {h \in Allocated : IsAwaitingReportResponse(handler[h])}

\* The pool is finite.
LEMMA HandlersFinite ==
    /\ Handlers \subseteq Nat /\ IsFiniteSet(Handlers) /\ Cardinality(Handlers) = NumHandlers
<1>1. IsFiniteSet(1 .. NumHandlers) /\ Cardinality(1 .. NumHandlers) = NumHandlers
  BY FS_Interval, ConstantTypes
<1> QED
  BY <1>1, ConstantTypes DEF Handlers

\* Every part of the pool has a size.
LEMMA PoolFinite ==
    ASSUME NEW S, S \subseteq Handlers
    PROVE  IsFiniteSet(S) /\ Cardinality(S) \in 0 .. NumHandlers
<1>1. IsFiniteSet(S) /\ Cardinality(S) <= NumHandlers
  BY HandlersFinite, FS_Subset
<1> QED
  BY <1>1, FS_CardinalityType, ConstantTypes

\* The parts of the pool the counts are about.
LEMMA AllocatedFinite ==
    /\ IsFiniteSet(Allocated) /\ Cardinality(Allocated) \in 0 .. NumHandlers
    /\ IsFiniteSet(Subscribers) /\ Cardinality(Subscribers) \in 0 .. NumHandlers
    /\ IsFiniteSet(Readers) /\ Cardinality(Readers) \in 0 .. NumHandlers
    /\ IsFiniteSet(Awaiting) /\ Cardinality(Awaiting) \in 0 .. NumHandlers
<1>1. Allocated \subseteq Handlers /\ Subscribers \subseteq Handlers /\ Readers \subseteq Handlers
      /\ Awaiting \subseteq Handlers
  BY DEF Allocated, Subscribers, Readers, Awaiting
<1> QED
  BY <1>1, PoolFinite

\* Engine::Run always finds the handler it is to visit.
LEMMA VisitedIsAllocated ==
    ASSUME TypeOK, PoolOK, toVisit > 0
    PROVE  Visited \in Allocated /\ Visited \in Handlers /\ handler[Visited] \in HandlerRecords
<1> DEFINE n == Cardinality(Allocated)
           i == mCurReadHandlerIdx % n
<1>1. n \in Nat \ {0}
  BY AllocatedFinite, ConstantTypes DEF PoolOK, TypeOK, NotRunning
<1>2. i \in 0 .. (n - 1)
  <2>1. mCurReadHandlerIdx \in Int
    BY ConstantTypes DEF TypeOK
  <2> HIDE DEF n
  <2> QED
    BY <1>1, <2>1, ModuloRange
<1>3. Allocated \subseteq Nat /\ IsFiniteSet(Allocated)
  BY HandlersFinite, AllocatedFinite DEF Allocated
<1> HIDE DEF n, i
<1>4. \E h \in Allocated : Cardinality({k \in Allocated : k < h}) = i
  BY <1>2, <1>3, PositionIsTaken DEF n
<1>5. Visited \in Allocated
  BY <1>4 DEF Visited, ActiveHandlerAt, i, n
<1> QED
  BY <1>5, AllocatedHandler

\* All handlers are as they were, but for what a response, a close or a request
\* would change of them.
Settled ==
    /\ \A h \in Allocated : /\ handler'[h] \in HandlerRecords
                            /\ handler'[h].subscribe = handler[h].subscribe
                            /\ handler'[h].state = handler[h].state
    /\ \A h \in Handlers \ Allocated : handler'[h] = Free

\* A settled step changes none of the sets of handlers.
LEMMA SettledPool ==
    ASSUME TypeOK, Settled
    PROVE  Allocated' = Allocated /\ Subscribers' = Subscribers /\ Readers' = Readers
           /\ Awaiting' = Awaiting
<1>1. \A h \in Allocated : handler'[h].state # "Free"
  BY Fields DEF Settled
<1>2. Allocated' = Allocated
  BY <1>1 DEF Allocated, Settled, Free
<1> QED
  BY <1>2 DEF Settled, Subscribers, Readers, Awaiting, IsAwaitingReportResponse

\* The record of one handler that stays is replaced.
LEMMA ReplacedPool ==
    ASSUME TypeOK, NEW k \in Allocated, NEW r \in HandlerRecords,
           r.subscribe = handler[k].subscribe, handler' = [handler EXCEPT ![k] = r]
    PROVE  /\ handler' \in [Handlers -> HandlerRecords \cup {Free}]
           /\ Allocated' = Allocated /\ Subscribers' = Subscribers /\ Readers' = Readers
           /\ Awaiting' = IF IsAwaitingReportResponse(r) THEN Awaiting \cup {k} ELSE Awaiting \ {k}
           /\ handler'[k] = r /\ \A h \in Allocated \ {k} : handler'[h] = handler[h]
<1>1. k \in Handlers /\ Allocated \subseteq Handlers
  BY DEF Allocated
<1>2. handler'[k] = r /\ \A h \in Handlers \ {k} : handler'[h] = handler[h]
  BY <1>1 DEF TypeOK
<1>3. handler' \in [Handlers -> HandlerRecords \cup {Free}]
  BY <1>1 DEF TypeOK
<1>4. r.state # "Free"
  BY Fields
<1>5. Allocated' = Allocated
  BY <1>1, <1>2, <1>4 DEF Allocated
<1> QED
  BY <1>1, <1>2, <1>3, <1>5 DEF Subscribers, Readers, Awaiting, IsAwaitingReportResponse

\* A handler is closed.
LEMMA ClosedPool ==
    ASSUME TypeOK, NEW k \in Allocated, handler' = [handler EXCEPT ![k] = Free]
    PROVE  /\ handler' \in [Handlers -> HandlerRecords \cup {Free}]
           /\ Allocated' = Allocated \ {k} /\ Subscribers' = Subscribers \ {k}
           /\ Readers' = Readers \ {k} /\ Awaiting' = Awaiting \ {k}
           /\ \A h \in Allocated \ {k} : handler'[h] = handler[h]
<1>1. k \in Handlers /\ Allocated \subseteq Handlers
  BY DEF Allocated
<1>2. handler'[k] = Free /\ \A h \in Handlers \ {k} : handler'[h] = handler[h]
  BY <1>1 DEF TypeOK
<1>3. handler' \in [Handlers -> HandlerRecords \cup {Free}]
  BY <1>1 DEF TypeOK
<1>4. Free.state = "Free"
  BY DEF Free
<1>5. Allocated' = Allocated \ {k}
  BY <1>1, <1>2, <1>4 DEF Allocated
<1> QED
  BY <1>1, <1>2, <1>3, <1>5 DEF Subscribers, Readers, Awaiting, IsAwaitingReportResponse

\* Closing a handler, in a run or outside of one, keeps the limits.
LEMMA ClosedPoolOK ==
    ASSUME TypeOK, PoolOK, NEW k \in Allocated, handler' = [handler EXCEPT ![k] = Free],
           toVisit' \in {NotRunning, toVisit - 1}
    PROVE  PoolOK'
<1>1. Allocated' = Allocated \ {k} /\ Subscribers' = Subscribers \ {k} /\ Readers' = Readers \ {k}
  BY ClosedPool
<1> DEFINE A == Cardinality(Allocated)
           S == Cardinality(Subscribers)
           R == Cardinality(Readers)
<1>2. A \in Nat /\ S \in Nat /\ R \in Nat /\ toVisit \in Int
  BY AllocatedFinite, ConstantTypes DEF TypeOK, NotRunning
<1>3. Cardinality(Allocated \ {k}) = A - 1 /\ Cardinality(Allocated \ {k}) \in Nat
  <2>1. IsFiniteSet(Allocated \ {k}) /\ Cardinality(Allocated \ {k}) = A - 1
    BY AllocatedFinite, FS_RemoveElement
  <2> QED
    BY <2>1, FS_CardinalityType
<1>4. /\ Cardinality(Subscribers \ {k}) = IF k \in Subscribers THEN S - 1 ELSE S
      /\ Cardinality(Readers \ {k}) = IF k \in Readers THEN R - 1 ELSE R
  BY AllocatedFinite, FS_RemoveElement
<1>5. S <= MaxSubscriptions /\ R <= MaxReads /\ toVisit <= A
  BY DEF PoolOK
<1> HIDE DEF A, S, R
<1>6. /\ Cardinality(Subscribers \ {k}) <= MaxSubscriptions
      /\ Cardinality(Readers \ {k}) <= MaxReads
  BY <1>2, <1>4, <1>5, ConstantTypes
<1>7. toVisit' <= Cardinality(Allocated \ {k})
  BY <1>2, <1>3, <1>5 DEF NotRunning
<1> QED
  BY <1>1, <1>6, <1>7 DEF PoolOK

\* A step that opens and closes nothing keeps the limits.
LEMMA SettledPoolOK ==
    ASSUME TypeOK, PoolOK, Allocated' = Allocated, Subscribers' = Subscribers, Readers' = Readers,
           toVisit' \in {NotRunning, toVisit, toVisit - 1, Cardinality(Allocated)}
    PROVE  PoolOK'
<1>1. Cardinality(Allocated) \in Nat /\ toVisit \in Int
  BY AllocatedFinite, ConstantTypes DEF TypeOK, NotRunning
<1> QED
  BY <1>1 DEF PoolOK, NotRunning

\* A request that is not at the limit of its kind finds a free handler.
LEMMA FreeSlot ==
    ASSUME TypeOK, PoolOK, NEW s \in BOOLEAN,
           Cardinality({h \in Allocated : handler[h].subscribe = s})
             < IF s THEN MaxSubscriptions ELSE MaxReads
    PROVE  Min(Handlers \ Allocated) \in Handlers \ Allocated
<1> DEFINE S == Cardinality(Subscribers)
           R == Cardinality(Readers)
<1>1. \A h \in Allocated : handler[h].subscribe \in BOOLEAN
  BY AllocatedHandler, Fields
<1>2. {h \in Allocated : handler[h].subscribe = s} = IF s THEN Subscribers ELSE Readers
  BY <1>1 DEF Subscribers, Readers
<1>3. S \in Nat /\ R \in Nat
  BY AllocatedFinite, ConstantTypes
<1>4. S + R < NumHandlers
  <2>1. S <= MaxSubscriptions /\ R <= MaxReads
    BY DEF PoolOK
  <2>2. IF s THEN S < MaxSubscriptions ELSE R < MaxReads
    BY <1>2
  <2> HIDE DEF S, R
  <2> QED
    BY <1>3, <2>1, <2>2, ConstantTypes DEF NumHandlers
<1>5. Allocated = Subscribers \cup Readers
  BY DEF Subscribers, Readers
<1>6. Cardinality(Allocated) <= S + R
  <2> DEFINE C == Cardinality(Subscribers \cap Readers)
  <2>1. Cardinality(Subscribers \cup Readers) = S + R - C
    BY AllocatedFinite, FS_Union
  <2>2. C \in Nat
    <3>1. Subscribers \cap Readers \subseteq Handlers
      BY DEF Subscribers, Allocated
    <3> QED
      BY <3>1, PoolFinite, ConstantTypes
  <2> HIDE DEF S, R, C
  <2> QED
    BY <1>3, <1>5, <2>1, <2>2
<1>7. Allocated # Handlers
  <2> SUFFICES ASSUME Allocated = Handlers PROVE FALSE
    OBVIOUS
  <2>1. NumHandlers <= S + R
    BY <1>6, HandlersFinite
  <2> HIDE DEF S, R
  <2> QED
    BY <1>3, <1>4, <2>1, ConstantTypes
<1>8. Handlers \ Allocated # {} /\ Handlers \ Allocated \subseteq Nat
  BY <1>7, HandlersFinite DEF Allocated
<1> QED
  BY <1>8, MinNatural

-----------------------------------------------------------------------------
(* The steps.                                                              *)

\* What a handler relies on survives a dirty set that covers more, and time.
LEMMA HandlerKept ==
    ASSUME NEW hd \in HandlerRecords, NEW D, NEW E, Keeps(D, E), NEW f \in Nat, NEW g \in Nat, f <= g,
           HandlerOK(hd, D, f)
    PROVE  HandlerOK(hd, E, g)
<1>1. hd.prevGen \in Nat /\ hd.curGen \in Nat /\ hd.dirtyGen \in Nat
  BY Fields
<1>2. Since(hd) \in Nat
  BY <1>1 DEF Since
<1>3. \A a : /\ Covered(D, a, hd.prevGen) => Covered(E, a, hd.prevGen)
             /\ Covered(D, a, Since(hd)) => Covered(E, a, Since(hd))
  BY <1>1, <1>2 DEF Keeps
<1>4. StaysDirty(hd, E)
  BY <1>3 DEF HandlerOK, StaysDirty
<1>5. GenerationOK(hd, g)
  BY <1>1 DEF HandlerOK, GenerationOK
<1> QED
  BY <1>4, <1>5 DEF HandlerOK

\* No more inputs are counted than the bound allows.
LEMMA InputsBound ==
    ASSUME TypeOK, Inputs < MaxInputs
    PROVE  /\ requests + 1 \in 0 .. MaxInputs
           /\ mLastEventNumber + 1 \in 0 .. MaxInputs
           /\ mDirtyGeneration + 1 \in 1 .. MaxInputs + 1
           /\ mDirtyGeneration \in Nat
  BY ConstantTypes DEF TypeOK, Inputs

\* A request takes a free handler.
LEMMA StepOnReadInitialRequest ==
    ASSUME IndInv, NEW request \in Requests, OnReadInitialRequest(request)
    PROVE  IndInv'
<1> DEFINE k == Min(Handlers \ Allocated)
           n == NewHandler(request)
<1>0. TypeOK /\ PoolOK /\ HandlersOK /\ InFlightIsAwaiting
  BY DEF IndInv
<1>1. request.subscribe \in BOOLEAN
  BY ReportingAssumption
<1>2. k \in Handlers \ Allocated
  BY <1>0, <1>1, FreeSlot DEF OnReadInitialRequest
<1>g. mDirtyGeneration \in Nat /\ requests + 1 \in 0 .. MaxInputs
  BY <1>0, InputsBound DEF OnReadInitialRequest
<1>3. /\ n \in HandlerRecords /\ HandlerOK(n, mGlobalDirtySet, mDirtyGeneration)
      /\ n.subscribe = request.subscribe /\ ~IsAwaitingReportResponse(n)
  BY <1>g, NewHandlerOK
<1>4. /\ handler' = [handler EXCEPT ![k] = n] /\ mRunScheduled' = TRUE /\ requests' = requests + 1
      /\ UNCHANGED <<mNumReportsInFlight, engineVars, mLastEventNumber>>
      /\ toVisit = NotRunning
      /\ Cardinality({h \in Allocated : handler[h].subscribe = request.subscribe})
           < IF request.subscribe THEN MaxSubscriptions ELSE MaxReads
  BY DEF OnReadInitialRequest
<1> HIDE DEF k, n
<1>5. n.state # "Free"
  BY <1>3, Fields
<1>6. /\ handler' \in [Handlers -> HandlerRecords \cup {Free}]
      /\ handler'[k] = n /\ \A h \in Handlers \ {k} : handler'[h] = handler[h]
  BY <1>0, <1>2, <1>3, <1>4 DEF TypeOK
<1>7. Allocated' = Allocated \cup {k}
  BY <1>2, <1>5, <1>6 DEF Allocated
<1>8. k \notin Allocated /\ Allocated \subseteq Handlers
  BY <1>2 DEF Allocated
<1>9. TypeOK'
  BY <1>0, <1>4, <1>6, <1>g DEF TypeOK, engineVars
<1>10. DirtyOK(mGlobalDirtySet, mDirtyGeneration)'
  BY <1>4 DEF IndInv, engineVars, DirtyOK
<1>11. PoolOK'
  <2> DEFINE S == Cardinality(Subscribers)
             R == Cardinality(Readers)
  <2>0. S \in Nat /\ R \in Nat /\ S <= MaxSubscriptions /\ R <= MaxReads
    BY <1>0, AllocatedFinite, ConstantTypes DEF PoolOK
  <2>1. \A h \in Allocated : handler[h].subscribe \in BOOLEAN
    BY <1>0, AllocatedHandler, Fields
  <2>2. Cardinality(Allocated') \in Nat
    <3>1. Allocated' \subseteq Handlers
      BY DEF Allocated
    <3> QED
      BY <3>1, PoolFinite, ConstantTypes
  <2>3. toVisit' <= Cardinality(Allocated')
    BY <1>4, <2>2 DEF engineVars, NotRunning
  <2>4. CASE request.subscribe
    <3>1. Subscribers' = Subscribers \cup {k} /\ Readers' = Readers
      BY <1>3, <1>6, <1>7, <1>8, <2>4 DEF Subscribers, Readers
    <3>2. S < MaxSubscriptions
      <4>1. {h \in Allocated : handler[h].subscribe = request.subscribe} = Subscribers
        BY <2>1, <2>4 DEF Subscribers
      <4> QED
        BY <1>4, <2>4, <4>1
    <3>3. Cardinality(Subscribers \cup {k}) = IF k \in Subscribers THEN S ELSE S + 1
      BY AllocatedFinite, FS_AddElement
    <3> HIDE DEF S, R
    <3>4. Cardinality(Subscribers \cup {k}) <= MaxSubscriptions
      BY <2>0, <3>2, <3>3, ConstantTypes
    <3> QED
      BY <2>0, <2>3, <3>1, <3>4 DEF PoolOK, S, R
  <2>5. CASE ~request.subscribe
    <3>1. Subscribers' = Subscribers /\ Readers' = Readers \cup {k}
      BY <1>3, <1>6, <1>7, <1>8, <2>5 DEF Subscribers, Readers
    <3>2. R < MaxReads
      <4>1. {h \in Allocated : handler[h].subscribe = request.subscribe} = Readers
        BY <1>1, <2>1, <2>5 DEF Readers
      <4> QED
        BY <1>4, <2>5, <4>1
    <3>3. Cardinality(Readers \cup {k}) = IF k \in Readers THEN R ELSE R + 1
      BY AllocatedFinite, FS_AddElement
    <3> HIDE DEF S, R
    <3>4. Cardinality(Readers \cup {k}) <= MaxReads
      BY <2>0, <3>2, <3>3, ConstantTypes
    <3> QED
      BY <2>0, <2>3, <3>1, <3>4 DEF PoolOK, S, R
  <2> QED
    BY <1>1, <2>4, <2>5
<1>12. InFlightIsAwaiting'
  <2>1. Awaiting' = Awaiting
    BY <1>3, <1>6, <1>7, <1>8 DEF Awaiting, IsAwaitingReportResponse
  <2> QED
    BY <1>0, <1>4, <2>1 DEF InFlightIsAwaiting, Awaiting
<1>13. HandlersOK'
  <2>1. UNCHANGED <<mGlobalDirtySet, mDirtyGeneration>>
    BY <1>4 DEF engineVars
  <2> QED
    BY <1>0, <1>3, <1>6, <1>7, <1>8, <2>1 DEF HandlersOK
<1>14. SomeoneWakesTheEngine'
  BY <1>4 DEF SomeoneWakesTheEngine
<1> QED
  BY <1>9, <1>10, <1>11, <1>12, <1>13, <1>14 DEF IndInv

\* A response ends the wait for it; the scheduler is told.
LEMMA StepOnStatusResponse ==
    ASSUME IndInv, NEW h \in Handlers, OnStatusResponse(h)
    PROVE  IndInv'
<1> DEFINE n == Answered(handler[h])
           r == OnBecameReportable(n)
<1>0. TypeOK /\ PoolOK /\ HandlersOK /\ InFlightIsAwaiting /\ SomeoneWakesTheEngine
  BY DEF IndInv
<1>1. /\ h \in Allocated /\ IsAwaitingReportResponse(handler[h]) /\ handler[h] \in HandlerRecords
      /\ HandlerOK(handler[h], mGlobalDirtySet, mDirtyGeneration)
  BY <1>0, AllocatedHandler DEF OnStatusResponse, HandlersOK
<1>2. /\ handler' = [handler EXCEPT ![h] = r]
      /\ mRunScheduled' = (\/ mRunScheduled \/ mNumReportsInFlight = MaxInFlight
                           \/ ShouldReportUnscheduled(n) \/ WakesEngine(n))
      /\ mNumReportsInFlight' = mNumReportsInFlight - 1
      /\ UNCHANGED <<requests, engineVars, mLastEventNumber>>
  BY DEF OnStatusResponse, Answered
<1>3. /\ r \in HandlerRecords /\ HandlerOK(r, mGlobalDirtySet, mDirtyGeneration)
      /\ r.subscribe = handler[h].subscribe /\ ~IsAwaitingReportResponse(r)
      /\ r.timer = NoTimer => ShouldReportUnscheduled(n) \/ WakesEngine(n)
  BY <1>1, AnsweredOK
<1> HIDE DEF r, n
<1>4. /\ handler' \in [Handlers -> HandlerRecords \cup {Free}]
      /\ Allocated' = Allocated /\ Subscribers' = Subscribers /\ Readers' = Readers
      /\ Awaiting' = Awaiting \ {h}
      /\ handler'[h] = r /\ \A k \in Allocated \ {h} : handler'[k] = handler[k]
  BY <1>0, <1>1, <1>2, <1>3, ReplacedPool
<1>5. /\ mNumReportsInFlight' = Cardinality(Awaiting')
      /\ mNumReportsInFlight' \in 0 .. MaxInFlight
  <2>1. h \in Awaiting /\ IsFiniteSet(Awaiting) /\ mNumReportsInFlight = Cardinality(Awaiting)
    BY <1>0, <1>1, AllocatedFinite DEF Awaiting, InFlightIsAwaiting
  <2>2. IsFiniteSet(Awaiting \ {h}) /\ Cardinality(Awaiting \ {h}) = Cardinality(Awaiting) - 1
    BY <2>1, FS_RemoveElement
  <2>3. Cardinality(Awaiting \ {h}) \in Nat
    BY <2>2, FS_CardinalityType
  <2>4. mNumReportsInFlight \in 0 .. MaxInFlight
    BY <1>0 DEF TypeOK
  <2> QED
    BY <1>2, <1>4, <2>1, <2>2, <2>3, <2>4, ConstantTypes
<1>6. UNCHANGED <<mGlobalDirtySet, mDirtyGeneration, mCurReadHandlerIdx, toVisit, missed>>
  BY <1>2 DEF engineVars
<1>7. TypeOK'
  BY <1>0, <1>2, <1>4, <1>5, <1>6 DEF TypeOK
<1>8. DirtyOK(mGlobalDirtySet, mDirtyGeneration)'
  BY <1>6 DEF IndInv, DirtyOK
<1>9. PoolOK'
  BY <1>0, <1>4, <1>6, SettledPoolOK
<1>10. InFlightIsAwaiting'
  BY <1>5 DEF InFlightIsAwaiting, Awaiting
<1>11. HandlersOK'
  BY <1>0, <1>1, <1>3, <1>4, <1>6 DEF HandlersOK
<1>12. SomeoneWakesTheEngine'
  <2> SUFFICES ASSUME NEW k \in Allocated \ missed, CanStartReporting(handler'[k]),
                      ~mRunScheduled'
               PROVE  handler'[k].timer # NoTimer
    BY <1>4, <1>6 DEF SomeoneWakesTheEngine
  <2>1. CASE k = h
    BY <1>2, <1>3, <1>4, <2>1
  <2>2. CASE k # h
    <3>1. handler'[k] = handler[k]
      BY <1>4, <2>2
    <3> QED
      BY <1>0, <1>2, <3>1 DEF SomeoneWakesTheEngine
  <2> QED
    BY <2>1, <2>2
<1> QED
  BY <1>7, <1>8, <1>9, <1>10, <1>11, <1>12 DEF IndInv

\* A handler closed while it awaits a response gives its slot in flight back.
LEMMA StepCloseHandler ==
    ASSUME IndInv, NEW h \in Handlers, CloseHandler(h)
    PROVE  IndInv'
<1>0. TypeOK /\ PoolOK /\ HandlersOK /\ InFlightIsAwaiting /\ SomeoneWakesTheEngine
  BY DEF IndInv
<1>1. /\ h \in Allocated /\ toVisit = NotRunning
      /\ handler' = [handler EXCEPT ![h] = Free]
      /\ mCurReadHandlerIdx' = 0 /\ missed' = missed \ {h}
      /\ UNCHANGED <<mGlobalDirtySet, mDirtyGeneration, toVisit, requests, mLastEventNumber>>
  BY DEF CloseHandler
<1>2. IF IsAwaitingReportResponse(handler[h])
         THEN /\ mNumReportsInFlight' = mNumReportsInFlight - 1
              /\ mRunScheduled' = (mRunScheduled \/ mNumReportsInFlight = MaxInFlight)
         ELSE UNCHANGED <<mNumReportsInFlight, mRunScheduled>>
  BY DEF CloseHandler
<1>3. /\ handler' \in [Handlers -> HandlerRecords \cup {Free}]
      /\ Allocated' = Allocated \ {h} /\ Awaiting' = Awaiting \ {h}
      /\ \A k \in Allocated \ {h} : handler'[k] = handler[k]
  BY <1>0, <1>1, ClosedPool
<1>4. /\ mNumReportsInFlight' = Cardinality(Awaiting')
      /\ mNumReportsInFlight' \in 0 .. MaxInFlight
      /\ mRunScheduled' \in BOOLEAN
  <2>1. /\ IsFiniteSet(Awaiting) /\ mNumReportsInFlight = Cardinality(Awaiting)
        /\ h \in Awaiting <=> IsAwaitingReportResponse(handler[h])
    BY <1>0, <1>1, AllocatedFinite DEF Awaiting, InFlightIsAwaiting
  <2>2. /\ IsFiniteSet(Awaiting \ {h})
        /\ Cardinality(Awaiting \ {h}) = IF h \in Awaiting THEN Cardinality(Awaiting) - 1
                                                           ELSE Cardinality(Awaiting)
    BY <2>1, FS_RemoveElement
  <2>3. Cardinality(Awaiting \ {h}) \in Nat
    BY <2>2, FS_CardinalityType
  <2>4. mNumReportsInFlight \in 0 .. MaxInFlight /\ mRunScheduled \in BOOLEAN
    BY <1>0 DEF TypeOK
  <2>5. CASE IsAwaitingReportResponse(handler[h])
    <3>1. /\ mNumReportsInFlight' = mNumReportsInFlight - 1
          /\ mRunScheduled' = (mRunScheduled \/ mNumReportsInFlight = MaxInFlight)
      BY <1>2, <2>5
    <3>2. Cardinality(Awaiting \ {h}) = mNumReportsInFlight - 1
      BY <2>1, <2>2, <2>5
    <3>3. mNumReportsInFlight' \in 0 .. MaxInFlight
      BY <2>3, <2>4, <3>1, <3>2, ConstantTypes
    <3> QED
      BY <1>3, <3>1, <3>2, <3>3
  <2>6. CASE ~IsAwaitingReportResponse(handler[h])
    BY <1>2, <1>3, <2>1, <2>2, <2>4, <2>6
  <2> QED
    BY <2>5, <2>6
<1>5. TypeOK'
  <2>1. 0 \in 0 .. IndexModulus - 1
    BY ConstantTypes
  <2> QED
    BY <1>0, <1>1, <1>3, <1>4, <2>1 DEF TypeOK
<1>6. DirtyOK(mGlobalDirtySet, mDirtyGeneration)'
  BY <1>1 DEF IndInv, DirtyOK
<1>7. PoolOK'
  BY <1>0, <1>1, ClosedPoolOK
<1>8. InFlightIsAwaiting'
  BY <1>4 DEF InFlightIsAwaiting, Awaiting
<1>9. HandlersOK'
  BY <1>0, <1>1, <1>3 DEF HandlersOK
<1>10. SomeoneWakesTheEngine'
  <2> SUFFICES ASSUME NEW k \in Allocated \ {h}, k \notin missed, CanStartReporting(handler[k])
               PROVE  \/ mRunScheduled' \/ mNumReportsInFlight' = MaxInFlight
                      \/ handler[k].timer # NoTimer
    BY <1>1, <1>3 DEF SomeoneWakesTheEngine
  <2>1. mRunScheduled \/ mNumReportsInFlight = MaxInFlight \/ handler[k].timer # NoTimer
    BY <1>0 DEF SomeoneWakesTheEngine
  <2> QED
    BY <1>2, <2>1
<1> QED
  BY <1>5, <1>6, <1>7, <1>8, <1>9, <1>10 DEF IndInv

\* A change marks its handlers and is covered by the dirty set.
LEMMA StepSetDirty ==
    ASSUME IndInv, NEW path, path \subseteq Attributes, path # {}, SetDirty(path)
    PROVE  IndInv'
<1> DEFINE g == mDirtyGeneration
           affected == {h \in Allocated : handler[h].path \cap path # {}}
           marked == [h \in affected |-> MarkDirty(handler[h], path, g + 1)]
<1>0. /\ TypeOK /\ PoolOK /\ HandlersOK /\ InFlightIsAwaiting /\ SomeoneWakesTheEngine
      /\ DirtyOK(mGlobalDirtySet, g)
  BY DEF IndInv
<1>1. /\ mDirtyGeneration' = g + 1
      /\ handler' = [h \in Handlers |-> IF h \in affected THEN OnBecameReportable(marked[h])
                                                          ELSE handler[h]]
      /\ mRunScheduled' = (mRunScheduled \/ \E h \in affected : WakesEngine(marked[h]))
      /\ IF affected = {} THEN UNCHANGED mGlobalDirtySet
                          ELSE mGlobalDirtySet' \in InsertPathIntoDirtySet(path, g + 1)
      /\ UNCHANGED <<mNumReportsInFlight, mCurReadHandlerIdx, toVisit, missed, requests,
                     mLastEventNumber>>
  BY DEF SetDirty
<1>2. g \in Nat /\ g + 1 \in 1 .. MaxInputs + 1
  BY <1>0, InputsBound DEF SetDirty
<1>3. /\ Allocated \subseteq Handlers /\ affected \subseteq Allocated
      /\ \A h \in Allocated : handler[h] \in HandlerRecords /\ HandlerOK(handler[h], mGlobalDirtySet, g)
      /\ \A h \in Handlers \ Allocated : handler[h] = Free
      /\ \A h \in affected : marked[h] = MarkDirty(handler[h], path, g + 1)
  BY <1>0, AllocatedHandler DEF HandlersOK
<1>d. DirtyOK(mGlobalDirtySet', g + 1) /\ Keeps(mGlobalDirtySet, mGlobalDirtySet')
  <2>1. CASE affected = {}
    <3>1. \A e \in mGlobalDirtySet : e.gen \in Nat /\ e.gen <= g
      BY <1>0, DirtyFields DEF DirtyOK
    <3> QED
      BY <1>0, <1>1, <1>2, <2>1, <3>1 DEF DirtyOK, Keeps
  <2>2. CASE affected # {}
    BY <1>0, <1>1, <1>2, <2>2, Inserted
  <2> QED
    BY <2>1, <2>2
<1>c. affected # {} => \A a \in path : \A n \in Nat : n <= g => Covered(mGlobalDirtySet', a, n)
  BY <1>0, <1>1, <1>2, Inserted
<1> HIDE DEF affected, marked, g
<1>4. ASSUME NEW h \in affected
      PROVE  /\ handler'[h] \in HandlerRecords /\ HandlerOK(handler'[h], mGlobalDirtySet', g + 1)
             /\ handler'[h].subscribe = handler[h].subscribe
             /\ handler'[h].state = handler[h].state
             /\ handler'[h].timer = NoTimer =>
                  ~CanStartReporting(handler[h]) \/ mRunScheduled' \/ handler[h].timer = NoTimer
  <2>1. h \in Handlers /\ h \in Allocated
    BY <1>3
  <2>2. handler'[h] = OnBecameReportable(MarkDirty(handler[h], path, g + 1))
    BY <1>1, <1>3, <2>1
  <2>3. \A a \in path : \A n \in Nat : n <= g => Covered(mGlobalDirtySet', a, n)
    BY <1>c
  <2>4. handler[h] \in HandlerRecords /\ HandlerOK(handler[h], mGlobalDirtySet, g)
    BY <1>3, <2>1
  <2>5. /\ handler'[h] \in HandlerRecords /\ HandlerOK(handler'[h], mGlobalDirtySet', g + 1)
        /\ handler'[h].subscribe = handler[h].subscribe
        /\ handler'[h].state = handler[h].state
        /\ handler'[h].timer = NoTimer =>
             \/ ~CanStartReporting(handler[h])
             \/ WakesEngine(MarkDirty(handler[h], path, g + 1))
             \/ handler[h].timer = NoTimer
    <3> DEFINE hd == handler[h]
               D == mGlobalDirtySet
               E == mGlobalDirtySet'
               m == MarkDirty(hd, path, g + 1)
               r == handler'[h]
    <3>1. /\ hd \in HandlerRecords /\ HandlerOK(hd, D, g) /\ Keeps(D, E) /\ path \in SUBSET Attributes
          /\ m = MarkDirty(hd, path, g + 1) /\ r = OnBecameReportable(m)
          /\ \A a \in path : \A n \in Nat : n <= g => Covered(E, a, n)
      BY <1>d, <2>2, <2>3, <2>4
    <3> HIDE DEF hd, D, E, m, r
    <3>2. /\ r \in HandlerRecords /\ HandlerOK(r, E, g + 1)
          /\ r.subscribe = hd.subscribe /\ r.state = hd.state
          /\ r.timer = NoTimer => \/ ~CanStartReporting(hd) \/ WakesEngine(m)
                                  \/ hd.timer = NoTimer
      BY <1>2, <3>1, MarkedOK
    <3> QED
      BY <3>2 DEF hd, D, E, m, r
  <2>6. WakesEngine(MarkDirty(handler[h], path, g + 1)) => mRunScheduled'
    BY <1>1, <1>3
  <2> QED
    BY <2>5, <2>6
<1>5. ASSUME NEW h \in Allocated \ affected
      PROVE  handler'[h] = handler[h] /\ HandlerOK(handler[h], mGlobalDirtySet', g + 1)
  <2>1. h \in Handlers
    BY <1>3
  <2>2. handler'[h] = handler[h]
    BY <1>1, <2>1
  <2>3. g + 1 \in Nat /\ g <= g + 1
    BY <1>2
  <2> QED
    BY <1>2, <1>3, <1>d, <2>2, <2>3, HandlerKept
<1>6. Settled
  <2>1. \A h \in Handlers \ Allocated : handler'[h] = Free
    BY <1>1, <1>3
  <2> QED
    BY <1>3, <1>4, <1>5, <2>1 DEF Settled
<1>7. Allocated' = Allocated /\ Subscribers' = Subscribers /\ Readers' = Readers
      /\ Awaiting' = Awaiting
  BY <1>0, <1>6, SettledPool
<1>8. TypeOK'
  <2>1. handler' \in [Handlers -> HandlerRecords \cup {Free}]
    BY <1>1, <1>6 DEF Settled
  <2>2. mRunScheduled' \in BOOLEAN
    BY <1>0, <1>1 DEF TypeOK
  <2>3. mGlobalDirtySet' \subseteq DirtyEntries /\ Cardinality(mGlobalDirtySet') <= MaxDirtySet
    BY <1>d DEF DirtyOK
  <2> QED
    BY <1>0, <1>1, <1>2, <2>1, <2>2, <2>3 DEF TypeOK
<1>9. DirtyOK(mGlobalDirtySet, mDirtyGeneration)'
  BY <1>1, <1>d DEF DirtyOK
<1>10. PoolOK'
  BY <1>0, <1>1, <1>7, SettledPoolOK
<1>11. InFlightIsAwaiting'
  BY <1>0, <1>1, <1>7 DEF InFlightIsAwaiting, Awaiting
<1>12. HandlersOK'
  <2>1. \A h \in Allocated : HandlerOK(handler'[h], mGlobalDirtySet', g + 1)
    BY <1>4, <1>5
  <2> QED
    BY <1>1, <1>7, <2>1 DEF HandlersOK
<1>13. SomeoneWakesTheEngine'
  <2> SUFFICES ASSUME NEW k \in Allocated \ missed, CanStartReporting(handler'[k]),
                      ~mRunScheduled', mNumReportsInFlight # MaxInFlight
               PROVE  handler'[k].timer # NoTimer
    BY <1>1, <1>7 DEF SomeoneWakesTheEngine
  <2>1. CanStartReporting(handler[k]) /\ ~mRunScheduled
    BY <1>1, <1>6 DEF Settled, CanStartReporting
  <2>2. handler[k].timer # NoTimer
    BY <1>0, <2>1 DEF SomeoneWakesTheEngine
  <2> QED
    BY <1>4, <1>5, <2>1, <2>2
<1> QED
  BY <1>8, <1>9, <1>10, <1>11, <1>12, <1>13 DEF IndInv

\* A step that leaves the pool alone, but for timers and marks.
LEMMA StepSettled ==
    ASSUME IndInv, Settled, handler' \in [Handlers -> HandlerRecords \cup {Free}],
           mRunScheduled' \in BOOLEAN, mRunScheduled => mRunScheduled',
           mLastEventNumber' \in 0 .. MaxInputs,
           UNCHANGED <<mNumReportsInFlight, requests, engineVars>>,
           \A h \in Allocated : HandlerOK(handler'[h], mGlobalDirtySet, mDirtyGeneration),
           \A h \in Allocated : CanStartReporting(handler[h]) /\ handler'[h].timer = NoTimer
                                  => mRunScheduled' \/ handler[h].timer = NoTimer
    PROVE  IndInv'
<1>0. /\ TypeOK /\ PoolOK /\ HandlersOK /\ InFlightIsAwaiting /\ SomeoneWakesTheEngine
      /\ DirtyOK(mGlobalDirtySet, mDirtyGeneration)
  BY DEF IndInv
<1>1. UNCHANGED <<mGlobalDirtySet, mDirtyGeneration, mCurReadHandlerIdx, toVisit, missed>>
      /\ UNCHANGED <<mNumReportsInFlight, requests>>
  BY DEF engineVars
<1>2. Allocated' = Allocated /\ Subscribers' = Subscribers /\ Readers' = Readers
      /\ Awaiting' = Awaiting
  BY <1>0, SettledPool
<1>3. TypeOK'
  BY <1>0, <1>1 DEF TypeOK
<1>4. DirtyOK(mGlobalDirtySet, mDirtyGeneration)'
  BY <1>0, <1>1 DEF DirtyOK
<1>5. PoolOK'
  BY <1>0, <1>1, <1>2, SettledPoolOK
<1>6. InFlightIsAwaiting'
  BY <1>0, <1>1, <1>2 DEF InFlightIsAwaiting, Awaiting
<1>7. HandlersOK'
  BY <1>1, <1>2 DEF HandlersOK
<1>8. SomeoneWakesTheEngine'
  <2> SUFFICES ASSUME NEW k \in Allocated \ missed, CanStartReporting(handler'[k]),
                      ~mRunScheduled', mNumReportsInFlight # MaxInFlight
               PROVE  handler'[k].timer # NoTimer
    BY <1>1, <1>2 DEF SomeoneWakesTheEngine
  <2>1. CanStartReporting(handler[k]) /\ ~mRunScheduled
    BY DEF Settled, CanStartReporting
  <2>2. handler[k].timer # NoTimer
    BY <1>0, <2>1 DEF SomeoneWakesTheEngine
  <2> QED
    BY <2>1, <2>2
<1> QED
  BY <1>3, <1>4, <1>5, <1>6, <1>7, <1>8 DEF IndInv

\* An urgent event forces every subscription dirty.
LEMMA StepUrgentEventGenerated ==
    ASSUME IndInv, UrgentEventGenerated
    PROVE  IndInv'
<1>0. TypeOK /\ HandlersOK
  BY DEF IndInv
<1>1. /\ handler' = [h \in Handlers |-> ForceDirty(h).hd]
      /\ mRunScheduled' = (mRunScheduled \/ \E h \in Handlers : ForceDirty(h).wakes)
      /\ mLastEventNumber' = mLastEventNumber + 1
      /\ UNCHANGED <<mNumReportsInFlight, requests, engineVars>>
  BY DEF UrgentEventGenerated, ForceAllDirty
<1>2. mLastEventNumber' \in 0 .. MaxInputs
  BY <1>0, <1>1, InputsBound DEF UrgentEventGenerated
<1>3. /\ Allocated \subseteq Handlers
      /\ \A h \in Allocated : /\ handler[h] \in HandlerRecords
                              /\ HandlerOK(handler[h], mGlobalDirtySet, mDirtyGeneration)
      /\ \A h \in Handlers \ Allocated : handler[h] = Free
  BY <1>0, AllocatedHandler DEF HandlersOK
<1>4. ASSUME NEW h \in Allocated
      PROVE  /\ handler'[h] \in HandlerRecords
             /\ HandlerOK(handler'[h], mGlobalDirtySet, mDirtyGeneration)
             /\ handler'[h].subscribe = handler[h].subscribe
             /\ handler'[h].state = handler[h].state
             /\ CanStartReporting(handler[h]) /\ handler'[h].timer = NoTimer
                  => mRunScheduled' \/ handler[h].timer = NoTimer
  <2> DEFINE old == handler[h]
             new == [old EXCEPT !.forceDirty = TRUE]
             told == ~ShouldStartReporting(old) /\ ShouldStartReporting(new)
  <2>1. h \in Handlers /\ handler'[h] = ForceDirty(h).hd /\ (ForceDirty(h).wakes => mRunScheduled')
    BY <1>1, <1>3
  <2>2. old \in HandlerRecords /\ HandlerOK(old, mGlobalDirtySet, mDirtyGeneration)
    BY <1>3
  <2>3. /\ new \in HandlerRecords /\ HandlerOK(new, mGlobalDirtySet, mDirtyGeneration)
        /\ new.subscribe = old.subscribe /\ new.state = old.state /\ new.timer = old.timer
    BY <2>2, ForcedOK
  <2>4. ForceDirty(h) = IF old.subscribe
                          THEN [hd    |-> IF told THEN OnBecameReportable(new) ELSE new,
                                wakes |-> told /\ WakesEngine(new)]
                          ELSE [hd |-> old, wakes |-> FALSE]
    BY DEF ForceDirty
  <2> HIDE DEF old, new
  <2>5. CASE ~old.subscribe
    BY <2>1, <2>2, <2>4, <2>5 DEF old
  <2>6. CASE old.subscribe /\ ~told
    <3>1. handler'[h] = new
      BY <2>1, <2>4, <2>6
    <3> QED
      BY <2>3, <3>1 DEF old
  <2>7. CASE old.subscribe /\ told
    <3>1. handler'[h] = OnBecameReportable(new) /\ (WakesEngine(new) => mRunScheduled')
      <4> DEFINE o == OnBecameReportable(new)
                 w == told /\ WakesEngine(new)
      <4>1. ForceDirty(h) = [hd |-> o, wakes |-> w]
        BY <2>4, <2>7
      <4>2. w = WakesEngine(new)
        BY <2>7 DEF WakesEngine
      <4> HIDE DEF o, w
      <4>3. ForceDirty(h).hd = o /\ ForceDirty(h).wakes = w
        BY <4>1
      <4> QED
        BY <2>1, <4>2, <4>3 DEF o
    <3>2. /\ OnBecameReportable(new) \in HandlerRecords
          /\ HandlerOK(OnBecameReportable(new), mGlobalDirtySet, mDirtyGeneration)
          /\ OnBecameReportable(new).subscribe = new.subscribe
          /\ OnBecameReportable(new).state = new.state
          /\ OnBecameReportable(new).timer = NoTimer =>
                ~CanStartReporting(new) \/ WakesEngine(new) \/ new.timer = NoTimer
      BY <2>3, RearmedOK
    <3> QED
      BY <2>3, <3>1, <3>2 DEF old, CanStartReporting
  <2> QED
    BY <2>5, <2>6, <2>7
<1>5. \A h \in Handlers \ Allocated : handler'[h] = Free
  BY <1>1, <1>3 DEF ForceDirty
<1>6. Settled
  BY <1>4, <1>5 DEF Settled
<1>7. handler' \in [Handlers -> HandlerRecords \cup {Free}]
  BY <1>1, <1>4, <1>5
<1>8. mRunScheduled' \in BOOLEAN /\ (mRunScheduled => mRunScheduled')
  BY <1>0, <1>1 DEF TypeOK
<1> QED
  BY <1>1, <1>2, <1>4, <1>6, <1>7, <1>8, StepSettled

\* A timer that fires asks for a run.
LEMMA StepTimerFired ==
    ASSUME IndInv, NEW h \in Handlers, TimerFired(h)
    PROVE  IndInv'
<1> DEFINE hd == handler[h]
           r == Fired(hd)
<1>0. TypeOK /\ HandlersOK
  BY DEF IndInv
<1>1. /\ h \in Allocated /\ hd.timer # NoTimer
      /\ handler' = [handler EXCEPT ![h] = r]
      /\ mRunScheduled' = TRUE
      /\ UNCHANGED <<mNumReportsInFlight, requests, engineVars, mLastEventNumber>>
  BY DEF TimerFired
<1>2. hd \in HandlerRecords /\ HandlerOK(hd, mGlobalDirtySet, mDirtyGeneration)
  BY <1>0, <1>1, AllocatedHandler DEF HandlersOK
<1>3. handler' = [handler EXCEPT ![h] = r]
  BY <1>1
<1>4. /\ r \in HandlerRecords /\ HandlerOK(r, mGlobalDirtySet, mDirtyGeneration)
      /\ r.subscribe = hd.subscribe /\ r.state = hd.state
  BY <1>1, <1>2, FiredOK
<1> HIDE DEF r
<1>5. handler' \in [Handlers -> HandlerRecords \cup {Free}]
  BY <1>0, <1>3, <1>4 DEF TypeOK
<1>6. \A k \in Handlers : handler'[k] = IF k = h THEN r ELSE handler[k]
  BY <1>0, <1>3 DEF TypeOK
<1>7. /\ Allocated \subseteq Handlers
      /\ \A k \in Allocated : handler[k] \in HandlerRecords
      /\ \A k \in Handlers \ Allocated : handler[k] = Free
  BY <1>0, AllocatedHandler
<1>8. Settled
  BY <1>1, <1>4, <1>6, <1>7 DEF Settled
<1>9. \A k \in Allocated : HandlerOK(handler'[k], mGlobalDirtySet, mDirtyGeneration)
  BY <1>0, <1>4, <1>6, <1>7 DEF HandlersOK
<1>10. mLastEventNumber' \in 0 .. MaxInputs
  BY <1>0, <1>1 DEF TypeOK
<1> QED
  BY <1>1, <1>5, <1>8, <1>9, <1>10, StepSettled

\* Time passes for every node at once.
LEMMA StepTick ==
    ASSUME IndInv, Tick
    PROVE  IndInv'
<1> DEFINE ticked(hd) == [hd EXCEPT !.min = IF @ > 0 THEN @ - 1 ELSE @,
                                    !.max = IF @ > -1 THEN @ - 1 ELSE @,
                                    !.timer = IF @ > 0 THEN @ - 1 ELSE @]
<1>0. TypeOK /\ HandlersOK
  BY DEF IndInv
<1>1. /\ handler' = [h \in Handlers |-> IF h \in Allocated THEN ticked(handler[h]) ELSE Free]
      /\ UNCHANGED <<mNumReportsInFlight, mRunScheduled, requests, engineVars, mLastEventNumber>>
  BY DEF Tick
<1>2. /\ Allocated \subseteq Handlers
      /\ \A h \in Allocated : /\ handler[h] \in HandlerRecords
                              /\ HandlerOK(handler[h], mGlobalDirtySet, mDirtyGeneration)
  BY <1>0, AllocatedHandler DEF HandlersOK
<1>3. ASSUME NEW h \in Allocated
      PROVE  /\ handler'[h] \in HandlerRecords
             /\ HandlerOK(handler'[h], mGlobalDirtySet, mDirtyGeneration)
             /\ handler'[h].subscribe = handler[h].subscribe
             /\ handler'[h].state = handler[h].state
             /\ handler'[h].timer = NoTimer => handler[h].timer = NoTimer
  <2>1. handler'[h] = ticked(handler[h])
    BY <1>1, <1>2
  <2>2. handler[h] \in HandlerRecords /\ HandlerOK(handler[h], mGlobalDirtySet, mDirtyGeneration)
    BY <1>2
  <2> QED
    BY <2>1, <2>2, TickedOK
<1> HIDE DEF ticked
<1>4. \A h \in Handlers \ Allocated : handler'[h] = Free
  BY <1>1
<1>5. Settled
  BY <1>3, <1>4 DEF Settled
<1>6. handler' \in [Handlers -> HandlerRecords \cup {Free}]
  BY <1>1, <1>3, <1>4
<1>7. mLastEventNumber' \in 0 .. MaxInputs /\ mRunScheduled' \in BOOLEAN
  BY <1>0, <1>1 DEF TypeOK
<1> QED
  BY <1>1, <1>3, <1>5, <1>6, <1>7, StepSettled

\* A run has all handlers before it.
LEMMA StepRun ==
    ASSUME IndInv, Run
    PROVE  IndInv'
<1>0. /\ TypeOK /\ PoolOK /\ HandlersOK /\ InFlightIsAwaiting
      /\ DirtyOK(mGlobalDirtySet, mDirtyGeneration)
  BY DEF IndInv
<1>1. /\ mRunScheduled' = FALSE /\ toVisit' = Cardinality(Allocated) /\ missed' = Allocated
      /\ UNCHANGED <<handler, mGlobalDirtySet, mDirtyGeneration, mNumReportsInFlight,
                     mCurReadHandlerIdx, requests, mLastEventNumber>>
  BY DEF Run
<1>2. Allocated' = Allocated /\ Subscribers' = Subscribers /\ Readers' = Readers
      /\ Awaiting' = Awaiting
  BY <1>1 DEF Allocated, Subscribers, Readers, Awaiting
<1>3. TypeOK'
  <2>1. Cardinality(Allocated) \in NotRunning .. NumHandlers /\ Allocated \subseteq Handlers
    BY AllocatedFinite, ConstantTypes DEF Allocated, NotRunning
  <2> QED
    BY <1>0, <1>1, <2>1 DEF TypeOK
<1>4. DirtyOK(mGlobalDirtySet, mDirtyGeneration)'
  BY <1>0, <1>1 DEF DirtyOK
<1>5. PoolOK'
  BY <1>0, <1>1, <1>2, SettledPoolOK
<1>6. InFlightIsAwaiting'
  BY <1>0, <1>1, <1>2 DEF InFlightIsAwaiting, Awaiting
<1>7. HandlersOK'
  BY <1>0, <1>1, <1>2 DEF HandlersOK
<1>8. SomeoneWakesTheEngine'
  BY <1>1, <1>2 DEF SomeoneWakesTheEngine
<1> QED
  BY <1>3, <1>4, <1>5, <1>6, <1>7, <1>8 DEF IndInv

\* The index and the count of a run stay in range.
LEMMA VisitTypes ==
    ASSUME TypeOK, toVisit > 0
    PROVE  /\ toVisit - 1 \in NotRunning .. NumHandlers /\ NotRunning \in NotRunning .. NumHandlers
           /\ (mCurReadHandlerIdx + 1) % IndexModulus \in 0 .. IndexModulus - 1
           /\ (mCurReadHandlerIdx - 1) % IndexModulus \in 0 .. IndexModulus - 1
<1>1. mCurReadHandlerIdx + 1 \in Int /\ mCurReadHandlerIdx - 1 \in Int
  BY ConstantTypes DEF TypeOK
<1>2. toVisit - 1 \in NotRunning .. NumHandlers /\ NotRunning \in NotRunning .. NumHandlers
  BY ConstantTypes DEF TypeOK, NotRunning
<1> QED
  BY <1>1, <1>2, ConstantTypes, ModuloRange

\* A handler is passed over only if its timer will bring the engine back.
LEMMA StepSkipHandler ==
    ASSUME IndInv, SkipHandler
    PROVE  IndInv'
<1> DEFINE v == Visited
<1>0. /\ TypeOK /\ PoolOK /\ HandlersOK /\ InFlightIsAwaiting /\ SomeoneWakesTheEngine
      /\ DirtyOK(mGlobalDirtySet, mDirtyGeneration)
  BY DEF IndInv
<1>1. /\ toVisit > 0 /\ ~MustReport(handler[v]) /\ toVisit' = toVisit - 1 /\ missed' = missed \ {v}
      /\ mCurReadHandlerIdx' = (mCurReadHandlerIdx + 1) % IndexModulus
      /\ UNCHANGED <<handler, mNumReportsInFlight, mRunScheduled, mGlobalDirtySet,
                     mDirtyGeneration, requests, mLastEventNumber>>
  BY DEF SkipHandler, Visiting, ToNextHandler, Count
<1>2. v \in Allocated /\ handler[v] \in HandlerRecords
  BY <1>0, <1>1, VisitedIsAllocated
<1> HIDE DEF v
<1>3. Allocated' = Allocated /\ Subscribers' = Subscribers /\ Readers' = Readers
      /\ Awaiting' = Awaiting
  BY <1>1 DEF Allocated, Subscribers, Readers, Awaiting
<1>4. TypeOK'
  BY <1>0, <1>1, VisitTypes DEF TypeOK
<1>5. DirtyOK(mGlobalDirtySet, mDirtyGeneration)'
  BY <1>0, <1>1 DEF DirtyOK
<1>6. PoolOK'
  BY <1>0, <1>1, <1>3, SettledPoolOK
<1>7. InFlightIsAwaiting'
  BY <1>0, <1>1, <1>3 DEF InFlightIsAwaiting, Awaiting
<1>8. HandlersOK'
  BY <1>0, <1>1, <1>3 DEF HandlersOK
<1>9. CanStartReporting(handler[v]) => handler[v].timer # NoTimer
  <2> SUFFICES ASSUME CanStartReporting(handler[v]) PROVE handler[v].timer # NoTimer
    OBVIOUS
  <2>1. handler[v].subscribe /\ ~handler[v].priming
    BY <1>1 DEF MustReport, ShouldReportUnscheduled
  <2>2. TimerOK(handler[v])
    BY <1>0, <1>2 DEF HandlersOK, HandlerOK
  <2>3. handler[v].registered
    BY <1>2, <2>1, <2>2, Fields DEF TimerOK
  <2>4. ~handler[v].runScheduled
    BY <1>1, <2>3 DEF MustReport, IsReportableNow
  <2> QED
    BY <2>2, <2>3, <2>4 DEF TimerOK
<1>10. SomeoneWakesTheEngine'
  BY <1>0, <1>1, <1>3, <1>9 DEF SomeoneWakesTheEngine
<1> QED
  BY <1>4, <1>5, <1>6, <1>7, <1>8, <1>10 DEF IndInv

\* What a report that is answered does to the rest.
LEMMA StepSendReport ==
    ASSUME IndInv, Visiting, MustReport(handler[Visited]),
           NEW content \in Contents(handler[Visited]), SendReport(handler[Visited], content)
    PROVE  IndInv'
<1> DEFINE v == Visited
           hd == handler[v]
           more == HasMoreChunks(hd, content)
           s == Sent(Built(hd, content), more)
<1>0. /\ TypeOK /\ PoolOK /\ HandlersOK /\ InFlightIsAwaiting /\ SomeoneWakesTheEngine
      /\ DirtyOK(mGlobalDirtySet, mDirtyGeneration)
  BY DEF IndInv
<1>1. /\ toVisit > 0 /\ mNumReportsInFlight < MaxInFlight
      /\ hd.subscribe \/ more
      /\ handler' = [handler EXCEPT ![v] = s]
      /\ mNumReportsInFlight' = mNumReportsInFlight + 1
      /\ toVisit' = toVisit - 1 /\ missed' = missed \ {v}
      /\ mCurReadHandlerIdx' = (mCurReadHandlerIdx + 1) % IndexModulus
      /\ UNCHANGED <<mRunScheduled, mGlobalDirtySet, mDirtyGeneration, requests, mLastEventNumber>>
  BY DEF SendReport, Visiting, ToNextHandler, Count
<1>2. v \in Allocated /\ hd \in HandlerRecords /\ HandlerOK(hd, mGlobalDirtySet, mDirtyGeneration)
  BY <1>0, <1>1, VisitedIsAllocated DEF HandlersOK
<1>3. CanStartReporting(hd)
  BY DEF MustReport, ShouldReportUnscheduled, IsReportableNow
<1>4. content \in Contents(hd)
  OBVIOUS
<1>5. /\ s \in HandlerRecords /\ HandlerOK(s, mGlobalDirtySet, mDirtyGeneration)
      /\ s.subscribe = hd.subscribe /\ s.state = "AwaitingReportResponse"
  <2> HIDE DEF hd
  <2> QED
    BY <1>0, <1>1, <1>2, <1>3, <1>4, SentOK
<1> HIDE DEF v, s
<1>6. /\ handler' \in [Handlers -> HandlerRecords \cup {Free}]
      /\ Allocated' = Allocated /\ Subscribers' = Subscribers /\ Readers' = Readers
      /\ Awaiting' = Awaiting \cup {v}
      /\ handler'[v] = s /\ \A k \in Allocated \ {v} : handler'[k] = handler[k]
  BY <1>0, <1>1, <1>2, <1>5, ReplacedPool DEF IsAwaitingReportResponse
<1>7. v \notin Awaiting
  BY <1>3 DEF Awaiting, IsAwaitingReportResponse, CanStartReporting
<1>8. /\ mNumReportsInFlight' = Cardinality(Awaiting')
      /\ mNumReportsInFlight' \in 0 .. MaxInFlight
  <2>1. IsFiniteSet(Awaiting) /\ mNumReportsInFlight = Cardinality(Awaiting)
    BY <1>0, AllocatedFinite DEF Awaiting, InFlightIsAwaiting
  <2>2. Cardinality(Awaiting \cup {v}) = Cardinality(Awaiting) + 1
    BY <1>7, <2>1, FS_AddElement
  <2>3. mNumReportsInFlight \in 0 .. MaxInFlight
    BY <1>0 DEF TypeOK
  <2> QED
    BY <1>1, <1>6, <2>1, <2>2, <2>3, ConstantTypes
<1>9. TypeOK'
  BY <1>0, <1>1, <1>6, <1>8, VisitTypes DEF TypeOK
<1>10. DirtyOK(mGlobalDirtySet, mDirtyGeneration)'
  BY <1>0, <1>1 DEF DirtyOK
<1>11. PoolOK'
  BY <1>0, <1>1, <1>6, SettledPoolOK
<1>12. InFlightIsAwaiting'
  BY <1>8 DEF InFlightIsAwaiting, Awaiting
<1>13. HandlersOK'
  BY <1>0, <1>1, <1>5, <1>6 DEF HandlersOK
<1>14. SomeoneWakesTheEngine'
  <2> SUFFICES ASSUME NEW k \in Allocated, k \notin missed \ {v}, CanStartReporting(handler'[k]),
                      ~mRunScheduled
               PROVE  handler'[k].timer # NoTimer
    BY <1>1, <1>6 DEF SomeoneWakesTheEngine
  <2>1. k # v
    BY <1>5, <1>6 DEF CanStartReporting
  <2>2. handler'[k] = handler[k] /\ k \notin missed
    BY <1>6, <2>1
  <2>3. mNumReportsInFlight # MaxInFlight
    BY <1>0, <1>1, ConstantTypes DEF TypeOK
  <2> QED
    BY <1>0, <2>2, <2>3 DEF SomeoneWakesTheEngine
<1> QED
  BY <1>9, <1>10, <1>11, <1>12, <1>13, <1>14 DEF IndInv

\* The handler that is visited is closed; it awaits no response.
LEMMA StepCloseVisited ==
    ASSUME IndInv, Visiting, MustReport(handler[Visited]),
           handler' = [handler EXCEPT ![Visited] = Free],
           mRunScheduled' \in BOOLEAN, mRunScheduled => mRunScheduled',
           toVisit' \in {NotRunning, toVisit - 1}, missed' = missed \ {Visited},
           mCurReadHandlerIdx' \in {mCurReadHandlerIdx, (mCurReadHandlerIdx - 1) % IndexModulus},
           UNCHANGED <<mNumReportsInFlight, mGlobalDirtySet, mDirtyGeneration, requests,
                       mLastEventNumber>>
    PROVE  IndInv'
<1> DEFINE v == Visited
<1>0. /\ TypeOK /\ PoolOK /\ HandlersOK /\ InFlightIsAwaiting /\ SomeoneWakesTheEngine
      /\ DirtyOK(mGlobalDirtySet, mDirtyGeneration)
  BY DEF IndInv
<1>1. toVisit > 0
  BY DEF Visiting
<1>2. v \in Allocated
  BY <1>0, <1>1, VisitedIsAllocated
<1>3. handler' = [handler EXCEPT ![v] = Free] /\ missed' = missed \ {v}
  OBVIOUS
<1>4. v \notin Awaiting
  BY DEF MustReport, ShouldReportUnscheduled, IsReportableNow, Awaiting, IsAwaitingReportResponse,
         CanStartReporting
<1> HIDE DEF v
<1>5. /\ handler' \in [Handlers -> HandlerRecords \cup {Free}]
      /\ Allocated' = Allocated \ {v} /\ Awaiting' = Awaiting
      /\ \A k \in Allocated \ {v} : handler'[k] = handler[k]
  <2>1. /\ handler' \in [Handlers -> HandlerRecords \cup {Free}]
        /\ Allocated' = Allocated \ {v} /\ Awaiting' = Awaiting \ {v}
        /\ \A k \in Allocated \ {v} : handler'[k] = handler[k]
    BY ONLY <1>0, <1>2, <1>3, ClosedPool
  <2>2. Awaiting \ {v} = Awaiting
    BY <1>4
  <2> QED
    BY <2>1, <2>2
<1>6. TypeOK'
  <2>1. mCurReadHandlerIdx' \in 0 .. IndexModulus - 1 /\ toVisit' \in NotRunning .. NumHandlers
    BY <1>0, <1>1, VisitTypes DEF TypeOK
  <2> QED
    BY <1>0, <1>3, <1>5, <2>1 DEF TypeOK
<1>7. DirtyOK(mGlobalDirtySet, mDirtyGeneration)'
  BY <1>0 DEF DirtyOK
<1>8. PoolOK'
  BY <1>0, <1>2, <1>3, ClosedPoolOK
<1>9. InFlightIsAwaiting'
  BY <1>0, <1>5 DEF InFlightIsAwaiting, Awaiting
<1>10. HandlersOK'
  BY <1>0, <1>5 DEF HandlersOK
<1>11. SomeoneWakesTheEngine'
  BY <1>0, <1>3, <1>5 DEF SomeoneWakesTheEngine
<1> QED
  BY <1>6, <1>7, <1>8, <1>9, <1>10, <1>11 DEF IndInv

\* The last chunk of a read closes its handler.
LEMMA StepSendLastReport ==
    ASSUME IndInv, Visiting, MustReport(handler[Visited]), NEW content,
           SendLastReport(handler[Visited], content)
    PROVE  IndInv'
<1>1. mRunScheduled \in BOOLEAN
  BY DEF IndInv, TypeOK
<1>2. /\ handler' = [handler EXCEPT ![Visited] = Free]
      /\ mRunScheduled' = (mRunScheduled \/ mNumReportsInFlight + 1 = MaxInFlight)
      /\ toVisit' = toVisit - 1 /\ missed' = missed \ {Visited}
      /\ UNCHANGED <<mNumReportsInFlight, mCurReadHandlerIdx, mGlobalDirtySet, mDirtyGeneration,
                     requests, mLastEventNumber>>
  BY DEF SendLastReport, Count
<1> QED
  BY <1>1, <1>2, StepCloseVisited

\* A report that fits into no message closes its handler.
LEMMA StepSendStatusReport ==
    ASSUME IndInv, Visiting, MustReport(handler[Visited]), NEW content,
           SendStatusReport(handler[Visited], content)
    PROVE  IndInv'
<1>1. mRunScheduled \in BOOLEAN
  BY DEF IndInv, TypeOK
<1>2. /\ handler' = [handler EXCEPT ![Visited] = Free]
      /\ toVisit' = toVisit - 1 /\ missed' = missed \ {Visited}
      /\ UNCHANGED <<mNumReportsInFlight, mCurReadHandlerIdx, mRunScheduled, mGlobalDirtySet,
                     mDirtyGeneration, requests, mLastEventNumber>>
  BY DEF SendStatusReport, Count
<1> QED
  BY <1>1, <1>2, StepCloseVisited

\* A failed send closes its handler and leaves the run.
LEMMA StepSendFails ==
    ASSUME IndInv, SendFails
    PROVE  IndInv'
<1>1. mRunScheduled \in BOOLEAN
  BY DEF IndInv, TypeOK
<1>2. /\ Visiting /\ MustReport(handler[Visited])
      /\ handler' = [handler EXCEPT ![Visited] = Free]
      /\ toVisit' = NotRunning /\ missed' = missed \ {Visited}
      /\ mCurReadHandlerIdx' = (mCurReadHandlerIdx - 1) % IndexModulus
      /\ UNCHANGED <<mNumReportsInFlight, mRunScheduled, mGlobalDirtySet, mDirtyGeneration,
                     requests, mLastEventNumber>>
  BY DEF SendFails, LeaveRun
<1> QED
  BY <1>1, <1>2, StepCloseVisited

\* A handler that is not dirty has nothing to send.
LEMMA CleanHandler ==
    ASSUME NEW hd \in HandlerRecords, NEW D, NEW g, HandlerOK(hd, D, g), ~IsDirty(hd)
    PROVE  hd.unsent = {}
<1> SUFFICES ASSUME NEW a \in hd.unsent PROVE FALSE
  OBVIOUS
<1>1. ~hd.forceDirty /\ ~(hd.dirtyGen > hd.prevGen) /\ hd.priming \in BOOLEAN
  BY Fields DEF IsDirty
<1>2. hd.priming
  BY <1>1 DEF HandlerOK, ReportOK
<1>3. ~hd.chunked /\ ~CanStartReporting(hd)
  BY <1>1, <1>2 DEF HandlerOK, ReportOK
<1> QED
  BY <1>1, <1>3 DEF HandlerOK, StaysDirty, Since

\* The dirty set is cleared only when it stands for nothing.
LEMMA StepRunEnds ==
    ASSUME IndInv, RunEnds
    PROVE  IndInv'
<1>0. /\ TypeOK /\ PoolOK /\ HandlersOK /\ InFlightIsAwaiting /\ SomeoneWakesTheEngine
      /\ DirtyOK(mGlobalDirtySet, mDirtyGeneration)
  BY DEF IndInv
<1>1. /\ toVisit # NotRunning /\ ~Visiting
      /\ toVisit' = NotRunning /\ missed' = IF toVisit = 0 THEN missed ELSE {}
      /\ mCurReadHandlerIdx' \in {0, mCurReadHandlerIdx}
      /\ mGlobalDirtySet' = IF \E h \in Allocated : IsDirty(handler[h]) THEN mGlobalDirtySet ELSE {}
      /\ UNCHANGED <<handler, mNumReportsInFlight, mRunScheduled, mDirtyGeneration, requests,
                     mLastEventNumber>>
  BY DEF RunEnds
<1>2. Allocated' = Allocated /\ Subscribers' = Subscribers /\ Readers' = Readers
      /\ Awaiting' = Awaiting
  BY <1>1 DEF Allocated, Subscribers, Readers, Awaiting
<1>3. DirtyOK({}, mDirtyGeneration)
  BY FS_EmptySet, ConstantTypes DEF DirtyOK
<1>4. DirtyOK(mGlobalDirtySet, mDirtyGeneration)'
  <2>1. DirtyOK(mGlobalDirtySet', mDirtyGeneration)
    BY <1>0, <1>1, <1>3
  <2> QED
    BY <1>1, <2>1 DEF DirtyOK
<1>5. TypeOK'
  <2>1. mCurReadHandlerIdx' \in 0 .. IndexModulus - 1 /\ toVisit' \in NotRunning .. NumHandlers
    BY <1>0, <1>1, ConstantTypes DEF TypeOK, NotRunning
  <2>2. mGlobalDirtySet' \subseteq DirtyEntries /\ Cardinality(mGlobalDirtySet') <= MaxDirtySet
    BY <1>4 DEF DirtyOK
  <2> QED
    BY <1>0, <1>1, <2>1, <2>2 DEF TypeOK
<1>6. PoolOK'
  BY <1>0, <1>1, <1>2, SettledPoolOK
<1>7. InFlightIsAwaiting'
  BY <1>0, <1>1, <1>2 DEF InFlightIsAwaiting, Awaiting
<1>8. HandlersOK'
  <2>1. ASSUME NEW h \in Allocated
        PROVE  HandlerOK(handler[h], mGlobalDirtySet', mDirtyGeneration)
    <3>1. handler[h] \in HandlerRecords /\ HandlerOK(handler[h], mGlobalDirtySet, mDirtyGeneration)
      BY <1>0, AllocatedHandler DEF HandlersOK
    <3>2. CASE IsDirty(handler[h])
      BY <1>1, <3>1, <3>2
    <3>3. CASE ~IsDirty(handler[h])
      <4>1. handler[h].unsent = {}
        BY <3>1, <3>3, CleanHandler
      <4>2. StaysDirty(handler[h], mGlobalDirtySet')
        BY <4>1 DEF StaysDirty
      <4> QED
        BY <3>1, <4>2 DEF HandlerOK
    <3> QED
      BY <3>2, <3>3
  <2> QED
    BY <1>1, <1>2, <2>1 DEF HandlersOK
<1>9. SomeoneWakesTheEngine'
  <2>1. toVisit # 0 => mNumReportsInFlight = MaxInFlight
    BY <1>0, <1>1, ConstantTypes DEF Visiting, TypeOK, NotRunning
  <2> QED
    BY <1>0, <1>1, <1>2, <2>1 DEF SomeoneWakesTheEngine
<1> QED
  BY <1>4, <1>5, <1>6, <1>7, <1>8, <1>9 DEF IndInv

-----------------------------------------------------------------------------
(* The theorems.                                                           *)

\* The inductive invariant holds initially.
LEMMA InitIndInv == Init => IndInv
<1> SUFFICES ASSUME Init PROVE IndInv
  OBVIOUS
<1>1. Allocated = {}
  BY DEF Init, Allocated, Free
<1>2. TypeOK
  <2>1. handler \in [Handlers -> HandlerRecords \cup {Free}] /\ missed \subseteq Handlers
    BY DEF Init
  <2>2. mGlobalDirtySet \subseteq DirtyEntries /\ Cardinality(mGlobalDirtySet) <= MaxDirtySet
    BY FS_EmptySet, ConstantTypes DEF Init
  <2>3. /\ mDirtyGeneration \in 1 .. MaxInputs + 1 /\ mNumReportsInFlight \in 0 .. MaxInFlight
        /\ mCurReadHandlerIdx \in 0 .. IndexModulus - 1 /\ mRunScheduled \in BOOLEAN
        /\ toVisit \in NotRunning .. NumHandlers /\ mLastEventNumber \in 0 .. MaxInputs
        /\ requests \in 0 .. MaxInputs
    <3>1. /\ mDirtyGeneration = 1 /\ mNumReportsInFlight = 0 /\ mCurReadHandlerIdx = 0
          /\ mRunScheduled = FALSE /\ toVisit = NotRunning /\ mLastEventNumber = 0 /\ requests = 0
      BY DEF Init
    <3>2. /\ 1 \in 1 .. MaxInputs + 1 /\ 0 \in 0 .. MaxInFlight /\ 0 \in 0 .. IndexModulus - 1
          /\ NotRunning \in NotRunning .. NumHandlers /\ 0 \in 0 .. MaxInputs
      BY ConstantTypes DEF NotRunning
    <3> QED
      BY <3>1, <3>2
  <2> QED
    BY <2>1, <2>2, <2>3 DEF TypeOK
<1>3. DirtyOK(mGlobalDirtySet, mDirtyGeneration)
  BY FS_EmptySet, ConstantTypes DEF Init, DirtyOK
<1>4. PoolOK
  BY <1>1, FS_EmptySet, ConstantTypes DEF Init, PoolOK, Subscribers, Readers, NotRunning
<1>5. InFlightIsAwaiting
  BY <1>1, FS_EmptySet DEF Init, InFlightIsAwaiting
<1> QED
  BY <1>1, <1>2, <1>3, <1>4, <1>5 DEF IndInv, HandlersOK, SomeoneWakesTheEngine

\* Every step preserves the inductive invariant.
LEMMA NextIndInv == IndInv /\ [Next]_vars => IndInv'
<1> SUFFICES ASSUME IndInv, [Next]_vars PROVE IndInv'
  OBVIOUS
<1>1. CASE \E request \in Requests : OnReadInitialRequest(request)
  BY <1>1, StepOnReadInitialRequest
<1>2. CASE \E h \in Handlers : OnStatusResponse(h)
  BY <1>2, StepOnStatusResponse
<1>3. CASE \E h \in Handlers : OnResponseTimeout(h)
  BY <1>3, StepCloseHandler DEF OnResponseTimeout
<1>4. CASE \E h \in Handlers : EvictHandler(h)
  BY <1>4, StepCloseHandler DEF EvictHandler
<1>5. CASE \E path \in {{a} : a \in Attributes} \cup EndpointPaths : SetDirty(path)
  <2>1. PICK path \in {{a} : a \in Attributes} \cup EndpointPaths : SetDirty(path)
    BY <1>5
  <2>2. path \subseteq Attributes /\ path # {}
    BY ReportingAssumption
  <2> QED
    BY <2>1, <2>2, StepSetDirty
<1>6. CASE UrgentEventGenerated
  BY <1>6, StepUrgentEventGenerated
<1>7. CASE \E h \in Handlers : TimerFired(h)
  BY <1>7, StepTimerFired
<1>8. CASE Tick
  BY <1>8, StepTick
<1>9. CASE Run
  BY <1>9, StepRun
<1>10. CASE SkipHandler
  BY <1>10, StepSkipHandler
<1>11. CASE BuildAndSendSingleReportData
  <2>1. Visiting /\ MustReport(handler[Visited])
    BY <1>11 DEF BuildAndSendSingleReportData
  <2>2. PICK content \in Contents(handler[Visited]) :
           \/ SendReport(handler[Visited], content)
           \/ SendLastReport(handler[Visited], content)
           \/ SendStatusReport(handler[Visited], content)
    BY <1>11 DEF BuildAndSendSingleReportData
  <2> QED
    BY <2>1, <2>2, StepSendReport, StepSendLastReport, StepSendStatusReport
<1>12. CASE SendFails
  BY <1>12, StepSendFails
<1>13. CASE RunEnds
  BY <1>13, StepRunEnds
<1>14. CASE UNCHANGED vars
  BY <1>14 DEF IndInv, TypeOK, DirtyOK, PoolOK, InFlightIsAwaiting, HandlersOK,
               SomeoneWakesTheEngine, Allocated, Subscribers, Readers, vars, engineVars
<1> QED
  BY <1>1, <1>2, <1>3, <1>4, <1>5, <1>6, <1>7, <1>8, <1>9, <1>10, <1>11, <1>12, <1>13, <1>14
     DEF Next, EngineStep

\* The inductive invariant of reads and subscriptions.
LEMMA Invariance == Spec => []IndInv
<1>1. Init => IndInv
  BY InitIndInv
<1>2. IndInv /\ [Next]_vars => IndInv'
  BY NextIndInv
<1> QED
  BY <1>1, <1>2, PTL DEF Spec

\* Every variable keeps its type: the dirty set fits its pool, the index of the
\* round robin its range and the reports in flight their limit (InsertPathInto-
\* DirtySet, Engine::Run).
THEOREM TypeCorrect == Spec => []TypeOK
<1>1. IndInv => TypeOK
  BY DEF IndInv
<1> QED
  BY <1>1, Invariance, PTL

\* mNumReportsInFlight is the number of handlers that await a response, whatever
\* way a handler is closed (OnReportConfirm, ReadHandler::Close).
THEOREM InFlightCounted == Spec => []InFlightIsAwaiting
<1>1. IndInv => InFlightIsAwaiting
  BY DEF IndInv
<1> QED
  BY <1>1, Invariance, PTL

\* No change is forgotten over merges of the dirty set, chunks and the end of a
\* run (SetDirty, InsertPathIntoDirtySet, Engine::Run).
THEOREM ChangesAreKept == Spec => []ChangesStayDirty
<1>1. IndInv => ChangesStayDirty
  <2> SUFFICES ASSUME IndInv, NEW h \in Allocated, NEW a \in handler[h].unsent
               PROVE  /\ IsDirty(handler[h])
                      /\ \/ handler[h].priming /\ (~handler[h].chunked \/ a > handler[h].pos)
                         \/ \E e \in mGlobalDirtySet : a \in e.path /\ e.gen > handler[h].prevGen
    BY DEF ChangesStayDirty
  <2> DEFINE hd == handler[h]
  <2>1. TypeOK /\ hd \in HandlerRecords /\ HandlerOK(hd, mGlobalDirtySet, mDirtyGeneration)
    BY AllocatedHandler DEF IndInv, HandlersOK
  <2>2. a \in hd.unsent
    OBVIOUS
  <2> HIDE DEF hd
  <2>3. IsDirty(hd)
    BY <2>1, <2>2, CleanHandler
  <2>4. \/ hd.priming /\ (~hd.chunked \/ a > hd.pos)
        \/ Covered(mGlobalDirtySet, a, hd.prevGen)
        \/ Covered(mGlobalDirtySet, a, Since(hd))
    BY <2>1, <2>2 DEF HandlerOK, StaysDirty
  <2>5. Covered(mGlobalDirtySet, a, Since(hd)) => Covered(mGlobalDirtySet, a, hd.prevGen)
    <3> SUFFICES ASSUME NEW e \in mGlobalDirtySet, a \in e.path, e.gen > Since(hd)
                 PROVE  e.gen > hd.prevGen
      BY DEF Covered
    <3>1. hd.prevGen \in Nat /\ hd.curGen \in Nat /\ hd.prevGen <= Since(hd) /\ Since(hd) \in Nat
      BY <2>1, Fields DEF HandlerOK, ReportOK, Since
    <3>2. e.gen \in Nat
      BY <2>1, DirtyFields DEF TypeOK
    <3> QED
      BY <3>1, <3>2
  <2> QED
    BY <2>3, <2>4, <2>5 DEF Covered, hd
<1> QED
  BY <1>1, Invariance, PTL

\* A report is coherent within a cluster (ReadHandler::AttributePathIsDirty).
THEOREM ReportsAreCoherent == Spec => []ClustersAreCoherent
<1>1. IndInv => ClustersAreCoherent
  BY DEF IndInv, HandlersOK, HandlerOK, Coherent, ClustersAreCoherent
<1> QED
  BY <1>1, Invariance, PTL

\* No report of a subscription begins before its minimum interval has passed,
\* but for a timer that fired before its time since the last one
\* (ReportSchedulerImpl::OnSubscriptionReportSent, ReadHandlerNode::TimerFired).
THEOREM MinIntervalIsKept == Spec => []NotBeforeMinInterval
<1>1. IndInv => NotBeforeMinInterval
  BY DEF IndInv, HandlersOK, HandlerOK, TimerOK, NotBeforeMinInterval
<1> QED
  BY <1>1, Invariance, PTL

\* No handler that could report is left without a run, a report in flight or a
\* timer to wait for (ReportSchedulerImpl::OnBecameReportable, OnReportConfirm).
THEOREM NobodyIsForgotten == Spec => []SomeoneWakesTheEngine
<1>1. IndInv => SomeoneWakesTheEngine
  BY DEF IndInv
<1> QED
  BY <1>1, Invariance, PTL

===============================================================================
