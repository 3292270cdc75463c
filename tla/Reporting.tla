------------------------------ MODULE Reporting ------------------------------
(***************************************************************************)
(* Reads and subscriptions of the interaction model server: the handlers   *)
(* (ReadHandler), the engine that builds and sends their reports           *)
(* (reporting::Engine) and the scheduler that wakes the engine             *)
(* (ReportSchedulerImpl).  All of it runs on the Matter thread; Engine::Run*)
(* is posted to it and visits the handlers in one turn, which is split     *)
(* here into one step per handler during which nothing else happens.       *)
(*                                                                         *)
(* A path is the set of the attributes it stands for: a superset of paths  *)
(* is a superset of sets and two paths intersect if the sets do.  A        *)
(* request names one path, with a wildcard for the attribute.  How much    *)
(* fits into a message is a choice.                                        *)
(***************************************************************************)
EXTENDS Integers, FiniteSets, FiniteSetsExt

CONSTANTS
    MaxSubscriptions, \* CHIP_IM_MAX_NUM_SUBSCRIPTIONS
    MaxReads,         \* CHIP_IM_MAX_NUM_READS
    MaxInFlight,      \* CHIP_IM_MAX_REPORTS_IN_FLIGHT
    MaxDirtySet,      \* CHIP_IM_SERVER_MAX_NUM_DIRTY_SET
    IndexModulus,     \* 2^32, the range of mCurReadHandlerIdx
    NumAttributes,    \* attributes of the data model, in the order of expansion
    ClusterPaths,     \* the paths of whole clusters
    EndpointPaths,    \* the paths of whole endpoints
    Requests,         \* what clients ask for: a path, once or as a subscription
    MinInterval,      \* mMinIntervalFloorSeconds, in ticks
    MaxInterval,      \* mMaxInterval, in ticks
    MaxInputs         \* bound: requests, attribute changes and events together

\* The pool has room for every read and every subscription.
NumHandlers == MaxSubscriptions + MaxReads
Handlers == 1 .. NumHandlers
Attributes == 1 .. NumAttributes

ASSUME ReportingAssumption ==
    /\ {MaxInFlight, MaxDirtySet, NumAttributes, MaxInterval} \subseteq Nat \ {0}
    /\ {MaxSubscriptions, MaxReads, MinInterval, MaxInputs} \subseteq Nat
    /\ IndexModulus \in Nat /\ IndexModulus > NumHandlers
    /\ MinInterval <= MaxInterval
    /\ \A paths \in {ClusterPaths, EndpointPaths} :
          \A a \in Attributes : \E p \in paths : a \in p
    /\ \A p \in ClusterPaths \cup EndpointPaths : p \in (SUBSET Attributes) \ {{}}
    /\ \A paths \in {ClusterPaths, EndpointPaths} :
          \A p, q \in paths : p = q \/ p \cap q = {}
    /\ \A c \in ClusterPaths : \A a, b \in c : a .. b \subseteq c
    /\ Requests \subseteq [subscribe : BOOLEAN, path : (SUBSET Attributes) \ {{}}]

VARIABLES
    handler,             \* the pool of read handlers
    mGlobalDirtySet,     \* dirty paths, each with the generation it was last dirtied in
    mDirtyGeneration,    \* generation of the dirty set
    mNumReportsInFlight,
    mCurReadHandlerIdx,  \* round-robin position of Engine::Run
    mRunScheduled,       \* Engine::Run is posted
    toVisit,             \* handlers Engine::Run still has to visit, or NotRunning
    mLastEventNumber,    \* number of the last (urgent) event logged
    requests,            \* requests served so far
    missed               \* history: handlers the run of the engine has not visited, or
                         \* that the last run did not visit although it could

engineVars == <<mGlobalDirtySet, mDirtyGeneration, mCurReadHandlerIdx, toVisit, missed>>
vars == <<handler, mNumReportsInFlight, mRunScheduled, requests, engineVars, mLastEventNumber>>

\* Requests received, attributes changed and events logged so far.
Inputs == requests + (mDirtyGeneration - 1) + mLastEventNumber

NotRunning == -1
NoTimer == -1

\* A timeout of MaxTimestamp - now computed after MaxTimestamp wraps around in
\* Milliseconds32: seven weeks, beyond any behaviour of interest.
FarAway == NoTimer

\* A slot of the pool that is not allocated.
Free == [state |-> "Free"]

Allocated == {h \in Handlers : handler[h].state # "Free"}

-------------------------------------------------------------------------------
(* ReadHandler, as operators on the record of one handler. *)

\* The constructor and OnInitialRequest: the handler has to send all it was
\* asked for.  eventMin is 1 for mEventMin = 0, both stand for every event.
NewHandler(request) ==
    [state |-> "CanStartReporting", subscribe |-> request.subscribe, path |-> request.path,
     priming |-> TRUE, chunked |-> FALSE, forceDirty |-> TRUE,
     dirtyGen |-> 0, prevGen |-> 0, curGen |-> 0, pos |-> 0,
     eventMin |-> 1, lastScheduled |-> 0,
     registered |-> FALSE, min |-> 0, max |-> -1, timer |-> NoTimer, runScheduled |-> FALSE,
     early |-> FALSE,          \* history: the timer fired before its time, after the last report
     unsent |-> request.path]  \* history: attributes whose present value is in no report

CanStartReporting(hd) == hd.state = "CanStartReporting"

IsAwaitingReportResponse(hd) == hd.state = "AwaitingReportResponse"

IsDirty(hd) == hd.dirtyGen > hd.prevGen \/ hd.forceDirty

ShouldReportUnscheduled(hd) == CanStartReporting(hd) /\ (~hd.subscribe \/ hd.priming)

ShouldStartReporting(hd) ==
    CanStartReporting(hd) /\ (ShouldReportUnscheduled(hd) \/ IsDirty(hd))

\* The attribute the iterator of a report comes to next, if there is one.
Upcoming(hd) == {a \in hd.path : a > hd.pos /\ \A b \in hd.path : b > hd.pos => b >= a}

Cluster(a) == CHOOSE c \in ClusterPaths : a \in c

\* Mutant: the iterator is left where it is.
MarkDirtyKeepsPosition(hd, changed, generation) ==
    [hd EXCEPT !.dirtyGen = generation, !.unsent = @ \cup (hd.path \cap changed)]

\* AttributePathIsDirty without its last call.  If the change touches the
\* cluster of the upcoming attribute, the iterator goes back to the start of
\* the cluster it was last in.
MarkDirty(hd, changed, generation) ==
    [hd EXCEPT
        !.dirtyGen = generation,
        !.unsent = @ \cup (hd.path \cap changed),
        !.pos = IF @ # 0 /\ \E a \in Upcoming(hd) : Cluster(a) \cap changed # {}
                  THEN Min(Cluster(@)) - 1
                  ELSE @]

-------------------------------------------------------------------------------
(* ReportSchedulerImpl.  min, max and timer count down to the timestamps of  *)
(* the handler's node and to the end of its timer.                           *)

IsReportableNow(hd) ==
    /\ hd.registered
    /\ CanStartReporting(hd)
    /\ \/ hd.min = 0 /\ (IsDirty(hd) \/ hd.max <= 0)
       \/ hd.runScheduled

CalculateNextReportTimeout(hd) ==
    CASE IsReportableNow(hd) -> 0
      [] ~IsReportableNow(hd) /\ ShouldStartReporting(hd) /\ hd.min > 0 -> hd.min
      [] OTHER -> IF hd.max < 0 THEN FarAway ELSE hd.max

\* The timeout is 0, so TimerFired is called at once and schedules a run.
WakesEngine(hd) == hd.registered /\ CalculateNextReportTimeout(hd) = 0

OnBecameReportable(hd) ==
    CASE ~hd.registered -> hd
      [] WakesEngine(hd) -> [hd EXCEPT !.runScheduled = TRUE, !.timer = NoTimer]
      [] OTHER -> [hd EXCEPT !.timer = CalculateNextReportTimeout(hd)]

SetIntervalTimeStamps(hd) == [hd EXCEPT !.min = MinInterval, !.max = MaxInterval]

OnSubscriptionEstablished(hd) == [SetIntervalTimeStamps(hd) EXCEPT !.registered = TRUE]

\* Mutant: EngineRunScheduled is not reset.
OnSubscriptionReportSentKeepsFlag(hd) ==
    OnBecameReportable([SetIntervalTimeStamps(hd) EXCEPT !.early = FALSE])

OnSubscriptionReportSent(hd) ==
    OnBecameReportable([SetIntervalTimeStamps(hd) EXCEPT !.runScheduled = FALSE, !.early = FALSE])

\* ForceDirtyState, for every subscription.
ForceDirty(h) ==
    LET old == handler[h]
        new == [old EXCEPT !.forceDirty = TRUE]
        told == ~ShouldStartReporting(old) /\ ShouldStartReporting(new)
    IN IF h \in Allocated /\ old.subscribe
         THEN [hd    |-> IF told THEN OnBecameReportable(new) ELSE new,
               wakes |-> told /\ WakesEngine(new)]
         ELSE [hd |-> old, wakes |-> FALSE]

-------------------------------------------------------------------------------
(* The dirty set of the engine. *)

Entry(path, generation) == [path |-> path, gen |-> generation]

\* The outcomes of merging a path into one that covers it or that it covers,
\* whichever comes first in the pool; none if there is no such path.
MergeOverlappedAttributePath(dirtySet, path, generation) ==
    {(dirtySet \ {e}) \cup {Entry(path \cup e.path, generation)} :
        e \in {d \in dirtySet : path \subseteq d.path \/ d.path \subseteq path}}

\* MergeDirtyPathsUnderSameCluster and MergeDirtyPathsUnderSameEndpoint: where
\* several paths lie under the same whole, it takes their place.
MergeDirtyPathsUnder(wholes, dirtySet) ==
    LET under(w) == {e \in dirtySet : e.path \subseteq w}
        crowded == {w \in wholes : Cardinality(under(w)) > 1}
    IN (dirtySet \ UNION {under(w) : w \in crowded})
         \cup {Entry(w, Max({e.gen : e \in under(w)})) : w \in crowded}

\* Mutant: a full pool is not noticed.
MakeRoomNever(dirtySet, generation) == dirtySet

MakeRoom(dirtySet, generation) ==
    LET byCluster == MergeDirtyPathsUnder(ClusterPaths, dirtySet)
        byEndpoint == MergeDirtyPathsUnder(EndpointPaths, dirtySet)
    IN CASE Cardinality(dirtySet) < MaxDirtySet -> dirtySet
         [] Cardinality(dirtySet) >= MaxDirtySet /\ byCluster # dirtySet -> byCluster
         [] OTHER -> IF byEndpoint # dirtySet
                       THEN byEndpoint
                       ELSE {Entry(Attributes, generation)}

\* The outcomes of InsertPathIntoDirtySet.
InsertPathIntoDirtySet(path, generation) ==
    LET merged == MergeOverlappedAttributePath(mGlobalDirtySet, path, generation)
        roomy == MakeRoom(mGlobalDirtySet, generation)
        mergedNow == MergeOverlappedAttributePath(roomy, path, generation)
    IN CASE merged # {} -> merged
         [] merged = {} /\ mergedNow # {} -> mergedNow
         [] OTHER -> {roomy \cup {Entry(path, generation)}}

\* The paths a report of this handler has to look at: all of them in a read and
\* in the first report of a subscription.
Reportable(hd, a) ==
    hd.priming \/ \E e \in mGlobalDirtySet : a \in e.path /\ e.gen > hd.prevGen

-------------------------------------------------------------------------------
(* Requests, responses, changes and time. *)

Init ==
    /\ handler = [h \in Handlers |-> Free]
    /\ mGlobalDirtySet = {}
    /\ mDirtyGeneration = 1
    /\ mNumReportsInFlight = 0
    /\ mCurReadHandlerIdx = 0
    /\ mRunScheduled = FALSE
    /\ toVisit = NotRunning
    /\ mLastEventNumber = 0
    /\ requests = 0
    /\ missed = {}

\* A read or subscribe request takes the first free handler, if its kind is not
\* at its limit.
OnReadInitialRequest(request) ==
    /\ toVisit = NotRunning
    /\ Inputs < MaxInputs
    /\ Cardinality({h \in Allocated : handler[h].subscribe = request.subscribe})
         < IF request.subscribe THEN MaxSubscriptions ELSE MaxReads
    /\ requests' = requests + 1
    /\ handler' = [handler EXCEPT ![Min(Handlers \ Allocated)] = NewHandler(request)]
    /\ mRunScheduled' = TRUE
    /\ UNCHANGED <<mNumReportsInFlight, engineVars, mLastEventNumber>>

\* Mutant: the scheduler is not told that the handler can report again.
OnStatusResponseUnnoticed(h) ==
    /\ toVisit = NotRunning
    /\ h \in Allocated
    /\ IsAwaitingReportResponse(handler[h])
    /\ LET hd == [handler[h] EXCEPT !.state = "CanStartReporting"]
           established == hd.subscribe /\ hd.priming /\ ~hd.chunked
           next == IF established
                     THEN OnSubscriptionEstablished([hd EXCEPT !.priming = FALSE])
                     ELSE hd
       IN /\ handler' = [handler EXCEPT ![h] = next]
          /\ mRunScheduled' = (mRunScheduled \/ ShouldReportUnscheduled(next))
    /\ mNumReportsInFlight' = mNumReportsInFlight - 1
    /\ UNCHANGED <<requests, engineVars, mLastEventNumber>>

\* A successful status response: the next chunk, the subscribe response or the
\* wait for the next report.
OnStatusResponse(h) ==
    /\ toVisit = NotRunning
    /\ h \in Allocated
    /\ IsAwaitingReportResponse(handler[h])
    /\ LET hd == [handler[h] EXCEPT !.state = "CanStartReporting"]
           established == hd.subscribe /\ hd.priming /\ ~hd.chunked
           next == IF established
                     THEN OnSubscriptionEstablished([hd EXCEPT !.priming = FALSE])
                     ELSE hd
       IN /\ handler' = [handler EXCEPT ![h] = OnBecameReportable(next)]
          /\ mRunScheduled' = \/ mRunScheduled
                              \/ mNumReportsInFlight = MaxInFlight
                              \/ ShouldReportUnscheduled(next)
                              \/ WakesEngine(next)
    /\ mNumReportsInFlight' = mNumReportsInFlight - 1
    /\ UNCHANGED <<requests, engineVars, mLastEventNumber>>

\* Mutant: a report in flight is not confirmed when its handler is closed.
CloseHandlerUnconfirmed(h) ==
    /\ toVisit = NotRunning
    /\ h \in Allocated
    /\ handler' = [handler EXCEPT ![h] = Free]
    /\ mCurReadHandlerIdx' = 0
    /\ missed' = missed \ {h}
    /\ UNCHANGED <<mNumReportsInFlight, mRunScheduled, mGlobalDirtySet, mDirtyGeneration,
                   toVisit, requests, mLastEventNumber>>

\* Mutant: nobody is told that a report may be sent again.
CloseHandlerQuietly(h) ==
    /\ toVisit = NotRunning
    /\ h \in Allocated
    /\ handler' = [handler EXCEPT ![h] = Free]
    /\ mCurReadHandlerIdx' = 0
    /\ mNumReportsInFlight' = mNumReportsInFlight
                                - IF IsAwaitingReportResponse(handler[h]) THEN 1 ELSE 0
    /\ missed' = missed \ {h}
    /\ UNCHANGED <<mRunScheduled, mGlobalDirtySet, mDirtyGeneration, toVisit,
                   requests, mLastEventNumber>>

\* ReadHandler::Close outside of a run of the engine.
CloseHandler(h) ==
    /\ toVisit = NotRunning
    /\ h \in Allocated
    /\ handler' = [handler EXCEPT ![h] = Free]
    /\ mCurReadHandlerIdx' = 0
    /\ IF IsAwaitingReportResponse(handler[h])
         THEN /\ mNumReportsInFlight' = mNumReportsInFlight - 1
              /\ mRunScheduled' = (mRunScheduled \/ mNumReportsInFlight = MaxInFlight)
         ELSE UNCHANGED <<mNumReportsInFlight, mRunScheduled>>
    /\ missed' = missed \ {h}
    /\ UNCHANGED <<mGlobalDirtySet, mDirtyGeneration, toVisit, requests, mLastEventNumber>>

\* No response came, or it was a failure.
OnResponseTimeout(h) == handler[h].state = "AwaitingReportResponse" /\ CloseHandler(h)

\* The interaction model engine needs the handler for another client, its client
\* asks for a new subscription instead, or its fabric is removed.
EvictHandler(h) == handler[h].state = "CanStartReporting" /\ CloseHandler(h)

\* Engine::SetDirty, from an attribute or an endpoint that changed.
SetDirty(path) ==
    /\ toVisit = NotRunning
    /\ Inputs < MaxInputs
    /\ mDirtyGeneration' = mDirtyGeneration + 1
    /\ LET generation == mDirtyGeneration + 1
           affected == {h \in Allocated : handler[h].path \cap path # {}}
           marked == [h \in affected |-> MarkDirty(handler[h], path, generation)]
       IN /\ handler' = [h \in Handlers |-> IF h \in affected THEN OnBecameReportable(marked[h])
                                                              ELSE handler[h]]
          /\ mRunScheduled' = (mRunScheduled \/ \E h \in affected : WakesEngine(marked[h]))
          /\ IF affected = {}
               THEN UNCHANGED mGlobalDirtySet
               ELSE mGlobalDirtySet' \in InsertPathIntoDirtySet(path, generation)
    /\ UNCHANGED <<mNumReportsInFlight, mCurReadHandlerIdx, toVisit, missed, requests, mLastEventNumber>>

ForceAllDirty ==
    /\ handler' = [h \in Handlers |-> ForceDirty(h).hd]
    /\ mRunScheduled' = (mRunScheduled \/ \E h \in Handlers : ForceDirty(h).wakes)

\* Engine::NewEventGenerated for an event some subscription calls urgent.
UrgentEventGenerated ==
    /\ toVisit = NotRunning
    /\ Inputs < MaxInputs
    /\ mLastEventNumber' = mLastEventNumber + 1
    /\ ForceAllDirty
    /\ UNCHANGED <<mNumReportsInFlight, requests, engineVars>>

Fired(hd) ==
    [hd EXCEPT !.runScheduled = TRUE, !.timer = NoTimer, !.early = hd.early \/ hd.timer > 0]

\* An armed timer fires, also before its time: the clock may be adjusted.
TimerFired(h) ==
    /\ toVisit = NotRunning
    /\ h \in Allocated
    /\ handler[h].timer # NoTimer
    /\ handler' = [handler EXCEPT ![h] = Fired(@)]
    /\ mRunScheduled' = TRUE
    /\ UNCHANGED <<mNumReportsInFlight, requests, engineVars, mLastEventNumber>>

\* Time passes for the nodes of the scheduler.  A tick is long compared with the
\* delay of a posted run, but timers may be late as well as early.
Tick ==
    LET later(t, end) == IF t > end THEN t - 1 ELSE t
    IN /\ toVisit = NotRunning
       /\ ~mRunScheduled
       /\ handler' = [h \in Handlers |->
                        IF h \in Allocated
                          THEN [handler[h] EXCEPT !.min = later(@, 0), !.max = later(@, -1),
                                                  !.timer = later(@, 0)]
                          ELSE Free]
       /\ UNCHANGED <<mNumReportsInFlight, mRunScheduled, requests, engineVars, mLastEventNumber>>

-------------------------------------------------------------------------------
(* Engine::Run. *)

ActiveHandlerAt(i) ==
    CHOOSE h \in Allocated :
        Cardinality({k \in Allocated : k < h}) = i % Cardinality(Allocated)

Visited == ActiveHandlerAt(mCurReadHandlerIdx)

Visiting == toVisit > 0 /\ mNumReportsInFlight < MaxInFlight

\* One handler less to visit.
Count ==
    /\ toVisit' = toVisit - 1
    /\ missed' = missed \ {Visited}

ToNextHandler ==
    /\ Count
    /\ mCurReadHandlerIdx' = (mCurReadHandlerIdx + 1) % IndexModulus

\* The loop is left at once; the handler that failed has been closed, and the
\* index gone back for it.
LeaveRun ==
    /\ toVisit' = NotRunning
    /\ mCurReadHandlerIdx' = (mCurReadHandlerIdx - 1) % IndexModulus
    /\ missed' = missed \ {Visited}

Run ==
    /\ toVisit = NotRunning
    /\ mRunScheduled
    /\ mRunScheduled' = FALSE
    /\ toVisit' = Cardinality(Allocated)
    /\ missed' = Allocated
    /\ UNCHANGED <<handler, mGlobalDirtySet, mDirtyGeneration, mNumReportsInFlight,
                   mCurReadHandlerIdx, requests, mLastEventNumber>>

MustReport(hd) == ShouldReportUnscheduled(hd) \/ IsReportableNow(hd)

SkipHandler ==
    /\ Visiting
    /\ ~MustReport(handler[Visited])
    /\ ToNextHandler
    /\ UNCHANGED <<handler, mNumReportsInFlight, mRunScheduled, mGlobalDirtySet,
                   mDirtyGeneration, requests, mLastEventNumber>>

\* What a message can hold of what is due: the attributes up to `last' and the
\* events before `eventMin'.
Due(hd) ==
    {a \in hd.path : a > (IF hd.chunked THEN hd.pos ELSE 0) /\ Reportable(hd, a)}

\* CheckEventClean: a report in chunks stops at the events logged before it began.
CheckEventClean(hd) ==
    hd.eventMin > IF hd.chunked THEN hd.lastScheduled ELSE mLastEventNumber

Contents(hd) ==
    [last : {0} \cup Due(hd),
     eventMin : IF CheckEventClean(hd) THEN {hd.eventMin}
                                       ELSE hd.eventMin .. mLastEventNumber + 1]

Encoded(hd, content) == {a \in Due(hd) : a <= content.last}

Postponed(hd, content) == Due(hd) \ Encoded(hd, content)

HasMoreChunks(hd, content) ==
    \/ Postponed(hd, content) # {}
    \/ ~CheckEventClean(hd) /\ content.eventMin <= mLastEventNumber

\* Not even the first item fits.
TooBig(hd, content) ==
    /\ Encoded(hd, content) = {}
    /\ content.eventMin = hd.eventMin
    /\ HasMoreChunks(hd, content)

\* BuildSingleReportData...: where the iterators are after this message.
Built(hd, content) ==
    [hd EXCEPT
        !.unsent = @ \ Encoded(hd, content),
        !.eventMin = content.eventMin,
        !.lastScheduled = IF hd.chunked \/ CheckEventClean(hd) THEN @ ELSE mLastEventNumber,
        !.pos = IF Postponed(hd, content) = {}
                  THEN NumAttributes
                  ELSE Max({0} \cup {a \in hd.path : a < Min(Postponed(hd, content))})]

\* Mutant: the report counts as begun when its last chunk is sent.
SentWithLastGeneration(hd, moreChunks) ==
    LET awaiting == [hd EXCEPT !.state = "AwaitingReportResponse",
                               !.curGen = mDirtyGeneration,
                               !.chunked = moreChunks]
        reported == IF hd.priming THEN awaiting ELSE OnSubscriptionReportSent(awaiting)
    IN IF moreChunks
         THEN awaiting
         ELSE [reported EXCEPT !.prevGen = mDirtyGeneration, !.forceDirty = FALSE]

\* SendReportData after a successful send.
Sent(hd, moreChunks) ==
    LET current == IF hd.chunked THEN hd.curGen ELSE mDirtyGeneration
        awaiting == [hd EXCEPT !.state = "AwaitingReportResponse",
                               !.curGen = current,
                               !.chunked = moreChunks]
        reported == IF hd.priming THEN awaiting ELSE OnSubscriptionReportSent(awaiting)
    IN IF moreChunks
         THEN awaiting
         ELSE [reported EXCEPT !.prevGen = current, !.forceDirty = FALSE]

\* A report, or a chunk of one, that is answered with a status response.
SendReport(hd, content) ==
    /\ ~TooBig(hd, content)
    /\ hd.subscribe \/ HasMoreChunks(hd, content)
    /\ handler' = [handler EXCEPT
                     ![Visited] = Sent(Built(hd, content), HasMoreChunks(hd, content))]
    /\ mNumReportsInFlight' = mNumReportsInFlight + 1
    /\ ToNextHandler
    /\ UNCHANGED <<mRunScheduled, mGlobalDirtySet, mDirtyGeneration, requests, mLastEventNumber>>

\* The last chunk of a read is not answered: the handler is closed.
SendLastReport(hd, content) ==
    /\ ~hd.subscribe
    /\ ~HasMoreChunks(hd, content)
    /\ handler' = [handler EXCEPT ![Visited] = Free]
    /\ mRunScheduled' = (mRunScheduled \/ mNumReportsInFlight + 1 = MaxInFlight)
    /\ Count
    /\ UNCHANGED <<mNumReportsInFlight, mCurReadHandlerIdx, mGlobalDirtySet, mDirtyGeneration,
                   requests, mLastEventNumber>>

\* Nothing fits into a message: the client is told so and the handler closed.
SendStatusReport(hd, content) ==
    /\ TooBig(hd, content)
    /\ handler' = [handler EXCEPT ![Visited] = Free]
    /\ Count
    /\ UNCHANGED <<mNumReportsInFlight, mCurReadHandlerIdx, mRunScheduled, mGlobalDirtySet,
                   mDirtyGeneration, requests, mLastEventNumber>>

BuildAndSendSingleReportData ==
    /\ Visiting
    /\ MustReport(handler[Visited])
    /\ LET hd == handler[Visited]
       IN \E content \in Contents(hd) :
             \/ SendReport(hd, content)
             \/ SendLastReport(hd, content)
             \/ SendStatusReport(hd, content)

\* The session of the handler is gone, there is no buffer or no exchange, or
\* sending fails: the handler is closed and the run left.
SendFails ==
    /\ Visiting
    /\ MustReport(handler[Visited])
    /\ handler' = [handler EXCEPT ![Visited] = Free]
    /\ LeaveRun
    /\ UNCHANGED <<mNumReportsInFlight, mRunScheduled, mGlobalDirtySet, mDirtyGeneration,
                   requests, mLastEventNumber>>

\* All handlers were visited, or no more reports may be sent.
RunEnds ==
    /\ toVisit # NotRunning
    /\ ~Visiting
    /\ toVisit' = NotRunning
    /\ missed' = IF toVisit = 0 THEN missed ELSE {}
    /\ mCurReadHandlerIdx' = IF mCurReadHandlerIdx >= Cardinality(Allocated)
                               THEN 0 ELSE mCurReadHandlerIdx
    /\ mGlobalDirtySet' = IF \E h \in Allocated : IsDirty(handler[h]) THEN mGlobalDirtySet ELSE {}
    /\ UNCHANGED <<handler, mNumReportsInFlight, mRunScheduled, mDirtyGeneration, requests, mLastEventNumber>>

-------------------------------------------------------------------------------
EngineStep == Run \/ SkipHandler \/ BuildAndSendSingleReportData \/ SendFails \/ RunEnds

Next ==
    \/ \E request \in Requests : OnReadInitialRequest(request)
    \/ \E h \in Handlers : OnStatusResponse(h)
    \/ \E h \in Handlers : OnResponseTimeout(h)
    \/ \E h \in Handlers : EvictHandler(h)
    \/ \E path \in {{a} : a \in Attributes} \cup EndpointPaths : SetDirty(path)
    \/ UrgentEventGenerated
    \/ \E h \in Handlers : TimerFired(h)
    \/ Tick
    \/ EngineStep

Spec == Init /\ [][Next]_vars

\* What is posted to the Matter thread runs, due timers fire, time passes, and the
\* wait for a status response ends in a response or a timeout.
Fairness ==
    /\ WF_vars(EngineStep)
    /\ WF_vars(Tick)
    /\ \A h \in Handlers :
          /\ WF_vars(TimerFired(h) /\ handler[h].timer = 0)
          /\ WF_vars(OnStatusResponse(h) \/ OnResponseTimeout(h))

FairSpec == Spec /\ Fairness

-------------------------------------------------------------------------------
HandlerRecords ==
    [state : {"CanStartReporting", "AwaitingReportResponse"}, subscribe : BOOLEAN,
     path : SUBSET Attributes, priming : BOOLEAN, chunked : BOOLEAN, forceDirty : BOOLEAN,
     dirtyGen : 0 .. MaxInputs + 1, prevGen : 0 .. MaxInputs + 1, curGen : 0 .. MaxInputs + 1,
     pos : 0 .. NumAttributes, eventMin : 1 .. MaxInputs + 1, lastScheduled : 0 .. MaxInputs,
     registered : BOOLEAN, min : 0 .. MinInterval, max : -1 .. MaxInterval,
     timer : -1 .. MaxInterval, runScheduled : BOOLEAN,
     early : BOOLEAN, unsent : SUBSET Attributes]

DirtyEntries == [path : (SUBSET Attributes) \ {{}}, gen : 1 .. MaxInputs + 1]

\* Every variable has its type; in particular the dirty set fits its pool.
TypeOK ==
    /\ handler \in [Handlers -> HandlerRecords \cup {Free}]
    /\ mGlobalDirtySet \subseteq DirtyEntries
    /\ Cardinality(mGlobalDirtySet) <= MaxDirtySet
    /\ mDirtyGeneration \in 1 .. MaxInputs + 1
    /\ mNumReportsInFlight \in 0 .. MaxInFlight
    /\ mCurReadHandlerIdx \in 0 .. IndexModulus - 1
    /\ mRunScheduled \in BOOLEAN
    /\ toVisit \in NotRunning .. NumHandlers
    /\ mLastEventNumber \in 0 .. MaxInputs
    /\ requests \in 0 .. MaxInputs
    /\ missed \subseteq Handlers

\* mNumReportsInFlight counts the handlers that wait for a status response, so
\* the VerifyOrDie of OnReportConfirm holds and a slot that is lost cannot
\* silence the device.
InFlightIsAwaiting ==
    mNumReportsInFlight = Cardinality({h \in Allocated : IsAwaitingReportResponse(handler[h])})

\* A value that changed and is in no report yet is not forgotten: its handler is
\* dirty and the attribute is either still ahead in the first report or covered
\* by a path of the dirty set that is newer than the handler's last complete
\* report - over merges of the dirty set, chunks and the end of a run, which
\* clears the dirty set.
ChangesStayDirty ==
    \A h \in Allocated :
        LET hd == handler[h]
        IN \A a \in hd.unsent :
              /\ IsDirty(hd)
              /\ \/ hd.priming /\ (~hd.chunked \/ a > hd.pos)
                 \/ \E e \in mGlobalDirtySet : a \in e.path /\ e.gen > hd.prevGen

\* Within one cluster a report is coherent: while a report is in the middle of a
\* cluster, what it has sent of the cluster is still current (the reset of the
\* iterator in AttributePathIsDirty).
ClustersAreCoherent ==
    \A h \in Allocated :
        LET hd == handler[h]
        IN hd.chunked =>
              \A a \in Upcoming(hd) :
                  \A b \in hd.unsent : b \in Cluster(a) => b >= a

\* EngineRunScheduled lets a handler report whatever its timestamps say, which is
\* meant for timers that fire early (ReadHandlerNode): it never lets a report begin
\* before the minimum interval has passed but for a timer of this handler that
\* fired before its time, and for one report only.
NotBeforeMinInterval ==
    \A h \in Allocated :
        handler[h].runScheduled /\ ~handler[h].early => handler[h].min = 0

\* Whoever could report is waited for: the run under way has yet to visit it, a
\* run is scheduled or will be when a report in flight is confirmed, or a timer
\* is armed - unless the last run missed it.
SomeoneWakesTheEngine ==
    \A h \in Allocated \ missed :
        LET hd == handler[h]
        IN CanStartReporting(hd) =>
              \/ mRunScheduled
              \/ mNumReportsInFlight = MaxInFlight
              \/ hd.timer # NoTimer

\* "Track how many we had initially, so we make sure to go through all of them"
\* (Engine::Run): when a run has counted to the end, it has visited every handler
\* it found, whatever handlers it closed on its way.
RunVisitsAll == toVisit = 0 => missed = {}

\* "Urgent event will be sent once reporting is not blocked by the min interval"
\* (NewEventGenerated): a subscription that has not sent it stays dirty.
UrgentEventsStayDirty ==
    \A h \in Allocated :
        LET hd == handler[h]
        IN hd.subscribe /\ hd.eventMin <= mLastEventNumber => IsDirty(hd)

\* Every change is reported, or the subscription ends (or a run misses it).
EveryChangeIsReported ==
    \A h \in Handlers :
        (h \in Allocated /\ handler[h].unsent # {})
            ~> (\/ h \notin Allocated
                \/ handler[h].unsent = {}
                \/ toVisit = NotRunning /\ h \in missed)
===============================================================================
